----------------------------- MODULE MCCompiler -----------------------------
(* Authored shapes: sequences of two items, an item a step, a conditional    *)
(* step, a split or a group, with or without `if`, nested once more; every    *)
(* step its own plugin.                                                      *)
EXTENDS Compiler

Leaf(n, c) == Step("uses", <<>>, n, c, {}, <<>>)
Conds == {{}, {{1}}}
Simple(n) == {Leaf(n, c) : c \in Conds}
Group(kind, S, T, c) == {Step(kind, <<>>, 0, c, {}, <<x, y>>) : x \in S, y \in T}
Inner(n) == Simple(n) \cup Group("steps", Simple(n), Simple(n + 1), {})
Inner2(n) == Simple(n) \cup Group("split", Simple(n), Simple(n + 1), {})
Item(n) == Simple(n) \cup Group("split", Inner(n), Inner(n + 2), {})
                     \cup Group("steps", Inner2(n), Inner2(n + 2), {})
\* Groups and splits that were given an `if`, inside one another too.
CondInner(n) == Simple(n) \cup Group("split", Simple(n), Simple(n + 1), {{1}})
CondItem(n) == Group("split", Simple(n), Simple(n + 2), {{1}})
               \cup Group("steps", CondInner(n), CondInner(n + 2), {{1}})
Authored(steps) == PipelineSpec("p", "t", FALSE, "", {0, 1}, {}, steps)
\* A step that was given the name the compiler would generate second.
Named(n) == Step("uses", <<"step", 2>>, n, {}, {}, <<>>)
MCSpecs == {Authored(<<x, y>>) : x \in Item(10), y \in Item(20)}
           \cup {Authored(<<x, y, z>>) : x \in Simple(10), y \in Item(20), z \in Simple(30)}
           \cup {Authored(<<x, y>>) : x \in CondItem(10), y \in CondItem(20)}
           \cup {Authored(<<Named(5), x, y>>) : x \in Item(10), y \in Simple(20)}

MCCallGraphs == [{"p", "q", "r"} -> SUBSET {"p", "q", "r"}] \cup [{"p", "q"} -> SUBSET {"q", "r"}]
=============================================================================
