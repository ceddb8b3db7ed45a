---------------------------- MODULE MCAlteration ----------------------------
(* Histories that between them change a field in every way there is. *)
EXTENDS Alteration

R(rule, bound) == [rule |-> rule, bound |-> bound]
Text(rules) == [kind |-> "text", rules |-> rules, null |-> FALSE]
Whole(bits, rules) == [kind |-> "whole", rules |-> rules, null |-> FALSE, bits |-> bits]
One == [kind |-> "one", entity |-> "line"]
Many == [kind |-> "many", entity |-> "line"]

OrNull(node) == [node EXCEPT !.null = TRUE]

F(name, node) == [name |-> name, node |-> node, optional |-> FALSE, default |-> None]
Maybe(field) == [field EXCEPT !.optional = TRUE]
Else(field, v) == [field EXCEPT !.default = v]

Adds(field) == [does |-> "add", field |-> field]
Removes(name) == [does |-> "remove", name |-> name]
Renames(from, to) == [does |-> "rename", from |-> from, to |-> to]
Retypes(name, node) == [does |-> "retype", name |-> name, node |-> node]
Rewrite(says, from, to) == [says |-> says, from |-> from, to |-> to, most |-> Most]
Recomputes(additions, removals, forward, back) ==
    [does |-> "recompute", additions |-> additions, removals |-> removals,
     forward |-> forward, back |-> back]

\* A history is begun, and each step follows.
History(object, steps) ==
    FoldLeft(LAMBDA h, step : Then(h, step), Started(object), steps)

Name == Text({R("min_length", 2)})
Small == Whole(64, {R("at_least", 2), R("at_most", 3)})
Both == {"value", "rows"}

\* Rules widened, and then one dropped; a field come, renamed and gone.
Widened ==
    History(<<F("count", Small)>>,
        << <<Adds(Maybe(F("label", Name))), Renames("count", "n")>>,
           <<Retypes("n", Whole(64, {R("at_least", 1), R("at_most", 4)})),
             Renames("label", "title")>>,
           <<Removes("title"), Retypes("n", Whole(64, {R("at_most", 3)}))>> >>)

\* A relation of one made one of many, and renamed; then gone.
Listed ==
    History(<<F("name", Name), Maybe(F("line", One))>>,
        << <<Retypes("line", Many), Renames("line", "lines")>>,
           <<Renames("name", "title"), Removes("lines")>> >>)

\* A number recomputed, and what came of it changed after.
Split ==
    History(<<F("n", Whole(16, {R("at_most", 2)}))>>,
        << <<Recomputes(<<Adds(Else(F("count", Whole(64, {})), 1)), Renames("n", "m")>>,
                        <<Removes("m")>>,
                        Rewrite(Both, "m", "count"), Rewrite(Both, "count", "m"))>>,
           <<Renames("count", "n"), Adds(Maybe(F("line", Many)))>> >>)

\* A bounded text made longer and renamed, and one of no value made longer.
Bounded ==
    History(<<F("title", Text({R("max_length", 2), R("min_length", 1)}))>>,
        << <<Adds(Maybe(F("label", Text({R("max_length", 2)}))))>>,
           <<Retypes("title", Text({R("max_length", 3)})),
             Retypes("label", Text({R("max_length", 3)}))>>,
           <<Renames("title", "name")>> >>)

\* A text with a default made longer, and one that may be null from then on.
Loosened ==
    History(<<F("title", Text({R("max_length", 1)}))>>,
        << <<Adds(Else(F("label", Text({R("max_length", 1)})), 1))>>,
           <<Retypes("label", Text({R("max_length", 2)})),
             Retypes("title", OrNull(Text({R("max_length", 1)})))>>,
           <<Renames("title", "name")>> >>)

\* A number averaged, which nothing undoes and no value in memory is carried by.
Averaged ==
    History(<<F("count", Small)>>,
        << <<Adds(Else(F("label", Text({})), 1))>>,
           <<Recomputes(<<Adds(Maybe(F("m", Whole(64, {}))))>>, << >>,
                        Rewrite({"rows"}, "count", "m"), Rewrite({}, "m", "count"))>> >>)

\* One row is like another.
Alike == Permutations(Rows)
Recorded == {Widened, Listed, Split, Bounded, Loosened, Averaged}
Engines == {"postgres", "mysql", "sqlite"}
=============================================================================
