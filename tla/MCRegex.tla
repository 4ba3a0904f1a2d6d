---------------------------- MODULE MCRegex ----------------------------
\* Instances of GSRegex: trees of one to three items over a small alphabet.
EXTENDS GSRegex

Ch(c) == [k |-> "char", c |-> c]
MCAny == [k |-> "any"]
Cls(neg, typed, set) == [k |-> "class", neg |-> neg, typed |-> typed, set |-> set]
Rep(t, typed, counts) == [k |-> "rep", of |-> t, typed |-> typed, counts |-> counts]
Cat(l, r) == [k |-> "seq", l |-> l, r |-> r]
Alt(l, r) == [k |-> "or", l |-> l, r |-> r]
Grp(t) == [k |-> "group", of |-> t]
NoCap(t) == [k |-> "nocap", of |-> t]

Letters == {Ch("a"), Ch("b")}
MCAtoms == Letters \cup
  {MCAny, Cls(FALSE, <<"a", "-", "b">>, {"a", "b"}), Cls(TRUE, <<"a">>, {"a"}),
   Cls(FALSE, <<"b", " ", "\\", "s", "a", "-", "a">>, {"a", "b", " "}),
   [k |-> "escape", c |-> "w", set |-> {"a", "b"}],
   [k |-> "balanced", open |-> "(", close |-> ")"]}

Ends1 == {[k |-> "eol"]}
Many(lo) == lo..7
Reps(S) == UNION {{Rep(t, <<"*">>, Many(0)), Rep(t, <<"+">>, Many(1)), Rep(t, <<"?">>, 0..1),
                   Rep(t, <<"{", "2", "}">>, {2}), Rep(t, <<"{", "1", ",", "2", "}">>, 1..2),
                   Rep(t, <<"{", "2", ",", "}">>, Many(2))} : t \in S}

Cats(S, T) == {Cat(s, t) : s \in S, t \in T}
Groups(S) == {Grp(s) : s \in S} \cup {NoCap(s) : s \in S}

Short2 == Letters \cup Cats(Letters, Letters) \cup {Alt(l, r) : l \in Letters, r \in Letters}
            \cup {Alt(Ch("a"), Cat(Ch("a"), Ch("b")))}
Items == Letters \cup Ends1 \cup Reps(Letters) \cup Groups(Short2)
Nested == Reps(Groups({Cat(Ch("a"), Rep(Ch("b"), <<"*">>, Many(0))), Ch("a"),
                       Alt(Ch("a"), Ch("b")), Rep(Ch("a"), <<"?">>, 0..1)}))

MCPatterns ==
  MCAtoms \cup Reps(MCAtoms \cup {MCAny}) \cup Cats(MCAtoms, MCAtoms)
  \cup Cats(Items, Items) \cup Cats(Nested, Items) \cup Nested
  \cup {Alt(l, r) : l \in Cats(Letters, Items), r \in Letters}
  \cup {Alt(Cat([k |-> "bol"], l), r) : l \in Items, r \in Letters}
  \cup Cats(Reps(Letters), Cats(Reps(Letters), Groups(Letters)))

Strings(S, n) == UNION {[1..i -> S] : i \in 0..n}

MCRaw == Strings({"a", "(", ")", "|", "*", "?"}, 4)
  \cup Strings({"[", "]", "^", "-", "a"}, 4)
  \cup {<<"\\", ch>> : ch \in {"b", "B", "n", "m", "d", "S", "("}} \cup {<<"\\">>}
  \cup {<<"a", "{">> \o s : s \in Strings({"1", ",", "}"}, 4)}
  \cup {<<"a", "{", "1", "0", "0", "0", "0", "0", "0", "0", "0", "0", "}">>,
        <<"\\", "m", "(", "(">>, <<"\\", "m", "(">>, <<"(", "?", "a", ")">>,
        <<"\\", "b", "a", "\\", "b">>}

MCTexts == Strings({"a", "b"}, 3)
  \cup {<<"a", "a", "a", "b">>, <<"a", "a", "a", "a", "a", "a">>, <<"b", "a", " ">>,
        <<"(", "a", "(", ")", ")">>, <<"(", "(", ")">>}
=============================================================================
