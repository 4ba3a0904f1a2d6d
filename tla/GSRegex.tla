---------------------------- MODULE GSRegex ----------------------------
(***************************************************************************)
(* The regular expressions of the string library (gstdrex.cpp) and the     *)
(* regexp class over them (gstdstring.cpp): the pattern is compiled into   *)
(* an array of linked nodes by recursive descent, a text is matched by a   *)
(* recursive walk over the nodes that never backtracks, and captures live  *)
(* in an array of the compiled expression that every walk writes in place. *)
(*                                                                         *)
(* Patterns and texts are sequences of one-character strings.  A node      *)
(* index and a position count from 1; 0 stands for the -1 and the NULL of  *)
(* the code.  A reference semantics (Ends) over syntax trees (Patterns)    *)
(* says which parts of a text an expression denotes; Render writes a tree  *)
(* as the pattern a user would type.                                       *)
(***************************************************************************)
EXTENDS Integers, Sequences, FiniteSets, SequencesExt

CONSTANTS Patterns,     \* syntax trees a constructor may be given, rendered
          RawPatterns,  \* other patterns: malformed or without a tree
          Texts,        \* the strings searched
          MaxRep,       \* 0xFFFF: the largest count, which means "no limit"
          MaxSearches   \* bound: searches made with one expression

ASSUME RexAssumption == MaxRep \in Nat \ {0} /\ MaxSearches \in Nat

VARIABLES tree,      \* the tree the pattern was rendered from, or NoTree
          rex,       \* the compiled expression
          last       \* what the last search was given and returned

vars == <<tree, rex, last>>

End == ""            \* the NUL that ends a string
NoTree == [k |-> "none"]

(* ---- characters ------------------------------------------------------- *)

\* The characters in use, in the order of their codes.
Ascii == <<" ", "$", "(", ")", "*", "+", ",", "-", ".", "0", "1", "2", "3",
           "4", ":", "?", "A", "[", "\\", "]", "^", "_", "a", "b", "c", "d",
           "m", "n", "s", "t", "u", "w", "{", "|", "}">>

Code(t) == IF t = End THEN 0
           ELSE IF \E i \in DOMAIN Ascii : Ascii[i] = t
                THEN CHOOSE i \in DOMAIN Ascii : Ascii[i] = t
                ELSE Len(Ascii) + 1          \* the operators, above MAX_CHAR

Digits == {"0", "1", "2", "3", "4"}
Lower == {"a", "b", "c", "d", "m", "n", "s", "t", "u", "w"}
Upper == {"A"}
Spaces == {" "}
Punctuation == ToSet(Ascii) \ (Digits \cup Lower \cup Upper \cup Spaces)
ControlEscapes == {"n", "t", "r", "f", "v"}
ClassEscapes == {"a", "A", "w", "W", "s", "S", "d", "D", "x", "X", "c", "C",
                 "p", "P", "l", "u"}

\* gstd_rex_matchcclass: the members of a class, a capital letter negating it.
\* The control characters are in no class but 'c' here, and in no text.
MatchCClass(class, ch) ==
  CASE class = "a" -> ch \in Lower \cup Upper
    [] class = "A" -> ch \notin Lower \cup Upper
    [] class = "w" -> ch \in Lower \cup Upper \cup Digits \cup {"_"}
    [] class = "W" -> ch \notin Lower \cup Upper \cup Digits \cup {"_"}
    [] class = "s" -> ch \in Spaces
    [] class = "S" -> ch \notin Spaces
    [] class = "d" -> ch \in Digits
    [] class = "D" -> ch \notin Digits
    [] class = "x" -> ch \in Digits \cup {"a", "b", "c", "d", "A"}
    [] class = "X" -> ch \notin Digits \cup {"a", "b", "c", "d", "A"}
    [] class = "c" -> FALSE
    [] class = "C" -> TRUE
    [] class = "p" -> ch \in Punctuation
    [] class = "P" -> ch \notin Punctuation
    [] class = "l" -> ch \in Lower
    [] class = "u" -> ch \in Upper

(* ---- the compiler ----------------------------------------------------- *)
(* A compilation c has the pattern, the place in it, the nodes, how many   *)
(* are allocated, the subexpressions so far, the node just returned and    *)
(* the error that ended it (the longjmp of gstd_rex_error).                *)

At(c) == IF c.p \in DOMAIN c.pat THEN c.pat[c.p] ELSE End
Adv(c, n) == [c EXCEPT !.p = @ + n]
Error(c, what) == [c EXCEPT !.error = what]
AndThen(c, F(_)) == IF c.error # "" THEN c ELSE F(c)
Link(c, n, field, v) == [c EXCEPT !.nodes[n][field] = v]

\* A newnode that never finds the array full.
Mut_NewNode(c, type) ==
  LET expr == type = "OP_EXPR"
  IN [c EXCEPT !.nodes = Append(@, [type |-> type, left |-> 0, next |-> 0,
                                    right |-> IF expr THEN c.nsubexpr ELSE 0]),
               !.nsubexpr = IF expr THEN @ + 1 ELSE @,
               !.ret = Len(c.nodes) + 1]

NewNode(c, type) ==
  LET full == c.nallocated < Len(c.nodes) + 1
      expr == type = "OP_EXPR"
  IN [c EXCEPT !.nodes = Append(@, [type |-> type, left |-> 0, next |-> 0,
                                    right |-> IF expr THEN c.nsubexpr ELSE 0]),
               !.nsubexpr = IF expr THEN @ + 1 ELSE @,
               !.nallocated = IF full THEN 2 * @ ELSE @,
               !.ret = Len(c.nodes) + 1]

Expect(c, ch) ==
  IF At(c) = ch THEN Adv(c, 1) ELSE Error(c, "expected paren")

\* gstd_rex_escapechar, the upper end of a range: <<the place after, the character>>.
\* A backslash that ends the pattern is not among the patterns: the code
\* would go on behind the end of the string.
EscapeChar(c) ==
  IF At(c) = "\\"
  THEN <<Adv(c, 2), IF At(Adv(c, 1)) \in ControlEscapes THEN "\n" ELSE At(Adv(c, 1))>>
  ELSE IF At(c) = End THEN <<Error(c, "letter expected"), End>>
  ELSE <<Adv(c, 1), At(c)>>

CharClass(c, class) ==
  LET d == NewNode(c, "OP_CCLASS") IN Link(d, d.ret, "left", class)

\* \m() : balanced open and close characters.
Balanced(c) ==
  LET cb == At(Adv(c, 2))
      ce == At(Adv(c, 3))
      d  == NewNode(Adv(c, 4), "OP_MB")
  IN IF cb = End \/ ce = End THEN Error(c, "balanced chars expected")
     ELSE IF cb = ce THEN Error(c, "open/close char can't be the same")
     ELSE Link(Link(d, d.ret, "left", cb), d.ret, "right", ce)

CharNode(c, isclass) ==
  LET ch == At(Adv(c, 1))
      wb == NewNode(Adv(c, 2), "OP_WB")
  IN IF At(c) # "\\"
     THEN IF At(c) = End THEN Error(c, "letter expected")
          ELSE NewNode(Adv(c, 1), At(c))
     ELSE CASE ch \in ControlEscapes -> NewNode(Adv(c, 2), "\n")
            [] ch \in ClassEscapes -> CharClass(Adv(c, 2), ch)
            [] ch = "m" -> Balanced(c)
            [] ch = End -> Error(c, "letter expected for argument of escape sequence")
            [] ch \in {"b", "B"} /\ ~isclass -> Link(wb, wb.ret, "left", ch)
            [] OTHER -> NewNode(Adv(c, 2), ch)

\* One turn of the loop of gstd_rex_class over what stands between brackets:
\* `first` is a character that may still begin a range, `chain` the last link.
\* The test for an unfinished range looks at the '-' itself and never holds.
RECURSIVE ClassItems(_, _, _)
ClassItems(c, first, chain) ==
  IF c.error # "" THEN c
  ELSE IF At(c) = "]"
  THEN IF first # 0 THEN Link(c, chain, "next", first) ELSE c
  ELSE IF At(c) = "-" /\ first # 0
  THEN LET d   == NewNode(Adv(c, 1), "OP_RANGE")
           low == d.nodes[first].type
           esc == EscapeChar(d)
       IN IF Code(low) > Code(At(d)) THEN Error(d, "invalid range")
          ELSE AndThen(esc[1], LAMBDA e :
                 ClassItems(Link(Link(Link(e, d.ret, "left", low),
                                      d.ret, "right", esc[2]),
                                 chain, "next", d.ret), 0, d.ret))
  ELSE IF first # 0
  THEN AndThen(CharNode(Link(c, chain, "next", first), TRUE),
               LAMBDA d : ClassItems(d, d.ret, first))
  ELSE AndThen(CharNode(c, TRUE), LAMBDA d : ClassItems(d, d.ret, chain))

Class(c) ==
  LET neg == At(c) = "^"
      d   == NewNode(IF neg THEN Adv(c, 1) ELSE c,
                     IF neg THEN "OP_NCLASS" ELSE "OP_CLASS")
      ret == d.ret
  IN IF At(d) = "]" THEN Error(d, "empty class")
     ELSE AndThen(ClassItems(d, 0, ret), LAMBDA e :
            [Link(Link(e, ret, "left", e.nodes[ret].next), ret, "next", 0)
               EXCEPT !.ret = ret])

\* gstd_rex_parsenumber: <<the place after, the number>>; ten digits overflow.
RECURSIVE ParseNumber(_, _, _)
ParseNumber(c, value, ndigits) ==
  IF ndigits > 0 /\ At(c) \notin Digits THEN <<c, value>>
  ELSE IF ndigits = 9 THEN <<Error(c, "overflow in numeric constant"), value>>
  ELSE ParseNumber(Adv(c, 1), 10 * value + Code(At(c)) - Code("0"), ndigits + 1)

\* The counts are kept in an unsigned short.
Short(n) == n % (MaxRep + 1)

\* The {n}, {n,} and {n,m} behind an element: <<the place after, least, most>>.
Braces(c) ==
  LET lo == ParseNumber(c, 0, 0)
      d  == Adv(lo[1], 1)
      hi == IF At(d) \in Digits THEN ParseNumber(d, 0, 0) ELSE <<d, MaxRep>>
  IN IF At(c) \notin Digits THEN <<Error(c, "number expected"), 0, 0>>
     ELSE IF lo[1].error # "" THEN <<lo[1], 0, 0>>
     ELSE CASE At(lo[1]) = "}" -> <<d, Short(lo[2]), Short(lo[2])>>
            [] At(lo[1]) = "," -> <<AndThen(hi[1], LAMBDA e : Expect(e, "}")),
                                    Short(lo[2]), Short(hi[2])>>
            [] OTHER -> <<Error(lo[1], ", or } expected"), 0, 0>>

\* A '+' that demands nothing.
Mut_Counts(c) ==
  CASE At(c) = "*" -> <<Adv(c, 1), 0, MaxRep>>
    [] At(c) = "+" -> <<Adv(c, 1), 0, MaxRep>>
    [] At(c) = "?" -> <<Adv(c, 1), 0, 1>>
    [] At(c) = "{" -> Braces(Adv(c, 1))
    [] OTHER -> <<c, -1, -1>>

\* The repetition an element may be followed by; no repetition is <<c, -1, -1>>.
Counts(c) ==
  CASE At(c) = "*" -> <<Adv(c, 1), 0, MaxRep>>
    [] At(c) = "+" -> <<Adv(c, 1), 1, MaxRep>>
    [] At(c) = "?" -> <<Adv(c, 1), 0, 1>>
    [] At(c) = "{" -> Braces(Adv(c, 1))
    [] OTHER -> <<c, -1, -1>>

\* A repetition wraps the element just parsed into a node of its own.
Quantified(c, elem) ==
  LET n == Counts(c)
      d == NewNode(n[1], "OP_GREEDY")
  IN IF n[1].error # "" THEN n[1]
     ELSE IF n[2] = -1 THEN [c EXCEPT !.ret = elem]
     ELSE Link(Link(d, d.ret, "left", elem), d.ret, "right", <<n[2], n[3]>>)

RECURSIVE Element(_), List(_)

Group(c) ==
  LET nocap == At(Adv(c, 1)) = "?"
      d     == IF nocap THEN Expect(Adv(c, 2), ":") ELSE Adv(c, 1)
  IN AndThen(d, LAMBDA e :
       LET f == NewNode(e, IF nocap THEN "OP_NOCAPEXPR" ELSE "OP_EXPR")
       IN AndThen(List(f), LAMBDA g :
            AndThen(Expect(Link(g, f.ret, "left", g.ret), ")"),
                    LAMBDA h : [h EXCEPT !.ret = f.ret])))

Element(c) ==
  LET atom == CASE At(c) = "(" -> Group(c)
                [] At(c) = "[" -> AndThen(Class(Adv(c, 1)), LAMBDA d : Expect(d, "]"))
                [] At(c) = "$" -> NewNode(Adv(c, 1), "OP_EOL")
                [] At(c) = "." -> NewNode(Adv(c, 1), "OP_DOT")
                [] OTHER -> CharNode(c, FALSE)
  IN AndThen(atom, LAMBDA d :
       AndThen(Quantified(d, d.ret), LAMBDA e :
         IF At(e) \in {"|", ")", "*", "+", End} THEN e
         ELSE AndThen(Element(e), LAMBDA f :
                [Link(f, e.ret, "next", f.ret) EXCEPT !.ret = e.ret])))

List(c) ==
  LET bol  == At(c) = "^"
      d    == IF bol THEN NewNode(Adv(c, 1), "OP_BOL") ELSE c
      Led(e) == IF bol THEN [Link(e, d.ret, "next", e.ret) EXCEPT !.ret = d.ret]
                 ELSE e
  IN AndThen(Element(d), LAMBDA e :
       LET f  == Led(e)
           or == NewNode(Adv(f, 1), "OP_OR")
       IN IF At(f) # "|" THEN f
          ELSE AndThen(List(Link(or, or.ret, "left", f.ret)), LAMBDA g :
                 [Link(g, or.ret, "right", g.ret) EXCEPT !.ret = or.ret]))

\* gstd_rex_compile.  The array first has one node for each character.
RexCompile(pattern) ==
  LET new == [pat |-> pattern, p |-> 1, nodes |-> <<>>, nsubexpr |-> 0,
              nallocated |-> Len(pattern), ret |-> 0, error |-> ""]
  IN AndThen(List(NewNode(new, "OP_EXPR")), LAMBDA c :
       IF At(c) # End THEN Error(c, "unexpected character")
       ELSE Link(c, 1, "left", c.ret))

(* ---- the matcher ------------------------------------------------------ *)
(* x has the nodes, the text and its ends bol and eol; m has the place     *)
(* reached (0: no match) and what a walk writes: the subexpression that    *)
(* captures next, and the captures.                                        *)

Char(x, s) == IF s \in DOMAIN x.text THEN x.text[s] ELSE End
Yes(m, s) == [m EXCEPT !.s = s]
No(m) == [m EXCEPT !.s = 0]
If(m, cond, s) == IF cond THEN Yes(m, s) ELSE No(m)

RECURSIVE MatchClass(_, _, _)

\* A range without its upper end.
Mut_MatchClass(x, n, ch) ==
  LET nd == x.nodes[n]
  IN \/ CASE nd.type = "OP_RANGE" -> Code(ch) >= Code(nd.left) /\ Code(ch) < Code(nd.right)
          [] nd.type = "OP_CCLASS" -> MatchCClass(nd.left, ch)
          [] OTHER -> ch = nd.type
     \/ nd.next # 0 /\ MatchClass(x, nd.next, ch)

MatchClass(x, n, ch) ==
  LET nd == x.nodes[n]
  IN \/ CASE nd.type = "OP_RANGE" -> Code(ch) >= Code(nd.left) /\ Code(ch) <= Code(nd.right)
          [] nd.type = "OP_CCLASS" -> MatchCClass(nd.left, ch)
          [] OTHER -> ch = nd.type
     \/ nd.next # 0 /\ MatchClass(x, nd.next, ch)

\* Behind the end of the text comes the NUL, and behind it a byte of which
\* nothing is known (x.beyond: whether it is a space).
Space(x, s) == IF s > x.eol THEN x.beyond ELSE Char(x, s) \in Spaces

WordBoundary(x, s) ==
  \/ s = x.bol /\ ~Space(x, s)
  \/ s = x.eol /\ ~Space(x, s - 1)
  \/ ~Space(x, s) /\ Space(x, s + 1)
  \/ Space(x, s) /\ ~Space(x, s + 1)

\* The place after the balanced part that begins before s, `open` deep.
RECURSIVE BalancedEnd(_, _, _, _)
BalancedEnd(x, nd, s, open) ==
  IF s >= x.eol THEN 0
  ELSE IF Char(x, s) = nd.right
  THEN IF open = 1 THEN s + 1 ELSE BalancedEnd(x, nd, s + 1, open - 1)
  ELSE BalancedEnd(x, nd, s + 1, IF Char(x, s) = nd.left THEN open + 1 ELSE open)

\* The nodes that match one character or none.
MatchSimple(x, nd, m) ==
  LET s  == m.s
      in == s # x.eol
  IN CASE nd.type = "OP_WB" -> If(m, WordBoundary(x, s) <=> nd.left = "b", s)
       [] nd.type = "OP_BOL" -> If(m, s = x.bol, s)
       [] nd.type = "OP_EOL" -> If(m, s = x.eol, s)
       [] nd.type = "OP_DOT" -> If(m, in, s + 1)
       [] nd.type = "OP_CLASS" -> If(m, in /\ MatchClass(x, nd.left, Char(x, s)), s + 1)
       [] nd.type = "OP_NCLASS" -> If(m, in /\ ~MatchClass(x, nd.left, Char(x, s)), s + 1)
       [] nd.type = "OP_CCLASS" -> If(m, in /\ MatchCClass(nd.left, Char(x, s)), s + 1)
       [] nd.type = "OP_MB" -> IF Char(x, s) # nd.left THEN No(m)
                               ELSE Yes(m, BalancedEnd(x, nd, s + 1, 1))
       [] OTHER -> If(m, in /\ Char(x, s) = nd.type, s + 1)

\* How often a greedy node has to have matched.
Enough(p0, p1, k) ==
  \/ p0 = p1 /\ p0 = k
  \/ k >= p0 /\ p1 = MaxRep
  \/ k >= p0 /\ k <= p1

RECURSIVE MatchNode(_, _, _, _), Greedy(_, _, _, _, _, _), Alternative(_, _, _),
          Subexpr(_, _, _, _)

\* The loop of OP_GREEDY: after each match of the element it tries what
\* follows (stop), captures included, and stops as soon as that matches.
Greedy(x, nd, stop, next, m, k) ==
  LET p0 == nd.right[1]
      p1 == nd.right[2]
      good == m.s
      Leave(r, s, n) == If(r, Enough(p0, p1, n), s)
  IN IF k # MaxRep /\ k >= p1 THEN Leave(m, good, k)
     ELSE LET r == MatchNode(x, nd.left, m, stop)
          IN IF r.s = 0 THEN Leave(r, good, k)
             ELSE LET look  == /\ stop # 0
                               /\ \/ x.nodes[stop].type # "OP_GREEDY"
                                  \/ x.nodes[stop].right[1] # 0
                      gnext == IF x.nodes[stop].next # 0 THEN x.nodes[stop].next
                               ELSE IF next # 0 THEN x.nodes[next].next ELSE 0
                      ahead == IF look THEN MatchNode(x, stop, r, gnext) ELSE No(r)
                      back  == Yes(ahead, r.s)
                  IN IF (ahead.s # 0 /\ Enough(p0, p1, k + 1)) \/ r.s >= x.eol
                     THEN Leave(back, r.s, k + 1)
                     ELSE Greedy(x, nd, stop, next, back, k + 1)

\* One branch of OP_OR: its nodes one after the other.
Alternative(x, n, m) ==
  LET r == MatchNode(x, n, m, 0)
  IN IF r.s = 0 \/ x.nodes[n].next = 0 THEN r ELSE Alternative(x, x.nodes[n].next, r)

\* The nodes of a subexpression one after the other, each told what follows it.
Subexpr(x, n, m, next) ==
  LET follow == x.nodes[n].next
      r      == MatchNode(x, n, m, IF follow # 0 THEN follow ELSE next)
  IN IF r.s = 0 \/ follow = 0 THEN r ELSE Subexpr(x, follow, r, next)

\* OP_EXPR and OP_NOCAPEXPR.  Only the subexpression whose turn it is
\* captures; a failure clears its capture and leaves the turn passed on.
Expr(x, nd, m, next) ==
  LET captures == nd.type = "OP_EXPR" /\ nd.right = m.sub
      slot     == m.sub + 1
      begun    == IF captures
                  THEN [m EXCEPT !.sub = @ + 1, !.caps[slot].text = x.text,
                                 !.caps[slot].begin = m.s]
                  ELSE m
      r        == Subexpr(x, nd.left, begun, next)
  IN IF r.s = 0
     THEN IF captures THEN [r EXCEPT !.caps[slot] = [text |-> <<>>, begin |-> 0, len |-> 0]]
          ELSE r
     ELSE LET done == [r EXCEPT !.sub = begun.sub]
          IN IF captures THEN [done EXCEPT !.caps[slot].len = r.s - done.caps[slot].begin]
             ELSE done

MatchNode(x, n, m, next) ==
  LET nd == x.nodes[n]
  IN CASE nd.type = "OP_GREEDY" ->
            Greedy(x, nd, IF nd.next # 0 THEN nd.next ELSE next, next, m, 0)
       [] nd.type = "OP_OR" ->
            LET l == Alternative(x, nd.left, m)
            IN IF l.s # 0 THEN l ELSE Alternative(x, nd.right, Yes(l, m.s))
       [] nd.type \in {"OP_EXPR", "OP_NOCAPEXPR"} -> Expr(x, nd, m, next)
       [] OTHER -> MatchSimple(x, nd, m)

\* gstd_rex_match: the whole text.
RexMatch(x, caps) ==
  LET r == MatchNode(x, 1, [s |-> x.bol, sub |-> 0, caps |-> caps], 0)
  IN [found |-> r.s = x.eol, begin |-> x.bol, end |-> r.s, caps |-> r.caps]

\* gstd_rex_searchrange from b on: every start but the end of the text.
RECURSIVE RexSearch(_, _, _)
RexSearch(x, b, caps) ==
  LET r == MatchNode(x, 1, [s |-> b, sub |-> 0, caps |-> caps], 0)
  IN IF x.bol >= x.eol
     THEN [found |-> FALSE, begin |-> 0, end |-> 0, caps |-> caps]
     ELSE IF r.s = 0 /\ b + 1 # x.eol THEN RexSearch(x, b + 1, r.caps)
     ELSE [found |-> r.s # 0, begin |-> b, end |-> r.s, caps |-> r.caps]

\* _regexp_capture: an array of ranges, <<begin, end>> counted from 0; the
\* offset of a pointer into another string is not a place of this one.
Captures(caps, text) ==
  [i \in DOMAIN caps |->
     IF caps[i].len > 0
     THEN [text |-> caps[i].text, begin |-> caps[i].begin,
           end |-> caps[i].begin + caps[i].len]
     ELSE [text |-> text, begin |-> 1, end |-> 1]]

(* ---- the regexp class ------------------------------------------------- *)

NoRex == [pat |-> <<>>, p |-> 1, nodes |-> <<>>, nsubexpr |-> 0, nallocated |-> 0,
          ret |-> 0, error |-> "none", caps |-> <<>>, searches |-> 0]
NoSearch == [op |-> "none", text |-> <<>>, start |-> 1, found |-> FALSE,
             begin |-> 0, end |-> 0, captures |-> <<>>]

Init == tree = NoTree /\ rex = NoRex /\ last = NoSearch

\* What a pattern is typed as.  Only groups hold alternatives, and only
\* atoms and groups are repeated, so nothing needs to be parenthesized here.
RECURSIVE Render(_)
Render(t) ==
  CASE t.k = "char" -> <<t.c>>
    [] t.k = "any" -> <<".">>
    [] t.k = "eol" -> <<"$">>
    [] t.k = "bol" -> <<"^">>
    [] t.k = "escape" -> <<"\\", t.c>>
    [] t.k = "balanced" -> <<"\\", "m", t.open, t.close>>
    [] t.k = "class" -> <<"[">> \o (IF t.neg THEN <<"^">> ELSE <<>>) \o t.typed \o <<"]">>
    [] t.k = "seq" -> Render(t.l) \o Render(t.r)
    [] t.k = "or" -> Render(t.l) \o <<"|">> \o Render(t.r)
    [] t.k = "group" -> <<"(">> \o Render(t.of) \o <<")">>
    [] t.k = "nocap" -> <<"(", "?", ":">> \o Render(t.of) \o <<")">>
    [] t.k = "rep" -> Render(t.of) \o t.typed

\* _regexp_constructor: a second call on the same object is an error, and so
\* is a pattern that does not compile; both leave the object as it is (the
\* guard is in Next).
Construct(t, pattern) ==
  LET c == RexCompile(pattern)
  IN /\ rex' = [pat |-> c.pat, p |-> c.p, nodes |-> c.nodes, nsubexpr |-> c.nsubexpr,
                nallocated |-> c.nallocated, ret |-> c.ret, error |-> c.error,
                caps |-> [i \in 1..c.nsubexpr |-> [text |-> <<>>, begin |-> 0, len |-> 0]],
                searches |-> 0]
     /\ tree' = IF c.error = "" THEN t ELSE NoTree
     /\ UNCHANGED last

Matched(op, text, start, r) ==
  /\ rex' = [rex EXCEPT !.caps = r.caps, !.searches = @ + 1]
  /\ last' = [op |-> op, text |-> text, start |-> start, found |-> r.found,
              begin |-> r.begin, end |-> r.end, captures |-> Captures(r.caps, text)]
  /\ UNCHANGED tree

Usable == rex.error = "" /\ rex.searches < MaxSearches

Walk(text, start, beyond) ==
  [nodes |-> rex.nodes, text |-> text, bol |-> start, eol |-> Len(text) + 1,
   beyond |-> beyond]

Match(text, beyond) ==
  Matched("match", text, 1, RexMatch(Walk(text, 1, beyond), rex.caps))

\* search and capture make the same walk from str + start.
Search(text, start, beyond) ==
  Matched("search", text, start, RexSearch(Walk(text, start, beyond), start, rex.caps))

\* Only a word boundary looks behind the end of the text.
Beyond ==
  IF \E n \in DOMAIN rex.nodes : rex.nodes[n].type = "OP_WB" THEN BOOLEAN ELSE {FALSE}

Next ==
  \/ /\ rex.error = "none"
     /\ \/ \E t \in Patterns : Construct(t, Render(t))
        \/ \E raw \in RawPatterns : Construct(NoTree, raw)
  \/ /\ Usable
     /\ \E text \in Texts, beyond \in Beyond :
          \/ Match(text, beyond)
          \/ \E start \in 1..Len(text) + 1 : Search(text, start, beyond)

Spec == Init /\ [][Next]_vars

(* ---- the reference ---------------------------------------------------- *)

\* The ends of the parts of text that begin at i and that t denotes, in a
\* text searched from bol on.
RECURSIVE Ends(_, _, _, _), Repeats(_, _, _, _, _)
Ends(t, text, bol, i) ==
  LET in == i <= Len(text)
      One(cond) == IF in /\ cond THEN {i + 1} ELSE {}
  IN CASE t.k = "char" -> IF in /\ text[i] = t.c THEN {i + 1} ELSE {}
       [] t.k = "any" -> One(TRUE)
       [] t.k = "eol" -> IF in THEN {} ELSE {i}
       [] t.k = "bol" -> IF i = bol THEN {i} ELSE {}
       [] t.k = "escape" -> IF in /\ text[i] \in t.set THEN {i + 1} ELSE {}
       [] t.k = "class" -> IF in /\ (text[i] \in t.set <=> ~t.neg) THEN {i + 1} ELSE {}
       [] t.k = "balanced" ->
            LET Depth(j) == Cardinality({h \in i..j : text[h] = t.open})
                              - Cardinality({h \in i..j : text[h] = t.close})
            IN {j + 1 : j \in {j \in i..Len(text) :
                  j > i /\ Depth(j) = 0 /\ \A h \in i..j - 1 : Depth(h) > 0}}
       [] t.k = "seq" -> UNION {Ends(t.r, text, bol, j) : j \in Ends(t.l, text, bol, i)}
       [] t.k = "or" -> Ends(t.l, text, bol, i) \cup Ends(t.r, text, bol, i)
       [] t.k \in {"group", "nocap"} -> Ends(t.of, text, bol, i)
       [] t.k = "rep" -> UNION {Repeats(t.of, text, bol, i, n) : n \in t.counts}

\* The ends after n of t one behind the other.
Repeats(t, text, bol, i, n) ==
  IF n = 0 THEN {i}
  ELSE UNION {Ends(t, text, bol, j) : j \in Repeats(t, text, bol, i, n - 1)}

\* A pattern that leaves no choice to a walk without backtracking: every
\* repetition has one count and repeats what is not empty, and alternatives
\* stand outermost.
RECURSIVE Rigid(_)
Rigid(t) ==
  CASE t.k = "seq" -> Rigid(t.l) /\ Rigid(t.r)
    [] t.k \in {"group", "nocap"} -> Rigid(t.of)
    [] t.k = "rep" -> Cardinality(t.counts) = 1 /\ t.of.k \in {"char", "any", "class", "escape"}
    [] t.k = "or" -> FALSE
    [] OTHER -> TRUE

NoChoice(t) == Rigid(t) \/ (t.k = "or" /\ Rigid(t.l) /\ Rigid(t.r))

(* ---- properties ------------------------------------------------------- *)

\* The part of the text that match or search reports is one that the pattern
\* denotes: neither the parser nor the stop-at-the-first-follow rule of the
\* greedy operators nor the walk over the links ever accepts too much.
MatchSound ==
  (last.found /\ tree # NoTree) =>
    last.end \in Ends(tree, last.text, last.start, last.begin)

\* Where the pattern leaves no choice, nothing is overlooked: search reports a
\* match exactly when the text has one that begins before its end, and the
\* leftmost one; match answers yes exactly when the whole text is one.
SearchComplete ==
  (tree # NoTree /\ last.op # "none" /\ NoChoice(tree)) =>
    LET Hits(i) == Ends(tree, last.text, last.start, i)
        starts  == {i \in last.start..Len(last.text) : Hits(i) # {}}
    IN IF last.op = "search"
       THEN IF starts = {} THEN ~last.found
            ELSE last.found /\ \A i \in starts : last.begin <= i
       ELSE tree.k # "or" => (last.found <=> Len(last.text) + 1 \in Hits(1))

\* Every node the compiler wrote lies in the array allocated for them, which
\* grows by doubling from one node a character; a compilation that fails
\* half-way included.  The empty pattern is the exception: it is allocated no
\* node, doubling leaves none, and its first node is written past the array.
NodesFit == rex.pat # <<>> => Len(rex.nodes) <= rex.nallocated
=============================================================================
