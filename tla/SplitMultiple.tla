--------------------------- MODULE SplitMultiple ---------------------------
(***************************************************************************)
(* util/string.hpp, split_on_multiple: a string cut at several separators. *)
(*                                                                         *)
(* Characters are numbers.  A word is a view of to_split: the position it  *)
(* starts at, counted from zero, and its length.  One pass of the loop is  *)
(* one action.                                                             *)
(***************************************************************************)
EXTENDS Integers, Sequences

CONSTANTS Strings,      \* the strings to split
          SeparatorLists

ASSUME MultipleAssumption ==
  Strings \subseteq Seq(Nat) /\ SeparatorLists \subseteq Seq(Seq(Nat))

VARIABLES
  to_split, seps, ordered,  \* the arguments; seps is sorted first if ordered
  start, current,           \* the word that is being read
  words,                    \* the words to return
  cuts,                     \* history: the separator behind each word
  finished                  \* whether split_on_multiple has returned

multipleVars == <<to_split, seps, ordered, start, current, words, cuts, finished>>

\* The order of strings: the first difference tells, a prefix comes first.
Less(a, b) ==
  \E k \in 1 .. Len(b) :
    /\ k <= Len(a) + 1 /\ \A j \in 1 .. k - 1 : a[j] = b[j]
    /\ k > Len(a) \/ a[k] < b[k]

\* What std::stable_sort makes of a list.
Sorted(list) ==
  LET D      == DOMAIN list
      Orders == {p \in [D -> D] : \A i, j \in D : i # j => p[i] # p[j]}
  IN {sorted \in {[i \in D |-> list[p[i]]] : p \in Orders} :
        \A i, j \in D : i < j => ~Less(sorted[j], sorted[i])}

starts_with(from, s) ==
  from + Len(s) <= Len(to_split) /\ \A k \in 1 .. Len(s) : to_split[from + k] = s[k]

\* The separators that begin with the current character.
candidates == {i \in DOMAIN seps : seps[i] # <<>> /\ seps[i][1] = to_split[current + 1]}

\* What first_char_matches returns is one, more, or none.
Single == IF ordered THEN candidates # {} /\ \A i \in candidates : Len(seps[i]) = 1
                     ELSE \E i \in candidates : Len(seps[i]) = 1
Several == candidates # {} /\ ~Single

MultipleInit ==
  /\ to_split \in Strings
  /\ ordered \in BOOLEAN
  /\ \E list \in SeparatorLists : seps \in IF ordered THEN Sorted(list) ELSE {list}
  /\ start = 0 /\ current = 0
  /\ words = <<>> /\ cuts = <<>>
  /\ finished = FALSE

Word == [from |-> start, length |-> current - start]

Advance(n) ==
  current' = current + n /\ UNCHANGED <<to_split, seps, ordered, start, words, cuts, finished>>

\* add_word, and on to what follows the separator s.
Cut(s) ==
  /\ words' = Append(words, Word)
  /\ cuts' = Append(cuts, s)
  /\ current' = current + Len(s)
  /\ start' = current'
  /\ UNCHANGED <<to_split, seps, ordered, finished>>

Reading == ~finished /\ current < Len(to_split)

NoMatch == Reading /\ candidates = {} /\ Advance(1)

\* Mutant: a word ends where its separator ends.
CutAfter ==
  /\ Reading /\ Single
  /\ words' = Append(words, [Word EXCEPT !.length = @ + 1])
  /\ cuts' = Append(cuts, <<to_split[current + 1]>>)
  /\ current' = current + 1 /\ start' = current'
  /\ UNCHANGED <<to_split, seps, ordered, finished>>

CutSingle == Reading /\ Single /\ Cut(<<to_split[current + 1]>>)

\* Mutant: the last of the candidates is taken.
CutLast ==
  /\ Reading /\ Several
  /\ \E i \in candidates :
       /\ starts_with(current, seps[i])
       /\ \A j \in candidates : j > i => ~starts_with(current, seps[j])
       /\ Cut(seps[i])

CutFirst ==
  /\ Reading /\ Several
  /\ \E i \in candidates :
       /\ starts_with(current, seps[i])
       /\ \A j \in candidates : j < i => ~starts_with(current, seps[j])
       /\ Cut(seps[i])

NotMatched ==
  /\ Reading /\ Several
  /\ \A i \in candidates : ~starts_with(current, seps[i])
  /\ Advance(1)

\* The rest is a word unless it is empty.
Finish ==
  /\ ~finished /\ current = Len(to_split)
  /\ words' = IF start # current THEN Append(words, Word) ELSE words
  /\ finished' = TRUE
  /\ UNCHANGED <<to_split, seps, ordered, start, current, cuts>>

MultipleNext == NoMatch \/ CutSingle \/ CutFirst \/ NotMatched \/ Finish

MultipleSpec == MultipleInit /\ [][MultipleNext]_multipleVars

-----------------------------------------------------------------------------
Separator == {seps[i] : i \in DOMAIN seps} \ {<<>>}
WordEnd(k) == words[k].from + words[k].length

\* The words lie one after the other, between any two of them one of the
\* separators: nothing of the string is lost, and the last word is left out only
\* if it is empty.
MultipleTiles ==
  /\ 0 <= start /\ start <= current /\ current <= Len(to_split)
  /\ Len(words) \in Len(cuts) .. Len(cuts) + 1
  /\ \A k \in DOMAIN cuts : cuts[k] \in Separator /\ starts_with(WordEnd(k), cuts[k])
  /\ \A k \in DOMAIN words :
       words[k].from = IF k = 1 THEN 0 ELSE WordEnd(k - 1) + Len(cuts[k - 1])
  /\ start = IF cuts = <<>> THEN 0 ELSE WordEnd(Len(cuts)) + Len(cuts[Len(cuts)])
  /\ finished => IF Len(words) > Len(cuts) THEN WordEnd(Len(words)) = Len(to_split)
                                          ELSE start = Len(to_split)

NoneBegins(from, to) == \A p \in from .. to - 1 : \A s \in Separator : ~starts_with(p, s)

\* Where several separators begin, the shortest cuts if they were sorted; else a
\* single character does, if there is one, and else the first of the caller's.
RightCut(p, cut) ==
  LET Here == {i \in DOMAIN seps : seps[i] # <<>> /\ starts_with(p, seps[i])}
  IN IF ordered \/ \E i \in Here : Len(seps[i]) = 1
     THEN \A i \in Here : Len(cut) <= Len(seps[i])
     ELSE \E i \in Here : seps[i] = cut /\ \A j \in Here : i <= j

\* No separator begins inside a word, and the right one follows it.
CutsAtSeparators ==
  /\ \A k \in DOMAIN words : NoneBegins(words[k].from, WordEnd(k))
  /\ \A k \in DOMAIN cuts : RightCut(WordEnd(k), cuts[k])

\* What the arguments are.
MultipleTypeOK ==
  /\ to_split \in Seq(Nat) /\ seps \in Seq(Seq(Nat)) /\ ordered \in BOOLEAN
  /\ ordered => \A i, j \in DOMAIN seps : i < j => ~Less(seps[j], seps[i])
  /\ start \in Nat /\ current \in Nat /\ finished \in BOOLEAN
  /\ words \in Seq([from : Nat, length : Nat]) /\ cuts \in Seq(Seq(Nat))

\* In the word that is being read no separator begins either.
MultipleInv ==
  /\ MultipleTypeOK /\ MultipleTiles /\ CutsAtSeparators
  /\ NoneBegins(start, current)
  /\ ~finished => Len(words) = Len(cuts)
=============================================================================
