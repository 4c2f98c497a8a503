------------------------------ MODULE GrepLines ------------------------------
(***************************************************************************)
(* The line search of GREP (nvmf_bdev_ctrlr_complete_cmd_custom of         *)
(* ctrlr_bdev.c) as operators on sequences of bytes, and what it is to     *)
(* compute.  The buffer searched is the request's, all of it: what the     *)
(* read did not fill is zero.                                              *)
(***************************************************************************)
EXTENDS Integers, FiniteSets, Sequences, SequencesExt

NUL == 0
NL == 1

(***************************************************************************)
(* C strings end at the first NUL.                                         *)
(***************************************************************************)
CString(s) ==
  LET ends == {k \in DOMAIN s : s[k] = NUL} IN
  IF ends = {} THEN s ELSE SubSeq(s, 1, Min(ends) - 1)
strstr(s, key) ==
  LET text == CString(s) IN
  \E k \in 0 .. Len(text) - Len(key) : SubSeq(text, k + 1, k + Len(key)) = key

(***************************************************************************)
(* The keyword as searched for: a C string, one newline at its end removed. *)
(***************************************************************************)
Keyword(buffer) ==
  LET word == CString(buffer) IN
  IF word # <<>> /\ Last(word) = NL THEN Front(word) ELSE word

(***************************************************************************)
(* The loop over the bytes of one iovec.  acc.start is where the current   *)
(* line begins, acc.out the result so far, acc.cap its capacity; acc.over  *)
(* records that the result was written past its capacity.                  *)
(***************************************************************************)
\* Faulty variant: the last line needs a newline.
LineEndsAtNewline(data, j) == data[j] = NL
LineEnds(data, j) == data[j] = NL \/ j = Len(data)

\* Faulty variant: the newline added to the line is not counted.
GrownWithoutNewline(cap, needed) == IF needed > cap + 1 THEN 2 * cap ELSE cap
Grown(cap, needed) == IF needed > cap THEN 2 * cap ELSE cap

AppendLine(acc, line) ==
  LET needed == Len(acc.out) + Len(line) + 1
      cap == Grown(acc.cap, needed)
  IN [acc EXCEPT !.out = @ \o line \o <<NL>>, !.cap = cap, !.over = @ \/ needed > cap]

SearchIov(acc0, data, key) ==
  LET scan[j \in 0 .. Len(data)] ==
        IF j = 0 THEN [acc0 EXCEPT !.start = 1]
        ELSE LET acc == scan[j - 1]
                 line == SubSeq(data, acc.start, j)
             IN CASE ~LineEnds(data, j) -> acc
                  [] LineEnds(data, j) /\ strstr(line, key) ->
                       [AppendLine(acc, line) EXCEPT !.start = j + 1]
                  [] LineEnds(data, j) /\ ~strstr(line, key) -> [acc EXCEPT !.start = j + 1]
  IN scan[Len(data)]
Search(iovs, key, capacity) ==
  LET search[i \in 0 .. Len(iovs)] ==
        IF i = 0 THEN [start |-> 1, out |-> <<>>, cap |-> capacity, over |-> FALSE]
        ELSE SearchIov(search[i - 1], iovs[i], key)
  IN search[Len(iovs)]

(***************************************************************************)
(* The reference: the lines of the text in which the keyword occurs, in    *)
(* order, each followed by a newline.                                      *)
(***************************************************************************)
Sorted(S, Below(_, _)) ==
  [n \in 1 .. Cardinality(S) |->
     CHOOSE x \in S : Cardinality({y \in S : Below(y, x)}) = n - 1]
Lines(text) ==
  LET ends == Sorted({j \in DOMAIN text : text[j] = NL \/ j = Len(text)}, <)
  IN [n \in DOMAIN ends |-> SubSeq(text, IF n = 1 THEN 1 ELSE ends[n - 1] + 1, ends[n])]
MatchingLines(text, key) ==
  LET Match(line) == strstr(line, key)
      hits == SelectSeq(Lines(text), Match)
  IN FlattenSeq([n \in DOMAIN hits |-> Append(hits[n], NL)])
=============================================================================
