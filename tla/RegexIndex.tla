------------------------------ MODULE RegexIndex ------------------------------
(***************************************************************************)
(* Index::new: the same projection onto the library's own automaton, which *)
(* is neither renumbered nor marked.  A state counts as live here if it is *)
(* accepting or some byte leads on from it, whether or not acceptance can  *)
(* be reached; and a language without words is not set apart.              *)
(***************************************************************************)
EXTENDS TokenTrie

VARIABLE regexIndex   \* as index, with the states of the library

InitRegexIndex == regexIndex = [at |-> "idle", seen |-> {}, list |-> {}, rows |-> << >>, final |-> {}]

IsRawAccepting(r) == r \in raw.accepting

\* Mutant of IsRawLive: only a state that is accepting counts.
IsRawLiveNow(r) == r # RawDead /\ IsRawAccepting(r)

IsRawLive(r) ==
  r # RawDead /\ (IsRawAccepting(r) \/ \E byte \in Byte : raw.step[r][byte] # RawDead)

RawSteps(r) == {e \in {<<entry[2], RawAfter(r, entry[1])>> : entry \in Entries} : IsRawLive(e[2])}

BeginRegexIndex ==
  /\ trie.at \notin {"idle", "building"} /\ regexIndex.at = "idle"
  /\ regexIndex' = [regexIndex EXCEPT !.at = "projecting", !.seen = {raw.start}, !.list = {raw.start}]

ExpandRawState(r) ==
  /\ regexIndex.at = "projecting" /\ r \in regexIndex.list
  /\ regexIndex' = Turn(regexIndex, r, RawSteps(r), IsRawAccepting(r))

FinishRegexIndex ==
  /\ regexIndex.at = "projecting" /\ regexIndex.list = {}
  /\ regexIndex' = WithEos(regexIndex)

RegexIndexLoop == (\E r \in regexIndex.list : ExpandRawState(r)) \/ FinishRegexIndex

RegexIndexStep == BeginRegexIndex \/ RegexIndexLoop
=============================================================================
