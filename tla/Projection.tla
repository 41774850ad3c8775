------------------------------ MODULE Projection ------------------------------
(***************************************************************************)
(* What the engine prepares for decoding: the compiled automaton of a      *)
(* regular language, the vocabulary, the index that the DFA backend reads  *)
(* and the trie that the structural backends walk; and the index a caller  *)
(* can make of a regular expression alone.  A program builds one of them;  *)
(* here all are built from the same vocabulary, one after the other, so    *)
(* that they can be compared.                                              *)
(***************************************************************************)
EXTENDS RegexIndex

vars == <<raw, dfa, vocabulary, index, trie, regexIndex>>

Init == InitDfa /\ InitIndex /\ InitTrie /\ InitRegexIndex

Compiling == CompileStep /\ UNCHANGED <<vocabulary, index, trie, regexIndex>>
Indexing == dfa.at = "done" /\ IndexStep /\ UNCHANGED <<raw, dfa, trie, regexIndex>>
Entering == TrieStep /\ UNCHANGED <<raw, dfa, vocabulary, index, regexIndex>>
IndexingRegex == RegexIndexStep /\ UNCHANGED <<raw, dfa, vocabulary, index, trie>>

Next == Compiling \/ Indexing \/ Entering \/ IndexingRegex

\* The loop of a call that has begun goes on until the call returns: each is run
\* by the thread of its caller.  Whether a call is made at all is open.
IndexLoop == (\E s \in index.list : ExpandState(s)) \/ FinishIndex
TrieLoop == InsertEntry \/ LayOut

Fairness ==
  /\ WF_vars(Compiling)
  /\ WF_vars(Indexing /\ IndexLoop)
  /\ WF_vars(Entering /\ TrieLoop)
  /\ WF_vars(IndexingRegex /\ RegexIndexLoop)

Spec == Init /\ [][Next]_vars /\ Fairness

-----------------------------------------------------------------------------

\* Of all the strings of at most n bytes.
Strings(n) == UNION {[1..k -> Byte] : k \in 0..n}

\* The compiled automaton reads as the library's does, state for state, and its
\* live states are those from which some string is accepted; none is left out.
DfaIsExact ==
  dfa.at = "done" =>
    /\ \A u \in Strings(MaxDfaStates) :
         LET r == RawAfter(raw.start, u)
             s == After(0, u)
         IN /\ s = IF r = RawDead THEN Dead ELSE dfa.number[r]
            /\ IsAccepting(s) <=> r \in raw.accepting
    /\ \A r \in DOMAIN dfa.number :
         IsLive(dfa.number[r]) <=> \E u \in Strings(MaxDfaStates - 1) : RawAfter(r, u) \in raw.accepting

Further(S, row) == S \cup {e[2] : e \in UNION {Steps(q) : q \in S}}

\* The states some live tokens lead to, one after another, in as many turns as the
\* automaton has states.
Reached == FoldLeft(Further, {0}, dfa.rows)

IsAmbiguousAt(s) == \E e, f \in Steps(s) : e[1] = f[1] /\ e[2] # f[2]
IsStuckAt(s) == Steps(s) = {} /\ ~IsAccepting(s)

\* The index has a row for every state that tokens lead to, with exactly the
\* tokens after which the language can still be completed, EOS if the text is
\* complete; and whether it is refused does not depend on the order in which the
\* states were found.
IndexIsExact ==
  /\ index.at = "done" /\ IsLive(0) =>
       /\ DOMAIN index.rows = Reached
       /\ \A s \in Reached :
            /\ ~IsAmbiguousAt(s) /\ ~IsStuckAt(s)
            /\ DOMAIN index.rows[s] =
                 {e[1] : e \in Steps(s)} \cup (IF IsAccepting(s) THEN {Eos} ELSE {})
            /\ \A entry \in Entries :
                 LET q == After(s, entry[1])
                 IN IsLive(q) => index.rows[s][entry[2]] = q
  /\ index.at = "done" /\ ~IsLive(0) => index.rows = << >>
  /\ index.at = "ambiguous" => \E s \in Reached : IsAmbiguousAt(s)
  /\ index.at = "incompatible" => \E s \in Reached : IsStuckAt(s)

\* Acceptance can be reached from every state that the library does not call dead.
NothingIsLost == dfa.live = States(dfa)

\* The index made of a regular expression is the one made of its compiled automaton,
\* under the library's names of the states, if acceptance can be reached from all of
\* them; if not, it may allow a token after which nothing is accepted any more, but
\* still every token that the compiled automaton's index allows.
RegexIndexIsSound ==
  LET at(r) == dfa.number[r]
  IN /\ regexIndex.at \in {"done", "ambiguous", "incompatible"} /\ NothingIsLost =>
          (regexIndex.at = "done") = (index.at = "done")
     /\ regexIndex.at = "done" /\ index.at = "done" /\ IsLive(0) =>
          \A s \in DOMAIN index.rows : \E r \in DOMAIN regexIndex.rows :
            /\ at(r) = s
            /\ NothingIsLost => DOMAIN regexIndex.rows[r] = DOMAIN index.rows[s]
            /\ \A id \in DOMAIN index.rows[s] :
                 id \in DOMAIN regexIndex.rows[r] /\ at(regexIndex.rows[r][id]) = index.rows[s][id]

\* A vocabulary both accept allows the same tokens in both, from every state; the
\* ids name their bytes; and one the trie accepts is never ambiguous to the index.
IndexAndTrieAgree ==
  trie.at = "done" =>
    /\ index.at # "ambiguous"
    /\ index.at = "done" =>
         \A s \in DOMAIN index.rows : AllowedByTrie(s) = DOMAIN index.rows[s] \ {Eos}
    /\ {<<trie.reverse[id], id>> : id \in DOMAIN trie.reverse} = Entries

\* The three ways to hold a vocabulary against a language agree where they should.
ProjectionsAgree == IndexAndTrieAgree /\ RegexIndexIsSound

\* Every one of the loops runs out, on automata with cycles too: a state is
\* numbered, marked and expanded once, however many ways lead back to it.
PreparationEnds ==
  /\ dfa.at = "numbering" ~> dfa.at \in {"done", "refused"}
  /\ index.at = "projecting" ~> index.at \in {"done", "ambiguous", "incompatible"}
  /\ trie.at = "building" ~> trie.at \in {"done", "ambiguous", "refused"}
  /\ regexIndex.at = "projecting" ~> regexIndex.at \in {"done", "ambiguous", "incompatible"}
=============================================================================
