---------------------------- MODULE ByteLanguage ----------------------------
(***************************************************************************)
(* The language a compiled schema accepts, as seen by every runtime        *)
(* backend: a set of byte strings.  A backend never exposes anything about *)
(* a schema but two questions on the bytes consumed so far, is_accepting   *)
(* and is_live (trait Recognizer), and these are their meaning.            *)
(***************************************************************************)
EXTENDS Integers, Sequences, FiniteSets, SequencesExt

CONSTANTS
  Byte,       \* the bytes that occur
  Language    \* the byte strings the schema accepts

ASSUME LanguageAssumption == Language \subseteq Seq(Byte)

\* is_live: some continuation of w, possibly empty, is accepted.
Live(w) == \E x \in Language : IsPrefix(w, x)

\* is_accepting: w itself is accepted.
Accepting(w) == w \in Language
============================================================================
