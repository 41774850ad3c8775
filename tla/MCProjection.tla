----------------------------- MODULE MCProjection -----------------------------
(***************************************************************************)
(* Projection over automata with states that are not live, not reachable,  *)
(* found late or equivalent, one with too many, and over vocabularies with *)
(* aliases, ids of two tokens, and tokens that are prefixes of others.     *)
(***************************************************************************)
EXTENDS Projection

Leads(to1, to2) == [byte \in {1, 2} |-> IF byte = 1 THEN to1 ELSE to2]

Automaton(accepting, p, q, r) ==
  [start |-> "p", accepting |-> accepting,
   step |-> [s \in {"p", "q", "r", "s"} |->
               CASE s = "p" -> p [] s = "q" -> q [] s = "r" -> r [] s = "s" -> Leads("s", "q")]]

MCAutomata ==
  {Automaton({"q"}, Leads("q", "dead"), Leads("dead", "q"), Leads("p", "p")),
   Automaton({"p"}, Leads("q", "r"), Leads("dead", "p"), Leads("p", "dead")),
   Automaton({"r"}, Leads("r", "q"), Leads("q", "q"), Leads("dead", "r")),
   Automaton({"r"}, Leads("q", "q"), Leads("r", "dead"), Leads("dead", "dead")),
   Automaton({"p", "r"}, Leads("r", "dead"), Leads("q", "p"), Leads("p", "q")),
   Automaton({}, Leads("q", "r"), Leads("p", "r"), Leads("dead", "dead")),
   Automaton({"q", "s"}, Leads("r", "dead"), Leads("dead", "dead"), Leads("q", "s")),
   Automaton({"q", "r"}, Leads("q", "r"), Leads("q", "dead"), Leads("dead", "r"))}

MCToken == {<< >>, <<1>>, <<2>>, <<1, 2>>, <<2, 1>>}
=============================================================================
