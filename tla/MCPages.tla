------------------------------- MODULE MCPages -------------------------------
(* Instances of Pages for TLC: what is launched. *)
EXTENDS Pages

CONSTANTS t, c

\* A conversation whose profile is not there, and a shell without a conversation inside or next to it;
\* a tag that only a denial brings, and a run of nobody; such a tag, and a run that writes the row of
\* the same session again.
MCScenarios == {
    [launches |-> << << <<"cursor", c>>, "missing" >>, << <<"cursor", "">>, "file" >> >>, images |-> 1, count |-> 1, rev |-> 7],
    [launches |-> << << <<"claude", t>>, "grows" >>, << <<"other", "">>, "inline" >> >>, images |-> 2, count |-> 2, rev |-> 7],
    [launches |-> << << <<"claude", t>>, "grows" >>, << <<"claude", t>>, "inline" >> >>, images |-> 1, count |-> 1, rev |-> 8] }
=============================================================================
