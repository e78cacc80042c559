-------------------------------- MODULE LLMCall --------------------------------
(***************************************************************************)
(* What the session relies on when it asks a language model               *)
(* (LLMProvider.generate and generate_streaming in llm/providers/base.py): *)
(* a call is answered at most once, with a text or with nothing, and text  *)
(* shown while the model writes belongs to a call that is still open, or   *)
(* to one that was given up and answered with nothing.  Where the calls    *)
(* are bounded, each is answered.                                          *)
(***************************************************************************)
CONSTANTS Calls

VARIABLES
    asked,    \* the calls made
    answer,   \* None, or what the Deferred fired with
    shown,    \* the calls of which a chunk was written to the terminal
    bounded   \* whether a call has a time limit

callVars == <<asked, answer, shown, bounded>>

None == "none"
Empty == "empty"
Text == "text"

Init == /\ asked = {}
        /\ answer = [c \in Calls |-> None]
        /\ shown = {}
        /\ bounded \in BOOLEAN

Ask(c) == /\ c \notin asked
          /\ asked' = asked \cup {c}
          /\ UNCHANGED <<answer, shown, bounded>>

Answer(c) == /\ c \in asked /\ answer[c] = None
             /\ \E r \in {Empty, Text} : answer' = [answer EXCEPT ![c] = r]
             /\ UNCHANGED <<asked, shown, bounded>>

Show(c) == /\ c \in asked /\ answer[c] # Text
           /\ shown' = shown \cup {c}
           /\ UNCHANGED <<asked, answer, bounded>>

Next == \E c \in Calls : Ask(c) \/ Answer(c) \/ Show(c)

Fairness == \A c \in Calls : WF_callVars(bounded /\ Answer(c))

Safety == Init /\ [][Next]_callVars
Spec == Safety /\ Fairness
=============================================================================
