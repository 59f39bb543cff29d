------------------------ MODULE MCApprovalReplay ------------------------
(***************************************************************************)
(* Small instances of ApprovalReplay: page loads, clicks that the gate     *)
(* always, sometimes or never asks about, and ask_human.                   *)
(***************************************************************************)
EXTENDS ApprovalReplay, TLC

CONSTANTS open, look, pay, send, wavering, human

MCCalls == {open, look, pay, send, wavering, human}

\* Human asks a question and leaves no observation.
MCObserving == {look, pay, send, wavering}

MCVerdict ==
  (open :> {"allow"}) @@ (look :> {"allow"}) @@ (pay :> {"ask"}) @@
  (send :> {"ask"}) @@ (wavering :> {"allow", "ask", "block"}) @@
  (human :> {"ask", "block"})

\* At most one step that can ask.
OneAsking == {<<open, look>>, <<open, pay>>, <<open, look, pay, look>>,
              <<open, wavering, look>>, <<open, look, wavering>>,
              <<open, human, look>>,
              <<open, pay, open>>, <<open, open>>}

ThreeAsking == {<<open, pay, send, pay>>, <<open, pay, send, wavering>>}
=============================================================================
