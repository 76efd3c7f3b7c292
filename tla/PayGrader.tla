----------------------------- MODULE PayGrader ------------------------------
(***************************************************************************)
(* The grades of a mint's pay side, composed: the checks of a payRequest,  *)
(* of a Lightning Address, of a note minted to a name, and of the          *)
(* registrations, each against the one mint of GradedPay.                  *)
(***************************************************************************)
EXTENDS MintGrader, RegistrationGrader

Grading ==
  \/ target # "registration" /\ gradeMint
  \/ target = "registration" /\ gradeRegistration
Next == (Grading /\ UNCHANGED <<mintVars, target>>) \/ Http \/ Done

\* Every request is answered or times out, and the grader runs on.
Spec == Init /\ [][Next]_vars /\ WF_vars(Next)
=============================================================================
