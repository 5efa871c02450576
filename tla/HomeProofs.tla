---------------------------- MODULE HomeProofs ------------------------------
(***************************************************************************)
(* The last proofs about Home, for all values of its constants: what all   *)
(* parts together are promised, from the proofs about each: their types,   *)
(* the company and the screen.                                             *)
(***************************************************************************)
EXTENDS HomeFileProofs, HomeCompanyProofs, HomePluginProofs, HomeScreenProofs

-----------------------------------------------------------------------------
(* All parts together.                                                      *)

\* In every part, whatever happens, the variables keep their types.
THEOREM TypesCorrect == Spec => []TypesOK
<1> DEFINE First == /\ part = "load" => Load!TypeOK
                    /\ Runtime!TypeOK /\ Updates!TypeOK /\ Setup!TypeOK /\ Self!TypeOK
           Second == /\ Service!TypeOK /\ Terminal!TypeOK /\ Command!TypeOK
                     /\ Projects!TypeOK /\ Tui!TypeOK /\ Usage!TypeOK
           Third == /\ part = "web" => Web!TypeOK
                    /\ part = "queries" => Queries!TypeOK
<1>1. Spec => []First
  BY LoadTypesHold, RuntimeTypesHold, UpdatesTypes, SetupTypes, SelfTypes, PTL
<1>2. Spec => []Second
  BY ServiceTypesHold, TerminalTypesHold, CommandTypesHold, ProjectsTypesHold, TuiTypesHold,
     UsageTypesHold, PTL
<1>3. Spec => []Third
  BY WebTypesHold, QueriesTypesHold, PTL
<1>4. First /\ Second /\ Third => TypesOK
  BY DEF TypesOK
<1> QED
  BY <1>1, <1>2, <1>3, <1>4, PTL

\* There is one company and it is found and stopped as reported; its offices are one
\* per directory, trusted unless an untrust overlapped their launch, and gone when it
\* closes, but for a child whose SIGSTOP was refused and agents of an office that
\* crashed or whose descendants could not be listed; its terminals show what their
\* children wrote, a command's event says how it ended, and a plugin's page gets the
\* files its manifest declares: all of CompanyIsTrue.
THEOREM CompanyTrue == Spec => CompanyIsTrue
  BY OneCompanyRuns, OfficesAreOne, TrustStays, TerminalsAreTrue, EventsAreTrue,
     DeclaredFilesAreServed DEF CompanyIsTrue

\* What the terminal UI acts on is what the user saw, an agent's inputs are held back
\* exactly while the user types to it, and an agent's queries are answered however its
\* output is cut into reads: all of ScreenIsTrue.
THEOREM ScreenTrue == Spec => ScreenIsTrue
  BY ScreensAreTrue, QueriesAreAnswered DEF ScreenIsTrue
=============================================================================
