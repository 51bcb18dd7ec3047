--------------------------------- MODULE Tui ---------------------------------
(***************************************************************************)
(* The two full-screen programs on one terminal: run_on_stdout drives the  *)
(* chat screen (TuiApp), run_login_wizard_on_stdout the login wizard       *)
(* (LoginWizard).  Both hold a RawModeGuard while they loop and give the   *)
(* terminal back when it is dropped, whichever way the loop ends.          *)
(***************************************************************************)
EXTENDS TuiApp, LoginWizard

VARIABLES
  program,     \* "chat" or "login"
  stage,       \* where the program stands
  raw, alt,    \* the terminal: raw mode, alternate screen
  callFailed,  \* history: a call that sets the terminal up or back failed
  answer       \* what run_login_wizard_on_stdout returned

terminal == <<raw, alt>>
tuiVars == <<appVars, wizardVars, program, stage, terminal, callFailed, answer>>

TuiInit ==
  /\ AppInit
  /\ WizardInit
  /\ program \in {"chat", "login"}
  /\ stage = "starting"
  /\ raw = FALSE /\ alt = FALSE /\ callFailed = FALSE
  /\ answer = NoResult

screens == <<appVars, wizardVars>>

(* RawModeGuard::enable: if the second call fails no guard was built, so
   nothing turns raw mode off again. *)
Enable ==
  /\ stage = "starting"
  /\ \/ /\ raw' = TRUE /\ alt' = TRUE /\ stage' = "looping"
        /\ UNCHANGED callFailed
     \/ /\ raw' \in BOOLEAN /\ alt' = FALSE /\ stage' = "closed"
        /\ callFailed' = TRUE
  /\ UNCHANGED <<screens, program, answer>>

(* One key, read and handled by the program that runs, or a call of another
   host of the chat screen, which App::run never makes. *)
HandleKey ==
  /\ stage = "looping"
  /\ \/ program = "chat" /\ AppNext /\ UNCHANGED wizardVars
     \/ /\ program = "login" /\ step \notin {"Done", "Cancelled"}
        /\ WizardNext /\ UNCHANGED appVars
  /\ UNCHANGED <<program, stage, terminal, callFailed, answer>>

LoopEnded == IF program = "chat" THEN shouldQuit
                                 ELSE step \in {"Done", "Cancelled"}

(* A mistake: only the ordinary end of the loop gives the terminal back. *)
RestoreUnlessError ==
  IF LoopEnded THEN raw' = FALSE /\ alt' = FALSE /\ UNCHANGED callFailed
               ELSE UNCHANGED <<terminal, callFailed>>

(* RawModeGuard::drop ignores the errors of its two calls. *)
Restore ==
  /\ raw' \in {FALSE, raw}
  /\ alt' \in {FALSE, alt}
  /\ callFailed' = (callFailed \/ raw' \/ alt')

(* The loop is over. *)
Return ==
  /\ stage = "looping"
  /\ LoopEnded
  /\ stage' = "closed"
  /\ Restore
  /\ answer' = Result
  /\ UNCHANGED <<screens, program>>

(* Drawing, polling or reading failed: `?` leaves the function and drops the
   guard on the way. *)
LoopError ==
  /\ stage = "looping"
  /\ stage' = "closed"
  /\ Restore
  /\ UNCHANGED <<screens, program, answer>>

TuiNext == Enable \/ HandleKey \/ Return \/ LoopError

TuiSpec == TuiInit /\ [][TuiNext]_tuiVars

-----------------------------------------------------------------------------

(* A program that ended has left raw mode and the alternate screen, whether it
   quit, was cancelled, finished or failed in its loop; only a call on the
   terminal itself that failed can leave it otherwise.  (RawModeGuard) *)
TerminalRestored ==
  stage = "closed" /\ ~callFailed => ~raw /\ ~alt
=============================================================================
