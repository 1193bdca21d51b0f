------------------------------ MODULE AppShell ------------------------------
(***************************************************************************)
(* The application around the screens (live-app.js, player-session.js,     *)
(* router.js, wallet-events.js): which screen is mounted, whose collection *)
(* it shows, and the requests under way, each of which may be overtaken by *)
(* navigation, by another request, or by the wallet.                       *)
(*                                                                         *)
(* The wallet's key changes before the application is told.  A request     *)
(* remembers the generation it was started in; here it carries whether     *)
(* that is still the current one.  The generation of the session moves     *)
(* only together with that of the application.                             *)
(***************************************************************************)
EXTENDS PrizeClaim

CONSTANT MaxJobs   \* requests under way at once

\* What the wallet reports.
Notices == {"accountChanged", "disconnect"}

\* What is asked for, and where it waits.
Kinds == {"connect", "disconnect", "start", "home", "register"}
Steps == {"wallet", "exists", "world", "load", "throws", "transaction"}

ASSUME AppShellAssumption == None \notin Notices

VARIABLES
  screen,      \* the mounted screen
  session,     \* the wallet whose collection is cached, or None
  notice,      \* a wallet event the application has not been told of, or None
  jobs         \* requests under way

shellVars == <<screen, session, notice, jobs>>
appVars == <<prizeVars, shellVars>>

\* A request: what it is, where it waits, for which wallet, and whether it has
\* been overtaken.
Job(kind, step, owner) ==
  [kind |-> kind, step |-> step, owner |-> owner, current |-> TRUE]

ShellInit ==
  /\ PrizeInit
  /\ screen = "welcome"
  /\ session = None
  /\ notice = None
  /\ jobs = {}

-----------------------------------------------------------------------------
\* (Mutant of Overtaken: nothing is overtaken.)
NotOvertaken(J) == J

\* ++generation: what is under way is no longer current.  The answer to an
\* overtaken read of "exists" or "world" is only dropped: nothing waits for it.
Overtaken(J) ==
  {[j EXCEPT !.current = FALSE] : j \in {k \in J : k.step \notin {"exists", "world", "throws"}}}

\* The router mounts a screen and unmounts the one before.
Mount(name) ==
  /\ screen' = name
  /\ IF name = "prizes" THEN MountPrizes(account)
     ELSE IF panel # None THEN UnmountPrizes
     ELSE UNCHANGED <<panel, tx>>

Stay == UNCHANGED <<screen, panel, tx>>

\* (Mutant of ShowWallet: the collection is not cleared.)
ShowWalletOnly(J) ==
  /\ Mount("welcome")
  /\ jobs' = Overtaken(J)
  /\ UNCHANGED session

\* showWallet: the session is cleared.
ShowWallet(J) ==
  /\ Mount("welcome")
  /\ session' = None
  /\ jobs' = Overtaken(J)

\* navigate: without a session there is only the wallet screen.
NavigateTo(name, J, owner) ==
  IF owner = None \/ account = None THEN ShowWallet(J)
  ELSE Mount(name) /\ session' = owner /\ jobs' = Overtaken(J)

\* start: ask whether the wallet is registered.
Start(J) ==
  IF account = None THEN ShowWallet(J)
  ELSE /\ jobs' = Overtaken(J) \cup {Job("start", "exists", account)}
       /\ Stay /\ UNCHANGED session

\* session.load, for the wallet connected now.
Load(kind, J) == J \cup {Job(kind, "load", account)}

ShellUnchanged == UNCHANGED <<chainVars, account, saved, over>>

-----------------------------------------------------------------------------
\* The player presses Connect, and the wallet answers.
PressConnect ==
  /\ screen = "welcome" /\ Cardinality(jobs) < MaxJobs
  /\ ~\E j \in jobs : j.kind = "connect" /\ j.current
  /\ jobs' = jobs \cup {Job("connect", "wallet", None)}
  /\ Stay /\ ShellUnchanged
  /\ UNCHANGED <<session, notice>>

Connected(j, w) ==
  /\ j \in jobs /\ j.kind = "connect"
  /\ account # None => w = account
  /\ account' = w
  /\ IF j.current
       THEN /\ jobs' = Overtaken(jobs \ {j}) \cup {Job("start", "exists", w)}
            /\ UNCHANGED session
       ELSE /\ jobs' = jobs \ {j}
            /\ UNCHANGED session
  /\ Stay
  /\ UNCHANGED <<chainVars, saved, over, notice>>

\* connect is refused.
Refused(j) ==
  /\ j \in jobs /\ j.kind = "connect"
  /\ jobs' = jobs \ {j}
  /\ Stay /\ ShellUnchanged
  /\ UNCHANGED <<session, notice>>

\* A read of start or home fails: the wallet screen with a retry.
ReadFailed(j) ==
  /\ j \in jobs /\ j.kind \in {"start", "home"}
  /\ IF j.current THEN ShowWallet(jobs \ {j})
     ELSE jobs' = jobs \ {j} /\ Stay /\ UNCHANGED session
  /\ ShellUnchanged
  /\ UNCHANGED notice

\* checkPlayerStateExists answers.
ExistsRead(j) ==
  LET rest == jobs \ {j} IN
  /\ j \in jobs /\ j.step = "exists"
  /\ IF ~j.current THEN jobs' = rest /\ Stay /\ UNCHANGED session
     ELSE IF account # j.owner THEN ShowWallet(rest)
     ELSE /\ jobs' = IF j.owner \in registered THEN Load("start", rest)
                     ELSE rest \cup {[j EXCEPT !.step = "world"]}
          /\ Stay /\ UNCHANGED session
  /\ ShellUnchanged
  /\ UNCHANGED notice

\* getGameWorld answers for a wallet that is not registered.
WorldRead(j) ==
  LET rest == jobs \ {j} IN
  /\ j \in jobs /\ j.step = "world"
  /\ jobs' = rest
  /\ IF j.current /\ account = j.owner
       THEN Mount(IF ended THEN "prizes" ELSE "register")
       ELSE Stay
  /\ ShellUnchanged
  /\ UNCHANGED <<session, notice>>

\* session.load commits the collection it has read.
Commits(j) == j.current /\ account = j.owner

\* The collection is read; start and home go on to the screen they were for.
Loaded(j) ==
  LET rest == jobs \ {j} IN
  /\ j \in jobs /\ j.step = "load"
  /\ IF Commits(j)
       THEN NavigateTo(IF j.kind = "start" /\ ended THEN "prizes" ELSE "game",
                       rest, j.owner)
     ELSE IF j.current THEN ShowWallet(rest)
     ELSE jobs' = rest /\ Stay /\ UNCHANGED session
  /\ ShellUnchanged
  /\ UNCHANGED notice

\* A button of a mounted screen: another screen of the game.
Navigate(name) ==
  /\ screen \in {"game", "prizes"}
  /\ NavigateTo(name, jobs, session)
  /\ ShellUnchanged
  /\ UNCHANGED notice

\* home: the collection is read again before anything is mounted.
Home ==
  /\ screen \in {"game", "prizes"} /\ Cardinality(jobs) < MaxJobs
  /\ Mount("loading")
  /\ IF account = None
       THEN /\ jobs' = Overtaken(jobs) \cup {Job("home", "throws", None)}
            /\ UNCHANGED session
       ELSE jobs' = Load("home", Overtaken(jobs)) /\ UNCHANGED session
  /\ ShellUnchanged
  /\ UNCHANGED notice

\* register sends its transaction, which may land whatever the screen does.
PressRegister ==
  /\ screen = "register" /\ Cardinality(jobs) < MaxJobs
  /\ IF account = None THEN ShowWallet(jobs)
     ELSE /\ ~\E j \in jobs : j.kind = "register" /\ j.current
          /\ jobs' = jobs \cup {Job("register", "transaction", account)}
          /\ Stay /\ UNCHANGED session
  /\ ShellUnchanged
  /\ UNCHANGED notice

RegisterConfirmed(j) ==
  /\ j \in jobs /\ j.kind = "register"
  /\ ~ended
  /\ registered' = registered \cup {j.owner}
  /\ IF j.current /\ account = j.owner THEN Start(jobs \ {j})
     ELSE jobs' = jobs \ {j} /\ Stay /\ UNCHANGED session
  /\ UNCHANGED <<ended, account, saved, over, notice>>

RegisterFailed(j) ==
  /\ j \in jobs /\ j.kind = "register"
  /\ jobs' = jobs \ {j}
  /\ Stay /\ ShellUnchanged
  /\ UNCHANGED <<session, notice>>

\* The disconnect button of the register screen.
PressDisconnect ==
  /\ screen = "register" /\ Cardinality(jobs) < MaxJobs
  /\ jobs' = jobs \cup {Job("disconnect", "wallet", None)}
  /\ Stay /\ ShellUnchanged
  /\ UNCHANGED <<session, notice>>

\* The wallet has disconnected, and its event follows, or has failed to, which
\* makes no difference to the shell.
Disconnected(j) ==
  /\ j \in jobs /\ j.kind = "disconnect"
  /\ account' \in {account, None}
  /\ notice' = IF account' # account /\ notice = None THEN "disconnect" ELSE notice
  /\ IF j.current THEN ShowWallet(jobs \ {j})
     ELSE jobs' = jobs \ {j} /\ Stay /\ UNCHANGED session
  /\ UNCHANGED <<chainVars, saved, over>>

-----------------------------------------------------------------------------
\* The wallet changes its key, or goes away; the event follows.
WalletChanges(w) ==
  /\ account # None /\ w # account /\ notice = None
  /\ account' = w
  /\ notice' = IF w = None THEN "disconnect" ELSE "accountChanged"
  /\ Stay
  /\ UNCHANGED <<chainVars, saved, over, session, jobs>>

\* disconnect shows the wallet screen; a new key reloads the page, which starts
\* again with the wallet connected or not.
Notified ==
  /\ notice # None
  /\ notice' = None
  /\ IF notice = "disconnect" THEN ShowWallet(jobs) /\ UNCHANGED account
     ELSE /\ screen' = "welcome" /\ session' = None
          /\ IF panel # None THEN UnmountPrizes ELSE UNCHANGED <<panel, tx>>
          /\ account' \in {account, None}
          /\ jobs' = IF account' = None THEN {} ELSE {Job("start", "exists", account')}
  /\ UNCHANGED <<chainVars, saved, over>>

PrizesUnchanged == UNCHANGED shellVars

ShellAction ==
  \/ PressConnect \/ Home \/ PressRegister \/ PressDisconnect \/ Notified
  \/ \E j \in jobs :
       \/ Refused(j) \/ ReadFailed(j) \/ ExistsRead(j) \/ WorldRead(j) \/ Loaded(j)
       \/ RegisterConfirmed(j) \/ RegisterFailed(j) \/ Disconnected(j)
       \/ \E w \in Wallets : Connected(j, w)
  \/ \E name \in {"game", "prizes"} : Navigate(name)
  \/ \E w \in Wallets \cup {None} : WalletChanges(w)

AppNext == ShellAction \/ (PrizeAction /\ PrizesUnchanged)

AppSpec == ShellInit /\ [][AppNext]_appVars

-----------------------------------------------------------------------------
\* Once the application has been told of every change of the wallet, a screen of
\* the game shows the collection of the connected wallet, and the prize screen
\* claims for it: no read that was under way brings back another wallet's.
ScreenIsWallets ==
  notice = None =>
    /\ screen = "game" => session = account
    /\ screen = "prizes" => panel.owner = account /\ session \in {account, None}

\* A screen of the game, once mounted, is left for another only by the player or
\* by the wallet: whatever was asked before it was mounted comes too late to
\* replace it, and to leave a claim of the prize screen behind at its prompt.
ScreenStays ==
  screen \in {"game", "prizes"} /\ session # None => \A j \in jobs : ~j.current
=============================================================================
