--------------------------- MODULE AppShellProofs ---------------------------
(***************************************************************************)
(* Proofs about the application shell and the prize claims in it, for any  *)
(* number of wallets, of claims and of requests under way.                 *)
(***************************************************************************)
EXTENDS AppShell, FiniteSetTheorems, TLAPS

PrizeTypeOK ==
  /\ registered \subseteq Wallets
  /\ account \in Wallets \cup {None}
  /\ panel # None => panel \in Panel
  /\ saved \in [Wallets -> Signatures \cup {None}]
  /\ tx \in [Signatures -> [owner : Wallets \cup {None}, state : State, live : BOOLEAN]]
  /\ over \subseteq Signatures
  /\ \A s \in Signatures : tx[s].state # "unused" => tx[s].owner \in Wallets

JobOK(j) ==
  /\ j \in [kind : Kinds, step : Steps, owner : Wallets \cup {None}, current : BOOLEAN]
  /\ j.kind = "register" \/ j.step \in {"exists", "world", "load"} => j.owner \in Wallets
  /\ j.step \in {"exists", "world"} => j.kind = "start"

-----------------------------------------------------------------------------
(***************************************************************************)
(* The prize claim.                                                        *)
(***************************************************************************)

\* A claim that was broadcast and whose fate is open.
Pending(s) == tx[s].state = "sent" /\ s \notin over
NonePending(w) == \A s \in Signatures : tx[s].owner = w => ~Pending(s)
NoneMayLand(w) == \A s \in Signatures : tx[s].owner = w => ~MayLand(s)

\* A prompt whose screen is still there belongs to the mounted controller, which
\* waits for it; while it is open nothing of its wallet may land.
PromptsAreWatched ==
  \A s \in Signatures : tx[s].live =>
    /\ tx[s].state = "prompt"
    /\ panel # None /\ panel.doing = "sign" /\ panel.owner = tx[s].owner
    /\ NoneMayLand(tx[s].owner)
    /\ \A t \in Signatures : tx[t].live => t = s

\* What the controller knows: the record it looks up is the saved one, and it
\* offers or prepares another claim only when none is pending.
PanelKnows ==
  panel # None =>
    /\ panel.doing \in {"status", "height"} =>
         panel.read.record = saved[panel.owner]
    /\ panel.doing \in {"check", "simulate"} => NonePending(panel.owner)
    /\ panel.claimable /\ panel.record = None => NonePending(panel.owner)
    /\ panel.record # None /\ MayRetry(panel.receipt) => NonePending(panel.owner)

PrizeInv == PrizeTypeOK /\ ClaimOnRecord /\ PromptsAreWatched /\ PanelKnows

-----------------------------------------------------------------------------
(***************************************************************************)
(* The shell.                                                              *)
(***************************************************************************)

\* Where a wallet can be connected or registered no collection is cached.
SessionCleared == screen \in {"welcome", "register"} => session = None

\* What a mounted screen stands on: the game a cached collection, the prize
\* screen its controller.
Mounted ==
  /\ screen = "game" => session # None
  /\ screen = "prizes" => panel.owner \in Wallets

\* With a collection cached only home reads on.
OnlyHomeReads == session # None => \A j \in jobs : j.current => j.kind = "home"

\* A cached collection is the connected wallet's, once the shell has been told.
SessionIsWallets == notice = None => session \in {account, None}

ShellTypeOK ==
  /\ session \in Wallets \cup {None}
  /\ \A j \in jobs : JobOK(j)

ShellInv ==
  /\ ShellTypeOK
  /\ SessionCleared /\ Mounted /\ OnlyHomeReads /\ SessionIsWallets
  /\ ScreenIsWallets /\ ScreenStays

AppInv == PrizeInv /\ ShellInv

-----------------------------------------------------------------------------
(***************************************************************************)
(* Steps that keep the invariant of the claims.                            *)
(***************************************************************************)

\* A step of the controller that sends nothing and asks nothing.
LEMMA PanelStep ==
  ASSUME PrizeInv, UNCHANGED <<registered, account, saved, tx, over>>,
         panel # None, panel.doing # "sign", panel' \in Panel, PanelKnows'
  PROVE  PrizeInv'
<1>1. PrizeTypeOK' BY DEF PrizeInv, PrizeTypeOK, Panel
<1>2. ClaimOnRecord' BY DEF PrizeInv, ClaimOnRecord, MayLand
<1>3. PromptsAreWatched' BY DEF PrizeInv, PromptsAreWatched
<1> QED BY <1>1, <1>2, <1>3 DEF PrizeInv

\* A step of the chain: no claim comes to life, and prompts stay as they are.
LEMMA ChainStep ==
  ASSUME PrizeInv, UNCHANGED <<registered, account, panel, saved>>,
         tx' \in [Signatures -> [owner : Wallets \cup {None}, state : State, live : BOOLEAN]],
         over' \subseteq Signatures,
         \A s \in Signatures :
           /\ tx'[s].owner = tx[s].owner /\ tx'[s].live = tx[s].live
           /\ tx[s].state \in {"unused", "prompt"} => tx'[s].state = tx[s].state
           /\ MayLand(s)' => MayLand(s)
           /\ Pending(s)' => Pending(s)
  PROVE  PrizeInv'
<1>1. PrizeTypeOK'
  <2>1. \A s \in Signatures : tx'[s].state # "unused" => tx'[s].owner \in Wallets
    BY DEF PrizeInv, PrizeTypeOK
  <2> QED BY <2>1 DEF PrizeInv, PrizeTypeOK
<1>2. ClaimOnRecord' BY DEF PrizeInv, ClaimOnRecord
<1>3. PromptsAreWatched'
  <2>1. \A w : NoneMayLand(w) => NoneMayLand(w)' BY DEF NoneMayLand
  <2> QED BY <2>1 DEF PrizeInv, PromptsAreWatched
<1>4. PanelKnows'
  <2>1. \A w : NonePending(w) => NonePending(w)' BY DEF NonePending
  <2> QED BY <2>1 DEF PrizeInv, PanelKnows
<1> QED BY <1>1, <1>2, <1>3, <1>4 DEF PrizeInv

LEMMA LandKeeps ==
  ASSUME PrizeInv, NEW s \in Signatures, LandClaim(s)
  PROVE  PrizeInv'
<1>1. PICK outcome \in {"paid", "refused"} : tx' = [tx EXCEPT ![s].state = outcome]
  BY DEF LandClaim
<1>2. \A r \in Signatures :
        tx'[r] = IF r = s THEN [tx[s] EXCEPT !.state = outcome] ELSE tx[r]
  BY <1>1 DEF PrizeInv, PrizeTypeOK
<1>3. tx[s].state = "sent" /\ s \notin over /\ over' = over BY DEF LandClaim
<1>4. tx[s] \in [owner : Wallets \cup {None}, state : State, live : BOOLEAN]
  BY DEF PrizeInv, PrizeTypeOK
<1>5. tx' \in [Signatures -> [owner : Wallets \cup {None}, state : State, live : BOOLEAN]]
  BY <1>1, <1>4 DEF PrizeInv, PrizeTypeOK, State
<1>6. \A r \in Signatures :
        /\ tx'[r].owner = tx[r].owner /\ tx'[r].live = tx[r].live
        /\ tx[r].state \in {"unused", "prompt"} => tx'[r].state = tx[r].state
        /\ MayLand(r)' => MayLand(r)
        /\ Pending(r)' => Pending(r)
  <2> TAKE r \in Signatures
  <2>1. CASE r = s BY <2>1, <1>2, <1>3, <1>4 DEF MayLand, Pending
  <2>2. CASE r # s BY <2>2, <1>2, <1>3 DEF MayLand, Pending
  <2> QED BY <2>1, <2>2
<1>7. over' \subseteq Signatures BY <1>3 DEF PrizeInv, PrizeTypeOK
<1>8. UNCHANGED <<registered, account, panel, saved>> BY DEF LandClaim, chainVars
<1> QED BY <1>5, <1>6, <1>7, <1>8, ChainStep

\* Finalizing a claim, or the last block it is valid in.
LEMMA FinalKeeps ==
  ASSUME PrizeInv, NEW s \in Signatures, Finalize(s) \/ OutOfTime(s)
  PROVE  PrizeInv'
<1>1. tx' = [tx EXCEPT ![s].state = Final(@)] BY DEF Finalize, OutOfTime
<1>2. \A r \in Signatures :
        tx'[r] = IF r = s THEN [tx[s] EXCEPT !.state = Final(@)] ELSE tx[r]
  BY <1>1 DEF PrizeInv, PrizeTypeOK
<1>3. /\ tx[s].state \in {"prompt", "sent", "paid", "refused"}
      /\ over' = over \/ over' = over \cup {s}
  BY DEF Finalize, OutOfTime
<1>4. tx[s] \in [owner : Wallets \cup {None}, state : State, live : BOOLEAN]
  BY DEF PrizeInv, PrizeTypeOK
<1>5. /\ Final(tx[s].state) \in State
      /\ tx[s].state \in {"prompt", "sent"} => Final(tx[s].state) = tx[s].state
      /\ tx[s].state = "paid" => Final(tx[s].state) = "paid final"
      /\ tx[s].state = "refused" => Final(tx[s].state) = "refused final"
  BY <1>3 DEF Final, State
<1>6. tx' \in [Signatures -> [owner : Wallets \cup {None}, state : State, live : BOOLEAN]]
  BY <1>1, <1>4, <1>5 DEF PrizeInv, PrizeTypeOK
<1>7. \A r \in Signatures :
        /\ tx'[r].owner = tx[r].owner /\ tx'[r].live = tx[r].live
        /\ tx[r].state \in {"unused", "prompt"} => tx'[r].state = tx[r].state
        /\ MayLand(r)' => MayLand(r)
        /\ Pending(r)' => Pending(r)
  BY <1>2, <1>3, <1>4, <1>5 DEF MayLand, Pending
<1>8. over' \subseteq Signatures BY <1>3 DEF PrizeInv, PrizeTypeOK
<1>9. UNCHANGED <<registered, account, panel, saved>> BY DEF Finalize, OutOfTime, chainVars
<1> QED BY <1>6, <1>7, <1>8, <1>9, ChainStep

\* The steps of refresh.
LEMMA PanelTyped ==
  ASSUME PrizeInv, panel # None
  PROVE  /\ panel \in Panel
         /\ panel.claimable \in BOOLEAN /\ panel.error \in BOOLEAN
         /\ panel.owner \in Wallets /\ panel.read \in Read
         /\ panel.record \in Signatures \cup {None}
BY DEF PrizeInv, PrizeTypeOK, Panel

LEMMA RefreshKeeps == ASSUME PrizeInv, Refresh PROVE PrizeInv'
<1>1. panel # None /\ panel.doing = "idle" BY DEF Refresh, Current
<1>2. panel' = [panel EXCEPT !.doing = "snapshot", !.error = FALSE] BY DEF Refresh
<1>3. panel' \in Panel BY <1>1, <1>2, PanelTyped DEF Panel, Doing
<1>4. UNCHANGED <<registered, account, saved, tx, over>> BY DEF Refresh, chainVars
<1>5. PanelKnows'
  BY <1>1, <1>2, <1>4, PanelTyped
  DEF PrizeInv, PanelKnows, Panel, MayRetry, NonePending, Pending
<1> QED BY <1>1, <1>3, <1>4, <1>5, PanelStep

\* A record that is saved excludes every other pending claim of its wallet.
LEMMA SavedExcludes ==
  ASSUME PrizeInv, NEW w \in Wallets,
         saved[w] # None => ~Pending(saved[w])
  PROVE  NonePending(w)
<1> SUFFICES ASSUME NEW s \in Signatures, tx[s].owner = w, Pending(s) PROVE FALSE
  BY DEF NonePending
<1>1. saved[w] = s BY DEF PrizeInv, ClaimOnRecord, MayLand, Pending
<1>2. s # None BY PrizeClaimAssumption
<1> QED BY <1>1, <1>2

\* What a refresh that ends shows, if none is pending where it says so.
LEMMA ShowsKeeps ==
  ASSUME PrizeInv, panel # None, panel.doing # "sign",
         UNCHANGED <<registered, account, saved, tx, over>>,
         NEW read \in Read, NEW receipt \in Receipt, NEW error \in BOOLEAN,
         Shows(read, receipt, error),
         (read.claimable /\ read.record = None) \/ (read.record # None /\ MayRetry(receipt))
           => NonePending(panel.owner)
  PROVE  PrizeInv'
<1>1. panel' = [panel EXCEPT !.doing = "idle", !.error = error,
                  !.claimable = read.claimable, !.record = read.record,
                  !.receipt = receipt, !.read = Nothing]
  BY DEF Shows
<1>2. Nothing \in Read BY DEF Nothing, Read
<1>3. panel' \in Panel BY <1>1, <1>2, PanelTyped DEF Panel, Doing, Read
<1>4. /\ panel'.doing = "idle" /\ panel'.owner = panel.owner /\ panel'.receipt = receipt
      /\ panel'.claimable = read.claimable /\ panel'.record = read.record
  BY <1>1, PanelTyped DEF Panel
<1>5. NonePending(panel.owner) => NonePending(panel.owner)' BY <1>4 DEF NonePending, Pending
<1>6. PanelKnows' BY <1>4, <1>5 DEF PanelKnows, MayRetry
<1> QED BY <1>3, <1>6, PanelStep

LEMMA ReadSnapshotKeeps == ASSUME PrizeInv, ReadSnapshot PROVE PrizeInv'
<1> DEFINE read == [claimable |-> Claimable(panel.owner), record |-> saved[panel.owner]]
<1>1. /\ panel # None /\ panel.doing = "snapshot"
      /\ UNCHANGED <<registered, account, saved, tx, over>>
  BY DEF ReadSnapshot, Current, chainVars
<1>2. read \in Read /\ panel.owner \in Wallets
  BY <1>1, PanelTyped DEF PrizeInv, PrizeTypeOK, Read, Claimable
<1>3. CASE read.record = None
  <2>1. Shows(read, "none", FALSE) BY <1>3 DEF ReadSnapshot
  <2>2. NonePending(panel.owner) BY <1>2, <1>3, SavedExcludes
  <2> HIDE DEF read
  <2> QED BY <1>1, <1>2, <1>3, <2>1, <2>2, ShowsKeeps DEF Receipt
<1>4. CASE read.record # None
  <2>1. panel' = [panel EXCEPT !.doing = "status", !.read = read] BY <1>4 DEF ReadSnapshot
  <2>2. read.record = saved[panel.owner] OBVIOUS
  <2> HIDE DEF read
  <2>3. panel' \in Panel BY <1>1, <1>2, <2>1, PanelTyped DEF Panel, Doing
  <2>4. PanelKnows'
    BY <1>1, <1>2, <2>1, <2>2, PanelTyped
    DEF PrizeInv, PanelKnows, Panel, MayRetry, NonePending, Pending
  <2> QED BY <1>1, <2>3, <2>4, PanelStep
<1> QED BY <1>3, <1>4

LEMMA ReadStatusKeeps == ASSUME PrizeInv, ReadStatus PROVE PrizeInv'
<1> DEFINE state == tx[panel.read.record].state
           receipt == CASE state = "paid final" -> "received"
                        [] state = "refused final" -> "failed"
                        [] OTHER -> "pending"
<1>1. /\ panel # None /\ panel.doing = "status"
      /\ UNCHANGED <<registered, account, saved, tx, over>>
  BY DEF ReadStatus, Current, chainVars
<1>2. /\ panel.owner \in Wallets /\ panel.read \in Read /\ panel \in Panel
      /\ panel.read.record = saved[panel.owner]
  BY <1>1, PanelTyped DEF PrizeInv, PanelKnows
<1>3. CASE state = "sent"
  <2>1. panel' = [panel EXCEPT !.doing = "height"] BY <1>3 DEF ReadStatus
  <2>2. panel' \in Panel BY <1>1, <1>2, <2>1 DEF Panel, Doing
  <2>3. PanelKnows'
    BY <1>1, <1>2, <2>1 DEF PrizeInv, PanelKnows, Panel, MayRetry, NonePending, Pending
  <2> QED BY <1>1, <2>2, <2>3, PanelStep
<1>4. CASE state # "sent"
  <2>1. Shows(panel.read, receipt, FALSE) BY <1>4 DEF ReadStatus
  <2>2. receipt \in Receipt /\ (MayRetry(receipt) => state = "refused final")
    BY DEF Receipt, MayRetry
  <2>3. NonePending(panel.owner) BY <1>2, <1>4, SavedExcludes DEF Pending
  <2> HIDE DEF state, receipt
  <2> QED BY <1>1, <1>2, <2>1, <2>2, <2>3, ShowsKeeps
<1> QED BY <1>3, <1>4

LEMMA ReadHeightKeeps == ASSUME PrizeInv, ReadHeight PROVE PrizeInv'
<1> DEFINE receipt == IF panel.read.record \in over THEN "expired" ELSE "pending"
<1>1. /\ panel # None /\ panel.doing = "height"
      /\ UNCHANGED <<registered, account, saved, tx, over>>
      /\ Shows(panel.read, receipt, FALSE)
  BY DEF ReadHeight, Current, chainVars
<1>2. /\ panel.owner \in Wallets /\ panel.read \in Read
      /\ panel.read.record = saved[panel.owner]
  BY <1>1, PanelTyped DEF PrizeInv, PanelKnows
<1>3. receipt \in Receipt BY DEF Receipt
<1>4. MayRetry(receipt) \/ panel.read.record = None => NonePending(panel.owner)
  BY <1>2, SavedExcludes DEF MayRetry, Pending
<1> HIDE DEF receipt
<1> QED BY <1>1, <1>2, <1>3, <1>4, ShowsKeeps

LEMMA ReadFailsKeeps == ASSUME PrizeInv, ReadFails PROVE PrizeInv'
<1>1. /\ panel # None /\ panel.doing \in {"snapshot", "status", "height"}
      /\ UNCHANGED <<registered, account, saved, tx, over>>
  BY DEF ReadFails, Current, chainVars
<1>2. CASE panel.doing = "snapshot"
  <2>1. panel' = [panel EXCEPT !.doing = "idle", !.error = TRUE] BY <1>2 DEF ReadFails
  <2>2. panel' \in Panel BY <1>1, <2>1, PanelTyped DEF Panel, Doing
  <2>3. PanelKnows'
    BY <1>1, <2>1, PanelTyped
    DEF PrizeInv, PanelKnows, Panel, MayRetry, NonePending, Pending
  <2> QED BY <1>1, <2>2, <2>3, PanelStep
<1>3. CASE panel.doing # "snapshot"
  <2>1. Shows(panel.read, "pending", TRUE) BY <1>3 DEF ReadFails
  <2>2. panel.owner \in Wallets /\ panel.read \in Read
        /\ panel.read.record = saved[panel.owner]
    BY <1>1, <1>3, PanelTyped DEF PrizeInv, PanelKnows
  <2>3. panel.read.record = None => NonePending(panel.owner) BY <2>2, SavedExcludes
  <2> QED BY <1>1, <1>3, <2>1, <2>2, <2>3, ShowsKeeps DEF MayRetry, Receipt
<1> QED BY <1>2, <1>3

\* The steps of claim.
LEMMA ClaimKeeps == ASSUME PrizeInv, Claim PROVE PrizeInv'
<1>1. /\ panel # None /\ panel.doing = "idle" /\ panel.claimable
      /\ panel.record # None => MayRetry(panel.receipt)
      /\ UNCHANGED <<registered, account, saved, tx, over>>
      /\ panel' = [panel EXCEPT !.doing = "check"]
  BY DEF Claim, Current, chainVars
<1>2. panel' \in Panel BY <1>1, PanelTyped DEF Panel, Doing
<1>3. NonePending(panel.owner) BY <1>1 DEF PrizeInv, PanelKnows
<1>4. NonePending(panel.owner)' BY <1>1, <1>3, PanelTyped DEF Panel, NonePending, Pending
<1>5. PanelKnows' BY <1>1, <1>4, PanelTyped DEF PanelKnows, Panel
<1> QED BY <1>1, <1>2, <1>5, PanelStep

\* A claim that ends with the record the screen had.
LEMMA ClaimGivenUp ==
  ASSUME PrizeInv, panel # None, panel.doing \in {"check", "simulate", "sign"},
         panel' = ClaimEnds(panel.record, TRUE) \/ panel' = [panel EXCEPT !.doing = "idle"],
         \A w : NonePending(w) => NonePending(w)'
  PROVE  panel' \in Panel /\ PanelKnows' /\ panel'.doing # "sign"
<1>1. panel' = [panel EXCEPT !.doing = IF panel.record # None THEN "snapshot" ELSE "idle",
                  !.record = panel.record, !.error = TRUE /\ panel.record = None]
      \/ panel' = [panel EXCEPT !.doing = "idle"]
  BY DEF ClaimEnds
<1>2. panel' \in Panel BY <1>1, PanelTyped DEF Panel, Doing
<1>3. /\ panel'.doing \in {"snapshot", "idle"} /\ panel'.owner = panel.owner
      /\ panel'.claimable = panel.claimable /\ panel'.record = panel.record
      /\ panel'.receipt = panel.receipt
  BY <1>1, PanelTyped DEF Panel
<1>4. PanelKnows' BY <1>3 DEF PrizeInv, PanelKnows, MayRetry
<1> QED BY <1>2, <1>3, <1>4

LEMMA CheckAgainKeeps == ASSUME PrizeInv, CheckAgain PROVE PrizeInv'
<1>1. /\ panel # None /\ panel.doing = "check"
      /\ UNCHANGED <<registered, account, saved, tx, over>>
  BY DEF CheckAgain, Current, chainVars
<1>2. \A w : NonePending(w) => NonePending(w)' BY <1>1 DEF NonePending, Pending
<1>3. CASE Claimable(panel.owner)
  <2>1. panel' = [panel EXCEPT !.doing = "simulate"] BY <1>3 DEF CheckAgain
  <2>2. panel' \in Panel BY <1>1, <2>1, PanelTyped DEF Panel, Doing
  <2>3. PanelKnows'
    BY <1>1, <1>2, <2>1, PanelTyped DEF PrizeInv, PanelKnows, Panel, MayRetry
  <2> QED BY <1>1, <2>2, <2>3, PanelStep
<1>4. CASE ~Claimable(panel.owner)
  <2>1. panel' = ClaimEnds(panel.record, TRUE) BY <1>4 DEF CheckAgain
  <2> QED BY <1>1, <1>2, <2>1, ClaimGivenUp, PanelStep
<1> QED BY <1>3, <1>4

LEMMA ClaimFailsKeeps == ASSUME PrizeInv, ClaimFails PROVE PrizeInv'
<1>1. /\ panel # None /\ panel.doing \in {"check", "simulate"}
      /\ UNCHANGED <<registered, account, saved, tx, over>>
      /\ panel' = ClaimEnds(panel.record, TRUE)
  BY DEF ClaimFails, Current, chainVars
<1>2. \A w : NonePending(w) => NonePending(w)' BY <1>1 DEF NonePending, Pending
<1> QED BY <1>1, <1>2, ClaimGivenUp, PanelStep

LEMMA AnswerDroppedKeeps == ASSUME PrizeInv, AnswerDropped PROVE PrizeInv'
<1>1. /\ panel # None
      /\ panel.doing \in {"snapshot", "status", "height", "check", "simulate"}
      /\ UNCHANGED <<registered, account, saved, tx, over>>
  BY DEF AnswerDropped, chainVars
<1>2. panel' = [panel EXCEPT !.doing = IF panel.doing \in {"check", "simulate"}
                                         THEN "idle" ELSE "loading", !.read = Nothing]
  BY DEF AnswerDropped
<1>3. Nothing \in Read BY DEF Nothing, Read
<1>4. panel' \in Panel BY <1>1, <1>2, <1>3, PanelTyped DEF Panel, Doing
<1>5. /\ panel'.doing \in {"idle", "loading"} /\ panel'.owner = panel.owner
      /\ panel'.claimable = panel.claimable /\ panel'.record = panel.record
      /\ panel'.receipt = panel.receipt
  BY <1>1, <1>2, PanelTyped DEF Panel
<1>6. \A w : NonePending(w) => NonePending(w)' BY <1>1 DEF NonePending, Pending
<1>7. PanelKnows' BY <1>5, <1>6, <1>1 DEF PrizeInv, PanelKnows, MayRetry
<1> QED BY <1>1, <1>4, <1>7, PanelStep

LEMMA EndSeasonKeeps == ASSUME PrizeInv, EndSeason PROVE PrizeInv'
<1>1. UNCHANGED <<registered, account, panel, saved, tx, over>> BY DEF EndSeason
<1> QED
  BY <1>1 DEF PrizeInv, PrizeTypeOK, ClaimOnRecord, MayLand, PromptsAreWatched,
              NoneMayLand, PanelKnows, NonePending, Pending, MayRetry

\* The prompt is opened for a wallet none of whose claims may land.
LEMMA AskKeeps == ASSUME PrizeInv, NEW s \in Signatures, Ask(s) PROVE PrizeInv'
<1> DEFINE asked == [owner |-> panel.owner, state |-> "prompt", live |-> TRUE]
<1>1. /\ panel # None /\ panel.doing = "simulate" /\ Claimable(panel.owner)
      /\ tx[s].state = "unused"
      /\ tx' = [tx EXCEPT ![s] = asked] /\ panel' = [panel EXCEPT !.doing = "sign"]
      /\ UNCHANGED <<registered, account, saved, over>>
  BY DEF Ask, Current, chainVars
<1>2. panel.owner \in Wallets /\ panel \in Panel BY <1>1, PanelTyped
<1>3. /\ panel' \in Panel /\ panel'.doing = "sign" /\ panel'.owner = panel.owner
      /\ panel'.claimable = panel.claimable /\ panel'.record = panel.record
      /\ panel'.receipt = panel.receipt
  BY <1>1, <1>2 DEF Panel, Doing
<1>4. /\ tx' \in [Signatures -> [owner : Wallets \cup {None}, state : State, live : BOOLEAN]]
      /\ tx'[s] = asked
      /\ \A r \in Signatures \ {s} : tx'[r] = tx[r]
  BY <1>1, <1>2 DEF PrizeInv, PrizeTypeOK, State
<1>5. \A r \in Signatures : (Pending(r)' => Pending(r)) /\ (MayLand(r)' => MayLand(r))
  <2> TAKE r \in Signatures
  <2>1. CASE r = s BY <2>1, <1>4 DEF Pending, MayLand
  <2>2. CASE r # s BY <2>2, <1>1, <1>4 DEF Pending, MayLand
  <2> QED BY <2>1, <2>2
<1>5a. ~Pending(s)' /\ ~MayLand(s)' BY <1>4 DEF Pending, MayLand
<1>6. PrizeTypeOK'
  <2>1. \A r \in Signatures : tx'[r].state # "unused" => tx'[r].owner \in Wallets
    BY <1>2, <1>4 DEF PrizeInv, PrizeTypeOK
  <2> QED BY <1>1, <1>3, <1>4, <2>1 DEF PrizeInv, PrizeTypeOK
<1>7. ClaimOnRecord'
  <2> SUFFICES ASSUME NEW r \in Signatures, MayLand(r)' PROVE saved'[tx'[r].owner] = r
    BY DEF ClaimOnRecord
  <2>1. r # s BY <1>5a
  <2> QED BY <1>1, <1>4, <1>5, <2>1 DEF PrizeInv, ClaimOnRecord
<1>8. NoneMayLand(panel.owner)'
  <2>1. NonePending(panel.owner) BY <1>1 DEF PrizeInv, PanelKnows
  <2>2. \A r \in Signatures : tx[r].owner = panel.owner => ~MayLand(r)
    BY <1>1, <2>1 DEF Claimable, PaidBy, NonePending, Pending, MayLand
  <2>3. ASSUME NEW r \in Signatures, tx'[r].owner = panel'.owner PROVE ~MayLand(r)'
    <3>1. CASE r = s BY <3>1, <1>5a
    <3>2. CASE r # s BY <3>2, <1>3, <1>4, <1>5, <2>2, <2>3
    <3> QED BY <3>1, <3>2
  <2> QED BY <2>3 DEF NoneMayLand
<1>9. PromptsAreWatched'
  <2>1. \A r \in Signatures : tx'[r].live => r = s
    BY <1>1, <1>4 DEF PrizeInv, PromptsAreWatched
  <2> QED BY <1>3, <1>4, <1>8, <2>1, PrizeClaimAssumption DEF PromptsAreWatched
<1>10. PanelKnows'
  <2>1. \A w : NonePending(w) => NonePending(w)'
    BY <1>4, <1>5, <1>5a DEF NonePending
  <2> QED BY <1>1, <1>3, <2>1 DEF PrizeInv, PanelKnows, MayRetry
<1> QED BY <1>6, <1>7, <1>9, <1>10 DEF PrizeInv

\* A prompt that comes to nothing.
LEMMA DropKeeps ==
  ASSUME PrizeInv, NEW s \in Signatures, tx[s].state = "prompt", Drop(s),
         UNCHANGED <<registered, account, saved>>
  PROVE  PrizeInv'
<1>1. /\ tx' = [tx EXCEPT ![s] = Unused] /\ over' = over \ {s} /\ panel' = Cancelled(s)
  BY DEF Drop
<1>2. /\ tx' \in [Signatures -> [owner : Wallets \cup {None}, state : State, live : BOOLEAN]]
      /\ tx'[s] = Unused
      /\ \A r \in Signatures \ {s} : tx'[r] = tx[r]
  BY <1>1 DEF PrizeInv, PrizeTypeOK, State, Unused
<1>3. ~Pending(s)' /\ ~MayLand(s)' BY <1>2 DEF Pending, MayLand, Unused
<1>4. \A r \in Signatures : (Pending(r)' => Pending(r)) /\ (MayLand(r)' => MayLand(r))
  <2> TAKE r \in Signatures
  <2>1. CASE r = s BY <2>1, <1>3
  <2>2. CASE r # s BY <2>2, <1>1, <1>2 DEF Pending, MayLand
  <2> QED BY <2>1, <2>2
<1>5. ClaimOnRecord'
  <2> SUFFICES ASSUME NEW r \in Signatures, MayLand(r)' PROVE saved'[tx'[r].owner] = r
    BY DEF ClaimOnRecord
  <2>1. r # s BY <1>3
  <2> QED BY <1>2, <1>4, <2>1 DEF PrizeInv, ClaimOnRecord
<1>6. \A w : NonePending(w) => NonePending(w)' BY <1>2, <1>3, <1>4 DEF NonePending
<1>7. /\ panel' # None => panel' \in Panel
      /\ PanelKnows'
      /\ ~tx[s].live => panel' = panel
  <2>1. CASE tx[s].live
    <3>1. panel # None /\ panel.doing = "sign"
      BY <2>1 DEF PrizeInv, PromptsAreWatched
    <3>2. panel' = ClaimEnds(panel.record, TRUE) \/ panel' = [panel EXCEPT !.doing = "idle"]
      BY <1>1, <2>1 DEF Cancelled
    <3> QED BY <1>6, <2>1, <3>1, <3>2, ClaimGivenUp
  <2>2. CASE ~tx[s].live
    <3>1. panel' = panel BY <1>1, <2>2 DEF Cancelled
    <3>2. PanelKnows' BY <1>6, <3>1 DEF PrizeInv, PanelKnows, MayRetry
    <3> QED BY <3>1, <3>2 DEF PrizeInv, PrizeTypeOK
  <2> QED BY <2>1, <2>2
<1>8. PrizeTypeOK'
  <2>1. \A r \in Signatures : tx'[r].state # "unused" => tx'[r].owner \in Wallets
    BY <1>2 DEF PrizeInv, PrizeTypeOK, Unused
  <2> QED BY <1>1, <1>2, <1>7, <2>1 DEF PrizeInv, PrizeTypeOK
<1>9. PromptsAreWatched'
  <2> SUFFICES ASSUME NEW r \in Signatures, tx'[r].live
               PROVE  /\ tx'[r].state = "prompt"
                      /\ panel' # None /\ panel'.doing = "sign" /\ panel'.owner = tx'[r].owner
                      /\ NoneMayLand(tx[r].owner)' /\ tx'[r].owner = tx[r].owner
                      /\ \A t \in Signatures : tx'[t].live => t = r
    BY DEF PromptsAreWatched, NoneMayLand
  <2>1. r # s BY <1>2 DEF Unused
  <2>2. tx[r].live /\ tx'[r] = tx[r] BY <1>2, <2>1
  <2>3. ~tx[s].live BY <2>1, <2>2 DEF PrizeInv, PromptsAreWatched
  <2>4. \A t \in Signatures : tx'[t].live => t = r
    BY <1>2, <2>2 DEF PrizeInv, PromptsAreWatched, Unused
  <2>5. NoneMayLand(tx[r].owner)'
    <3> SUFFICES ASSUME NEW t \in Signatures, tx'[t].owner = tx[r].owner', MayLand(t)'
                 PROVE  FALSE
      BY DEF NoneMayLand
    <3> QED BY <1>2, <1>3, <1>4, <2>2 DEF PrizeInv, PromptsAreWatched, NoneMayLand
  <2> QED BY <1>7, <2>2, <2>3, <2>4, <2>5 DEF PrizeInv, PromptsAreWatched
<1> QED BY <1>5, <1>7, <1>8, <1>9 DEF PrizeInv

LEMMA DeclineKeeps ==
  ASSUME PrizeInv, NEW s \in Signatures, Decline(s)
  PROVE  PrizeInv'
BY DropKeeps DEF Decline, chainVars

\* The one claim that is broadcast is the wallet's only one that may land.
LEMMA ApproveKeeps ==
  ASSUME PrizeInv, NEW s \in Signatures, Approve(s)
  PROVE  PrizeInv'
<1>1. tx[s].state = "prompt" /\ UNCHANGED <<registered, account>> BY DEF Approve, chainVars
<1>2. CASE ~StillAsked(s)
  <2>1. Drop(s) /\ UNCHANGED saved BY <1>2 DEF Approve
  <2> QED BY <1>1, <2>1, DropKeeps
<1>3. CASE StillAsked(s)
  <2> DEFINE w == tx[s].owner
  <2>1. /\ panel # None /\ panel.doing = "sign" /\ panel.owner = w /\ w \in Wallets
        /\ NoneMayLand(w) /\ tx[s].live
        /\ \A t \in Signatures : tx[t].live => t = s
    BY <1>1, <1>3 DEF PrizeInv, PromptsAreWatched, PrizeTypeOK, StillAsked
  <2>2. /\ tx' = [tx EXCEPT ![s].state = "sent", ![s].live = FALSE]
        /\ saved' = [saved EXCEPT ![w] = s]
        /\ panel' = [ClaimEnds(s, FALSE) EXCEPT !.receipt = "pending"]
        /\ over' = over
    BY <1>3, <2>1 DEF Approve, SavedBy
  <2>3. /\ tx' \in [Signatures -> [owner : Wallets \cup {None}, state : State, live : BOOLEAN]]
        /\ tx'[s].owner = w /\ tx'[s].state = "sent" /\ ~tx'[s].live
        /\ \A r \in Signatures \ {s} : tx'[r] = tx[r]
    BY <2>2 DEF PrizeInv, PrizeTypeOK, State
  <2>4. s # None BY PrizeClaimAssumption
  <2>5. /\ panel' \in Panel /\ panel'.doing = "snapshot" /\ panel'.record = s
        /\ panel'.receipt = "pending" /\ panel'.owner = w
    BY <2>1, <2>2, <2>4, PanelTyped DEF ClaimEnds, Panel, Doing, Receipt
  <2>6. PrizeTypeOK'
    <3>1. \A r \in Signatures : tx'[r].state # "unused" => tx'[r].owner \in Wallets
      BY <2>1, <2>3 DEF PrizeInv, PrizeTypeOK
    <3> QED BY <1>1, <2>2, <2>3, <2>5, <3>1 DEF PrizeInv, PrizeTypeOK
  <2>7. ClaimOnRecord'
    <3> SUFFICES ASSUME NEW r \in Signatures, MayLand(r)' PROVE saved'[tx'[r].owner] = r
      BY DEF ClaimOnRecord
    <3>1. CASE r = s BY <3>1, <2>1, <2>2, <2>3 DEF PrizeInv, PrizeTypeOK
    <3>2. CASE r # s
      <4>1. tx'[r] = tx[r] /\ MayLand(r) BY <3>2, <2>2, <2>3 DEF MayLand
      <4>2. tx[r].owner # w BY <4>1, <2>1 DEF NoneMayLand
      <4>3. tx[r].owner \in Wallets BY <4>1 DEF MayLand, PrizeInv, PrizeTypeOK
      <4> QED BY <4>1, <4>2, <4>3, <2>1, <2>2 DEF PrizeInv, PrizeTypeOK, ClaimOnRecord
    <3> QED BY <3>1, <3>2
  <2>8. PromptsAreWatched' BY <2>1, <2>3 DEF PromptsAreWatched
  <2>9. PanelKnows' BY <2>4, <2>5 DEF PanelKnows, MayRetry
  <2> QED BY <2>6, <2>7, <2>8, <2>9 DEF PrizeInv
<1> QED BY <1>2, <1>3

LEMMA PrizeActionKeeps == ASSUME PrizeInv, PrizeAction PROVE PrizeInv'
<1>1. CASE EndSeason BY <1>1, EndSeasonKeeps
<1>2. CASE Refresh \/ RefreshStep \/ ReadFails
  BY <1>2, RefreshKeeps, ReadSnapshotKeeps, ReadStatusKeeps, ReadHeightKeeps, ReadFailsKeeps
  DEF RefreshStep
<1>3. CASE ClaimStep \/ ClaimFails \/ AnswerDropped
  BY <1>3, ClaimKeeps, CheckAgainKeeps, AskKeeps, ClaimFailsKeeps, AnswerDroppedKeeps
  DEF ClaimStep
<1>4. ASSUME NEW s \in Signatures,
             Approve(s) \/ Decline(s) \/ LandClaim(s) \/ Finalize(s) \/ OutOfTime(s)
      PROVE  PrizeInv'
  BY <1>4, ApproveKeeps, DeclineKeeps, LandKeeps, FinalKeeps
<1> QED BY <1>1, <1>2, <1>3, <1>4 DEF PrizeAction

\* A step of the claims leaves the wallet and the owner of the screen alone.
LEMMA PrizeFootprint ==
  ASSUME PrizeInv, PrizeAction
  PROVE  account' = account /\ panel'.owner = panel.owner
<1>1. account' = account
  BY DEF PrizeAction, EndSeason, Refresh, RefreshStep, ReadSnapshot, ReadStatus, ReadHeight,
         ReadFails, ClaimStep, Claim, CheckAgain, Ask, ClaimFails, AnswerDropped,
         Approve, Decline, LandClaim, Finalize, OutOfTime
<1>0. CASE panel = None
  <2>1. \A s \in Signatures : ~tx[s].live BY <1>0 DEF PrizeInv, PromptsAreWatched
  <2>2. panel' = panel
    BY <1>0, <2>1
    DEF PrizeAction, EndSeason, Refresh, RefreshStep, ReadSnapshot, ReadStatus, ReadHeight,
        ReadFails, ClaimStep, Claim, CheckAgain, Ask, ClaimFails, AnswerDropped, Current,
        Approve, Decline, Drop, Cancelled, StillAsked, LandClaim, Finalize, OutOfTime
  <2> QED BY <1>1, <2>2
<1> SUFFICES ASSUME panel # None PROVE panel'.owner = panel.owner
  BY <1>0, <1>1
<1> USE PanelTyped
<1>2. \A r, e : ClaimEnds(r, e).owner = panel.owner BY DEF ClaimEnds, Panel
<1>3. \A r, c, e : Shows(r, c, e) => panel'.owner = panel.owner BY DEF Shows, Panel
<1>4. CASE EndSeason BY <1>4 DEF EndSeason
<1>5. CASE Refresh BY <1>5 DEF Refresh, Panel
<1>6. CASE ReadSnapshot BY <1>3, <1>6 DEF ReadSnapshot, Panel
<1>7. CASE ReadStatus BY <1>3, <1>7 DEF ReadStatus, Panel
<1>8. CASE ReadHeight BY <1>3, <1>8 DEF ReadHeight
<1>9. CASE ReadFails BY <1>3, <1>9 DEF ReadFails, Panel
<1>10. CASE ClaimStep
  <2>1. CASE Claim BY <2>1 DEF Claim, Panel
  <2>2. CASE CheckAgain
    <3>1. panel' = [panel EXCEPT !.doing = "simulate"] \/ panel' = ClaimEnds(panel.record, TRUE)
      BY <2>2 DEF CheckAgain
    <3> QED BY <1>2, <3>1 DEF Panel
  <2>3. ASSUME NEW s \in Signatures, Ask(s) PROVE panel'.owner = panel.owner
    BY <2>3 DEF Ask, Panel
  <2> QED BY <1>10, <2>1, <2>2, <2>3 DEF ClaimStep
<1>11. CASE ClaimFails BY <1>2, <1>11 DEF ClaimFails
<1>12. CASE AnswerDropped BY <1>12 DEF AnswerDropped, Panel
<1>13. ASSUME NEW s \in Signatures, Drop(s) PROVE panel'.owner = panel.owner
  BY <1>2, <1>13 DEF Drop, Cancelled, Panel
<1>14. ASSUME NEW s \in Signatures, Approve(s) PROVE panel'.owner = panel.owner
  <2>1. CASE ~StillAsked(s) BY <1>13, <1>14, <2>1 DEF Approve
  <2>2. CASE StillAsked(s)
    <3>1. panel' = [ClaimEnds(s, FALSE) EXCEPT !.receipt = "pending"] \/ panel' = panel
      BY <1>14, <2>2 DEF Approve
    <3> QED BY <3>1 DEF ClaimEnds, Panel
  <2> QED BY <2>1, <2>2
<1>15. ASSUME NEW s \in Signatures, Decline(s) PROVE panel'.owner = panel.owner
  BY <1>13, <1>15 DEF Decline
<1>16. ASSUME NEW s \in Signatures, LandClaim(s) \/ Finalize(s) \/ OutOfTime(s)
       PROVE  panel'.owner = panel.owner
  BY <1>16 DEF LandClaim, Finalize, OutOfTime
<1> QED
  BY <1>4, <1>5, <1>6, <1>7, <1>8, <1>9, <1>10, <1>11, <1>12, <1>14, <1>15, <1>16
  DEF PrizeAction, RefreshStep

-----------------------------------------------------------------------------
(***************************************************************************)
(* Steps of the shell.                                                     *)
(***************************************************************************)

\* What a step of the shell does to the claims: nothing, or the prize screen is
\* mounted or unmounted, and its prompts are left behind.
Remounts ==
  \/ UNCHANGED <<panel, tx>>
  \/ UnmountPrizes
  \/ \E w \in Wallets : MountPrizes(w)

ShellFrame ==
  /\ UNCHANGED <<saved, over>> /\ Remounts
  /\ registered' \subseteq Wallets /\ account' \in Wallets \cup {None}

LEMMA NewPanelTyped ==
  ASSUME NEW w \in Wallets
  PROVE  NewPanel(w) \in Panel /\ NewPanel(w).owner = w
<1>1. NewPanel(w) \in Panel BY DEF NewPanel, Panel, Doing, Receipt, Nothing, Read
<1>2. NewPanel(w).owner = w BY DEF NewPanel
<1> QED BY <1>1, <1>2

LEMMA RemountKeeps == ASSUME PrizeInv, ShellFrame PROVE PrizeInv'
<1>1. CASE UNCHANGED <<panel, tx>>
  <2>1. PrizeTypeOK' BY <1>1 DEF ShellFrame, PrizeInv, PrizeTypeOK
  <2> QED
    BY <1>1, <2>1 DEF ShellFrame, PrizeInv, ClaimOnRecord, MayLand, PromptsAreWatched,
                      NoneMayLand, PanelKnows, NonePending, Pending, MayRetry
<1>2. CASE UnmountPrizes \/ \E w \in Wallets : MountPrizes(w)
  <2>1. tx' = LeftBehind BY <1>2 DEF UnmountPrizes, MountPrizes
  <2>2. /\ tx' \in [Signatures -> [owner : Wallets \cup {None}, state : State, live : BOOLEAN]]
        /\ \A s \in Signatures : /\ tx'[s].owner = tx[s].owner /\ tx'[s].state = tx[s].state
                                 /\ ~tx'[s].live
    BY <2>1 DEF LeftBehind, PrizeInv, PrizeTypeOK
  <2>3. panel' # None =>
          /\ panel' \in Panel /\ panel'.doing = "snapshot" /\ ~panel'.claimable
          /\ panel'.record = None
    <3>1. \A w \in Wallets : NewPanel(w) \in Panel BY NewPanelTyped
    <3>2. CASE UnmountPrizes BY <3>2 DEF UnmountPrizes
    <3>3. ASSUME NEW w \in Wallets, MountPrizes(w)
          PROVE  /\ panel' \in Panel /\ panel'.doing = "snapshot" /\ ~panel'.claimable
                 /\ panel'.record = None
      BY <3>1, <3>3 DEF MountPrizes, NewPanel
    <3> QED BY <1>2, <3>2, <3>3
  <2>4. PrizeTypeOK'
    <3>1. \A r \in Signatures : tx'[r].state # "unused" => tx'[r].owner \in Wallets
      BY <2>2 DEF PrizeInv, PrizeTypeOK
    <3> QED BY <2>2, <2>3, <3>1 DEF ShellFrame, PrizeInv, PrizeTypeOK
  <2>5. ClaimOnRecord' BY <2>2 DEF ShellFrame, PrizeInv, ClaimOnRecord, MayLand
  <2>6. PromptsAreWatched' BY <2>2 DEF PromptsAreWatched
  <2>7. PanelKnows' BY <2>3 DEF PanelKnows
  <2> QED BY <2>4, <2>5, <2>6, <2>7 DEF PrizeInv
<1> QED BY <1>1, <1>2 DEF ShellFrame, Remounts

LEMMA MountRemounts ==
  ASSUME NEW name, Mount(name), name = "prizes" => account \in Wallets
  PROVE  Remounts /\ screen' = name /\ (name = "prizes" => panel'.owner = account)
BY NewPanelTyped DEF Mount, Remounts, MountPrizes

\* What is overtaken is no longer current, and as well formed as before.
LEMMA OvertakenOK ==
  ASSUME NEW J, \A j \in J : JobOK(j), NEW k \in Overtaken(J)
  PROVE  JobOK(k) /\ ~k.current
<1>1. PICK j \in J : k = [j EXCEPT !.current = FALSE] BY DEF Overtaken
<1>2. JobOK(j) BY <1>1
<1> QED BY <1>1, <1>2 DEF JobOK

\* The wallet screen: nothing is cached, and nothing under way counts any more.
LEMMA ShowWalletKeeps ==
  ASSUME ShellInv, NEW J \in SUBSET jobs, ShowWallet(J)
  PROVE  ShellInv' /\ Remounts
<1>1. /\ screen' = "welcome" /\ session' = None /\ jobs' = Overtaken(J) /\ Remounts
  BY MountRemounts DEF ShowWallet
<1>2. \A j \in jobs' : JobOK(j) BY <1>1, OvertakenOK DEF ShellInv, ShellTypeOK
<1> QED
  BY <1>1, <1>2 DEF ShellInv, ShellTypeOK, SessionCleared, Mounted, OnlyHomeReads,
                    SessionIsWallets, ScreenIsWallets, ScreenStays

\* A screen of the game for the wallet whose collection is cached.
LEMMA NavigateKeeps ==
  ASSUME ShellInv, account \in Wallets \cup {None}, NEW J \in SUBSET jobs,
         NEW name \in {"game", "prizes"}, NEW owner \in Wallets \cup {None},
         NavigateTo(name, J, owner), UNCHANGED <<account, notice>>,
         notice = None => owner \in {account, None}
  PROVE  ShellInv' /\ Remounts
<1>1. CASE owner = None \/ account = None BY <1>1, ShowWalletKeeps DEF NavigateTo
<1>2. CASE owner # None /\ account # None
  <2>1. /\ screen' = name /\ session' = owner /\ jobs' = Overtaken(J) /\ Remounts
        /\ name = "prizes" => panel'.owner = account
    BY <1>2, MountRemounts DEF NavigateTo
  <2>2. \A j \in jobs' : JobOK(j) /\ ~j.current
    BY <2>1, OvertakenOK DEF ShellInv, ShellTypeOK
  <2> QED
    BY <1>2, <2>1, <2>2 DEF ShellInv, ShellTypeOK, SessionCleared, Mounted,
       OnlyHomeReads, SessionIsWallets, ScreenIsWallets, ScreenStays
<1> QED BY <1>1, <1>2

\* The screen stays, and what comes under way is only what home or a wallet
\* without a cached collection asks for; a wallet may answer that none was before.
LEMMA StayKeeps ==
  ASSUME AppInv, Stay, UNCHANGED <<session, notice>>, account' = account \/ account = None,
         \A j \in jobs' : JobOK(j) /\ (j \in jobs \/ ~j.current \/ session = None)
  PROVE  ShellInv' /\ Remounts
<1>1. UNCHANGED <<screen, panel, tx>> BY DEF Stay
<1>2. ScreenIsWallets' /\ SessionIsWallets'
  <2>1. CASE account' = account
    BY <1>1, <2>1 DEF AppInv, ShellInv, ScreenIsWallets, SessionIsWallets
  <2>2. CASE account = None
    <3> SUFFICES ASSUME notice = None
                 PROVE  session = None /\ screen \notin {"game", "prizes"}
      BY <1>1 DEF ScreenIsWallets, SessionIsWallets
    <3>1. session = None BY <2>2 DEF AppInv, ShellInv, SessionIsWallets
    <3>2. screen # "game" BY <3>1 DEF AppInv, ShellInv, Mounted
    <3>3. screen = "prizes" => panel.owner \in Wallets /\ panel.owner = None
      BY <2>2 DEF AppInv, ShellInv, Mounted, ScreenIsWallets
    <3> QED BY <3>1, <3>2, <3>3, PrizeClaimAssumption
  <2> QED BY <2>1, <2>2
<1> QED
  BY <1>1, <1>2 DEF Remounts, AppInv, ShellInv, ShellTypeOK, SessionCleared, Mounted,
                    OnlyHomeReads, ScreenStays

\* What each step of the shell keeps.
Kept == ShellInv' /\ ShellFrame

\* The frame of the steps that leave the chain, the wallet and the record alone.
LEMMA FrameOf ==
  ASSUME PrizeInv, ShellUnchanged, ShellInv', Remounts
  PROVE  Kept
BY DEF PrizeInv, PrizeTypeOK, ShellUnchanged, chainVars, Kept, ShellFrame

LEMMA JobsTyped == ASSUME ShellInv PROVE \A j \in jobs : JobOK(j)
BY DEF ShellInv, ShellTypeOK

LEMMA PressConnectKeeps == ASSUME AppInv, PressConnect PROVE Kept
<1>1. session = None /\ jobs' = jobs \cup {Job("connect", "wallet", None)}
  BY DEF PressConnect, AppInv, ShellInv, SessionCleared
<1>2. JobOK(Job("connect", "wallet", None)) BY DEF JobOK, Job, Kinds, Steps
<1>3. ShellInv' /\ Remounts
  BY <1>1, <1>2, JobsTyped, StayKeeps DEF AppInv, PressConnect, ShellUnchanged
<1> QED BY <1>3, FrameOf DEF AppInv, PressConnect

\* Whatever only drops a request.
LEMMA DroppedKeeps ==
  ASSUME AppInv, NEW j, jobs' = jobs \ {j}, Stay, UNCHANGED <<session, notice>>,
         ShellUnchanged
  PROVE  Kept
<1>1. ShellInv' /\ Remounts
  BY JobsTyped, StayKeeps DEF AppInv, ShellUnchanged
<1> QED BY <1>1, FrameOf DEF AppInv

LEMMA ShowWalletStepKeeps ==
  ASSUME AppInv, NEW J \in SUBSET jobs, ShowWallet(J), ShellUnchanged
  PROVE  Kept
BY ShowWalletKeeps, FrameOf DEF AppInv

LEMMA RefusedKeeps == ASSUME AppInv, NEW j, Refused(j) PROVE Kept
BY DroppedKeeps DEF Refused

LEMMA RegisterFailedKeeps == ASSUME AppInv, NEW j, RegisterFailed(j) PROVE Kept
BY DroppedKeeps DEF RegisterFailed

LEMMA ReadFailedKeeps == ASSUME AppInv, NEW j, ReadFailed(j) PROVE Kept
BY DroppedKeeps, ShowWalletStepKeeps DEF ReadFailed

LEMMA ExistsReadKeeps == ASSUME AppInv, NEW j, ExistsRead(j) PROVE Kept
<1>1. /\ j \in jobs /\ j.step = "exists" /\ ShellUnchanged /\ notice' = notice
      /\ JobOK(j) /\ j.owner \in Wallets /\ j.kind = "start"
  BY JobsTyped DEF ExistsRead, AppInv, JobOK
<1>2. CASE ~j.current BY <1>1, <1>2, DroppedKeeps DEF ExistsRead
<1>3. CASE j.current /\ account # j.owner BY <1>1, <1>3, ShowWalletStepKeeps DEF ExistsRead
<1>4. CASE j.current /\ account = j.owner
  <2>1. session = None BY <1>1, <1>4 DEF AppInv, ShellInv, OnlyHomeReads
  <2>2. /\ Stay /\ session' = session
        /\ \/ jobs' = Load("start", jobs \ {j})
           \/ jobs' = (jobs \ {j}) \cup {[j EXCEPT !.step = "world"]}
    BY <1>1, <1>4 DEF ExistsRead
  <2>3. JobOK(Job("start", "load", account)) BY <1>1, <1>4 DEF JobOK, Job, Kinds, Steps
  <2>4. JobOK([j EXCEPT !.step = "world"]) BY <1>1 DEF JobOK, Steps
  <2>5. ShellInv' /\ Remounts
    BY <1>1, <2>1, <2>2, <2>3, <2>4, JobsTyped, StayKeeps DEF AppInv, Load, ShellUnchanged
  <2> QED BY <1>1, <2>5, FrameOf DEF AppInv
<1> QED BY <1>2, <1>3, <1>4

LEMMA WorldReadKeeps == ASSUME AppInv, NEW j, WorldRead(j) PROVE Kept
<1>1. /\ j \in jobs /\ j.step = "world" /\ ShellUnchanged /\ UNCHANGED <<session, notice>>
      /\ JobOK(j) /\ j.owner \in Wallets /\ j.kind = "start" /\ jobs' = jobs \ {j}
  BY JobsTyped DEF WorldRead, AppInv, JobOK
<1>2. CASE ~(j.current /\ account = j.owner) BY <1>1, <1>2, DroppedKeeps DEF WorldRead
<1>3. CASE j.current /\ account = j.owner
  <2>1. session = None /\ account \in Wallets
    BY <1>1, <1>3 DEF AppInv, ShellInv, OnlyHomeReads
  <2>2. PICK name \in {"prizes", "register"} : Mount(name) BY <1>1, <1>3 DEF WorldRead
  <2>3. Remounts /\ screen' = name /\ (name = "prizes" => panel'.owner = account)
    BY <2>1, <2>2, MountRemounts
  <2>4. ShellInv'
    BY <1>1, <2>1, <2>3 DEF AppInv, ShellInv, ShellTypeOK, SessionCleared, Mounted,
       OnlyHomeReads, SessionIsWallets, ScreenIsWallets, ScreenStays, ShellUnchanged
  <2> QED BY <1>1, <2>3, <2>4, FrameOf DEF AppInv
<1> QED BY <1>2, <1>3

LEMMA LoadedKeeps == ASSUME AppInv, NEW j, Loaded(j) PROVE Kept
<1>1. /\ j \in jobs /\ ShellUnchanged /\ notice' = notice /\ j.owner \in Wallets
  BY JobsTyped DEF Loaded, AppInv, JobOK
<1>2. CASE Commits(j)
  <2>1. PICK name \in {"game", "prizes"} : NavigateTo(name, jobs \ {j}, j.owner)
    BY <1>2 DEF Loaded
  <2>2. account = j.owner BY <1>2 DEF Commits
  <2>3. ShellInv' /\ Remounts
    BY <1>1, <2>1, <2>2, NavigateKeeps DEF AppInv, ShellUnchanged
  <2> QED BY <1>1, <2>3, FrameOf DEF AppInv
<1>3. CASE ~Commits(j) BY <1>1, <1>3, DroppedKeeps, ShowWalletStepKeeps DEF Loaded
<1> QED BY <1>2, <1>3

LEMMA NavigateStepKeeps ==
  ASSUME AppInv, NEW name \in {"game", "prizes"}, Navigate(name)
  PROVE  Kept
<1>1. ShellInv' /\ Remounts
  BY NavigateKeeps
  DEF Navigate, AppInv, ShellInv, ShellTypeOK, SessionIsWallets, PrizeInv, PrizeTypeOK,
      ShellUnchanged
<1> QED BY <1>1, FrameOf DEF Navigate, AppInv

LEMMA HomeKeeps == ASSUME AppInv, Home PROVE Kept
<1>1. /\ ShellUnchanged /\ UNCHANGED <<session, notice>> /\ Mount("loading")
      /\ account \in Wallets \cup {None}
  BY DEF Home, AppInv, PrizeInv, PrizeTypeOK
<1>2. Remounts /\ screen' = "loading" BY <1>1, MountRemounts
<1>3. \A j \in jobs' : JobOK(j) /\ (j.current => j.kind = "home")
  <2>1. CASE account = None
    <3>1. jobs' = Overtaken(jobs) \cup {Job("home", "throws", None)} BY <2>1 DEF Home
    <3>2. JobOK(Job("home", "throws", None)) /\ Job("home", "throws", None).kind = "home"
      BY DEF JobOK, Job, Kinds, Steps
    <3> QED BY <3>1, <3>2, OvertakenOK, JobsTyped DEF AppInv
  <2>2. CASE account # None
    <3>1. jobs' = Overtaken(jobs) \cup {Job("home", "load", account)}
      BY <2>2 DEF Home, Load
    <3>2. JobOK(Job("home", "load", account)) /\ Job("home", "load", account).kind = "home"
      BY <1>1, <2>2 DEF JobOK, Job, Kinds, Steps
    <3> QED BY <3>1, <3>2, OvertakenOK, JobsTyped DEF AppInv
  <2> QED BY <2>1, <2>2
<1>4. ShellInv'
  BY <1>1, <1>2, <1>3 DEF AppInv, ShellInv, ShellTypeOK, SessionCleared, Mounted,
     OnlyHomeReads, SessionIsWallets, ScreenIsWallets, ScreenStays, ShellUnchanged
<1> QED BY <1>1, <1>2, <1>4, FrameOf DEF AppInv

LEMMA PressRegisterKeeps == ASSUME AppInv, PressRegister PROVE Kept
<1>1. ShellUnchanged /\ notice' = notice /\ session = None /\ account \in Wallets \cup {None}
  BY DEF PressRegister, AppInv, ShellInv, SessionCleared, PrizeInv, PrizeTypeOK
<1>2. CASE account = None BY <1>1, <1>2, ShowWalletStepKeeps DEF PressRegister
<1>3. CASE account # None
  <2>1. /\ jobs' = jobs \cup {Job("register", "transaction", account)}
        /\ Stay /\ session' = session
    BY <1>3 DEF PressRegister
  <2>2. JobOK(Job("register", "transaction", account))
    BY <1>1, <1>3 DEF JobOK, Job, Kinds, Steps
  <2>3. ShellInv' /\ Remounts
    BY <1>1, <2>1, <2>2, JobsTyped, StayKeeps DEF AppInv, ShellUnchanged
  <2> QED BY <1>1, <2>3, FrameOf DEF AppInv
<1> QED BY <1>2, <1>3

LEMMA RegisterConfirmedKeeps == ASSUME AppInv, NEW j, RegisterConfirmed(j) PROVE Kept
<1>1. /\ j \in jobs /\ j.kind = "register" /\ j.owner \in Wallets
      /\ registered' = registered \cup {j.owner}
      /\ UNCHANGED <<account, saved, over, notice>>
  BY JobsTyped DEF RegisterConfirmed, AppInv, JobOK
<1>2. ShellInv' /\ Remounts
  <2>1. CASE ~(j.current /\ account = j.owner)
    <3>1. jobs' = jobs \ {j} /\ Stay /\ session' = session
      BY <2>1 DEF RegisterConfirmed
    <3> QED BY <1>1, <3>1, JobsTyped, StayKeeps DEF AppInv
  <2>2. CASE j.current /\ account = j.owner
    <3>1. Start(jobs \ {j}) BY <2>2 DEF RegisterConfirmed
    <3>2. CASE account = None BY <3>1, <3>2, ShowWalletKeeps DEF Start, AppInv
    <3>3. CASE account # None
      <4>1. /\ jobs' = Overtaken(jobs \ {j}) \cup {Job("start", "exists", account)}
            /\ Stay /\ session' = session
        BY <3>1, <3>3 DEF Start
      <4>2. JobOK(Job("start", "exists", account))
        BY <1>1, <2>2 DEF JobOK, Job, Kinds, Steps
      <4>3. session = None BY <1>1, <2>2 DEF AppInv, ShellInv, OnlyHomeReads
      <4>4. \A k \in jobs' : JobOK(k) BY <4>1, <4>2, OvertakenOK, JobsTyped DEF AppInv
      <4> QED BY <1>1, <4>1, <4>3, <4>4, StayKeeps DEF AppInv
    <3> QED BY <3>2, <3>3
  <2> QED BY <2>1, <2>2
<1> QED BY <1>1, <1>2 DEF Kept, ShellFrame, AppInv, PrizeInv, PrizeTypeOK

LEMMA PressDisconnectKeeps == ASSUME AppInv, PressDisconnect PROVE Kept
<1>1. session = None /\ jobs' = jobs \cup {Job("disconnect", "wallet", None)}
  BY DEF PressDisconnect, AppInv, ShellInv, SessionCleared
<1>2. JobOK(Job("disconnect", "wallet", None)) BY DEF JobOK, Job, Kinds, Steps
<1>3. ShellInv' /\ Remounts
  BY <1>1, <1>2, JobsTyped, StayKeeps DEF AppInv, PressDisconnect, ShellUnchanged
<1> QED BY <1>3, FrameOf DEF AppInv, PressDisconnect

\* The wallet has let go of its key, or not; what is mounted and no longer the
\* wallet's will be told.
LEMMA DisconnectedKeeps == ASSUME AppInv, NEW j, Disconnected(j) PROVE Kept
<1>1. /\ account' \in {account, None} /\ UNCHANGED <<registered, saved, over>>
      /\ notice' = IF account' # account /\ notice = None THEN "disconnect" ELSE notice
  BY DEF Disconnected, chainVars
<1>2. CASE j.current
  <2>1. ShowWallet(jobs \ {j}) BY <1>2 DEF Disconnected
  <2>2. ShellInv' /\ Remounts BY <2>1, ShowWalletKeeps DEF AppInv
  <2> QED BY <1>1, <2>2 DEF Kept, ShellFrame, AppInv, PrizeInv, PrizeTypeOK
<1>3. CASE ~j.current
  <2>1. jobs' = jobs \ {j} /\ Stay /\ UNCHANGED session BY <1>3 DEF Disconnected
  <2>2. "disconnect" # None BY AppShellAssumption DEF Notices
  <2>3. notice' = None => notice = None /\ account' = account BY <1>1, <2>2
  <2>4. ShellInv'
    BY <2>1, <2>3 DEF Stay, AppInv, ShellInv, ShellTypeOK, SessionCleared, Mounted,
       OnlyHomeReads, SessionIsWallets, ScreenIsWallets, ScreenStays
  <2> QED BY <1>1, <2>1, <2>4 DEF Kept, ShellFrame, Stay, Remounts, AppInv, PrizeInv, PrizeTypeOK
<1> QED BY <1>2, <1>3

\* The wallet answers.  Where it could be asked, no game was mounted.
LEMMA ConnectedKeeps ==
  ASSUME AppInv, NEW j, NEW w \in Wallets, Connected(j, w)
  PROVE  Kept
<1>1. /\ j \in jobs /\ j.kind = "connect" /\ account' = w /\ (account # None => w = account)
      /\ Stay /\ UNCHANGED <<registered, saved, over, session, notice>>
  BY DEF Connected, chainVars
<1>2. \A k \in jobs' : JobOK(k) /\ (k \in jobs \/ session = None)
  <2>1. CASE j.current
    <3>1. jobs' = Overtaken(jobs \ {j}) \cup {Job("start", "exists", w)}
      BY <2>1 DEF Connected
    <3>2. JobOK(Job("start", "exists", w)) BY DEF JobOK, Job, Kinds, Steps
    <3>3. session = None BY <1>1, <2>1 DEF AppInv, ShellInv, OnlyHomeReads
    <3> QED BY <3>1, <3>2, <3>3, OvertakenOK, JobsTyped DEF AppInv
  <2>2. CASE ~j.current
    <3>1. jobs' = jobs \ {j} BY <2>2 DEF Connected
    <3> QED BY <3>1, JobsTyped DEF AppInv
  <2> QED BY <2>1, <2>2
<1>3. ShellInv' /\ Remounts BY <1>1, <1>2, StayKeeps
<1> QED BY <1>1, <1>3 DEF Kept, ShellFrame, AppInv, PrizeInv, PrizeTypeOK

\* The wallet changes: until the shell is told it promises nothing.
LEMMA WalletChangesKeeps ==
  ASSUME AppInv, NEW w \in Wallets \cup {None}, WalletChanges(w)
  PROVE  Kept
<1>1. /\ account' = w /\ notice' \in Notices /\ Stay
      /\ UNCHANGED <<registered, saved, over, session, jobs>>
  BY DEF WalletChanges, Notices, chainVars
<1>2. notice' # None BY <1>1, AppShellAssumption
<1>3. ShellInv'
  BY <1>1, <1>2 DEF Stay, AppInv, ShellInv, ShellTypeOK, SessionCleared, Mounted,
     OnlyHomeReads, SessionIsWallets, ScreenIsWallets, ScreenStays
<1> QED BY <1>1, <1>3 DEF Kept, ShellFrame, Stay, Remounts, AppInv, PrizeInv, PrizeTypeOK

\* The shell is told: it starts again.
LEMMA NotifiedKeeps == ASSUME AppInv, Notified PROVE Kept
<1>1. UNCHANGED <<registered, saved, over>> BY DEF Notified, chainVars
<1>2. CASE notice = "disconnect"
  <2>1. ShowWallet(jobs) /\ account' = account BY <1>2 DEF Notified
  <2>2. ShellInv' /\ Remounts BY <2>1, ShowWalletKeeps DEF AppInv
  <2> QED BY <1>1, <2>1, <2>2 DEF Kept, ShellFrame, AppInv, PrizeInv, PrizeTypeOK
<1>3. CASE notice # "disconnect"
  <2>1. /\ screen' = "welcome" /\ session' = None /\ account' \in {account, None}
        /\ Remounts
        /\ jobs' = IF account' = None THEN {} ELSE {Job("start", "exists", account')}
    BY <1>3 DEF Notified, Remounts
  <2>2. account' \in Wallets \cup {None} BY <2>1 DEF AppInv, PrizeInv, PrizeTypeOK
  <2>3. \A j \in jobs' : JobOK(j)
    <3>1. account' # None => JobOK(Job("start", "exists", account'))
      BY <2>2 DEF JobOK, Job, Kinds, Steps
    <3> QED BY <2>1, <3>1
  <2>4. ShellInv'
    BY <2>1, <2>3 DEF ShellInv, ShellTypeOK, SessionCleared, Mounted, OnlyHomeReads,
       SessionIsWallets, ScreenIsWallets, ScreenStays
  <2> QED BY <1>1, <2>1, <2>2, <2>4 DEF Kept, ShellFrame, AppInv, PrizeInv, PrizeTypeOK
<1> QED BY <1>2, <1>3

-----------------------------------------------------------------------------
(***************************************************************************)
(* The invariant, and what follows from it.                                *)
(***************************************************************************)
LEMMA AppInit == ShellInit => AppInv
<1> SUFFICES ASSUME ShellInit PROVE AppInv
  OBVIOUS
<1>1. PrizeTypeOK
  BY DEF ShellInit, PrizeInit, PrizeTypeOK, Unused, State
<1>2. ClaimOnRecord /\ PromptsAreWatched /\ PanelKnows
  BY DEF ShellInit, PrizeInit, ClaimOnRecord, MayLand, Unused, PromptsAreWatched, PanelKnows
<1>3. ShellInv
  BY DEF ShellInit, ShellInv, ShellTypeOK, SessionCleared, Mounted, OnlyHomeReads,
     SessionIsWallets, ScreenIsWallets, ScreenStays
<1> QED BY <1>1, <1>2, <1>3 DEF AppInv, PrizeInv

LEMMA ShellActionKeeps == ASSUME AppInv, ShellAction PROVE AppInv'
<1>1. CASE PressConnect \/ Home \/ PressRegister \/ PressDisconnect \/ Notified
  BY <1>1, PressConnectKeeps, HomeKeeps, PressRegisterKeeps, PressDisconnectKeeps,
     NotifiedKeeps, RemountKeeps DEF Kept, AppInv
<1>2. ASSUME NEW j \in jobs,
             \/ Refused(j) \/ ReadFailed(j) \/ ExistsRead(j) \/ WorldRead(j) \/ Loaded(j)
             \/ RegisterConfirmed(j) \/ RegisterFailed(j) \/ Disconnected(j)
             \/ \E w \in Wallets : Connected(j, w)
      PROVE  AppInv'
  <2>1. Kept
    BY <1>2, RefusedKeeps, ReadFailedKeeps, ExistsReadKeeps, WorldReadKeeps, LoadedKeeps,
       RegisterConfirmedKeeps, RegisterFailedKeeps, DisconnectedKeeps, ConnectedKeeps
  <2> QED BY <2>1, RemountKeeps DEF Kept, AppInv
<1>3. ASSUME NEW name \in {"game", "prizes"}, Navigate(name) PROVE AppInv'
  BY <1>3, NavigateStepKeeps, RemountKeeps DEF Kept, AppInv
<1>4. ASSUME NEW w \in Wallets \cup {None}, WalletChanges(w) PROVE AppInv'
  BY <1>4, WalletChangesKeeps, RemountKeeps DEF Kept, AppInv
<1> QED BY <1>1, <1>2, <1>3, <1>4 DEF ShellAction

\* A step of the claims in a shell that stays as it is.
LEMMA ClaimsInShell == ASSUME AppInv, PrizeAction, PrizesUnchanged PROVE AppInv'
<1>1. PrizeInv' BY PrizeActionKeeps DEF AppInv
<1>2. account' = account /\ panel'.owner = panel.owner BY PrizeFootprint DEF AppInv
<1>3. ShellInv'
  BY <1>2 DEF PrizesUnchanged, shellVars, AppInv, ShellInv, ShellTypeOK,
     SessionCleared, Mounted, OnlyHomeReads, SessionIsWallets, ScreenIsWallets, ScreenStays
<1> QED BY <1>1, <1>3 DEF AppInv

LEMMA AppInvariant == AppSpec => []AppInv
<1>1. ASSUME AppInv, [AppNext]_appVars PROVE AppInv'
  <2>1. CASE ShellAction BY <1>1, <2>1, ShellActionKeeps
  <2>2. CASE PrizeAction /\ PrizesUnchanged BY <1>1, <2>2, ClaimsInShell
  <2>3. CASE UNCHANGED appVars
    BY <1>1, <2>3 DEF appVars, prizeVars, chainVars, shellVars, AppInv, PrizeInv, PrizeTypeOK,
       ClaimOnRecord, MayLand, PromptsAreWatched, NoneMayLand, PanelKnows, NonePending,
       Pending, MayRetry, ShellInv, ShellTypeOK, SessionCleared, Mounted, OnlyHomeReads,
       SessionIsWallets, ScreenIsWallets, ScreenStays
  <2> QED BY <1>1, <2>1, <2>2, <2>3 DEF AppNext
<1> QED BY <1>1, AppInit, PTL DEF AppSpec

\* The claim that may pay a wallet, or has paid it, is the one it has on record,
\* whatever was reloaded, declined or answered late (prizes.js, prize-screen.js).
THEOREM ClaimsAreOnRecord == AppSpec => []ClaimOnRecord
BY AppInvariant, PTL DEF AppInv, PrizeInv

\* At most one claim of a wallet has paid or still may: the claims that may land
\* are all the one signature on record (prizes.js: never resend blindly).
THEOREM NoSecondClaim == AppSpec => []OneClaimMayLand
<1>1. ASSUME AppInv PROVE OneClaimMayLand
  <2> SUFFICES ASSUME NEW w \in Wallets
               PROVE  Cardinality({s \in Signatures : tx[s].owner = w /\ MayLand(s)}) <= 1
    BY DEF OneClaimMayLand
  <2> DEFINE L == {s \in Signatures : tx[s].owner = w /\ MayLand(s)}
  <2>1. L \subseteq {saved[w]} BY <1>1 DEF AppInv, PrizeInv, ClaimOnRecord
  <2>2. L = {} \/ L = {saved[w]} BY <2>1
  <2>3. Cardinality({}) = 0 /\ Cardinality({saved[w]}) = 1 BY FS_EmptySet, FS_Singleton
  <2>4. Cardinality(L) \in {0, 1} BY <2>2, <2>3
  <2> QED BY <2>4
<1> QED BY <1>1, AppInvariant, PTL

\* Once the shell was told of every change of the wallet, what is on the screen
\* is the connected wallet's: no late read brings back another's (live-app.js).
THEOREM NobodyElsesScreen == AppSpec => []ScreenIsWallets
BY AppInvariant, PTL DEF AppInv, ShellInv

\* A mounted screen of the game is replaced only by the player or the wallet
\* (live-app.js, generation).
THEOREM NothingReplacesIt == AppSpec => []ScreenStays
BY AppInvariant, PTL DEF AppInv, ShellInv
=============================================================================
