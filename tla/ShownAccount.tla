---------------------------- MODULE ShownAccount ----------------------------
(***************************************************************************)
(* Whose data the screen shows. Balance, history, outputs, ordinals and    *)
(* locks are set one by one by whatever was read last; loads of several    *)
(* accounts overlap when the user moves from one to another. The screen    *)
(* shows them once scopedDataAccountId is the active account; a snapshot   *)
(* of what it shows is kept for each account, to be shown again at once.   *)
(*                                                                         *)
(* A load compares the version it captured with fetchVersionRef, which a   *)
(* switch increments; performSync compares account ids. These comparisons  *)
(* do not reach everything: "stray" is a history variable, of slices that  *)
(* were last set by what they let through. No guard reads it.              *)
(***************************************************************************)
EXTENDS Naturals, FiniteSets

CONSTANTS
    Account,
    Nobody,         \* no account, no snapshot
    First,          \* the account shown at the start
    Watches,        \* sets of slices, of which a behaviour follows one
    SnapshotLimit,  \* ACCOUNT_SNAPSHOT_CACHE_LIMIT
    MaxAsks,        \* bound on switches the user asks for
    MaxWorks,       \* bound on operations and refreshes the user starts
    MaxFaults       \* bound on failures

ASSUME AccountAssumption == Nobody \notin Account /\ First \in Account
Slices == {"balance", "ordBalance", "history", "utxos", "ordinals", "locks"}
Parts == Slices \cup {"scope"}
Unreadable == {"balance", "history", "utxos", "locks"}   \* what fetchDataFromDB may miss

\* No step reads one slice to set another: any of them can be followed alone, and the
\* program is what follows all of them.
ASSUME WatchesAssumption == Watches \subseteq SUBSET Slices

ASSUME BoundAssumption == {SnapshotLimit, MaxAsks, MaxWorks, MaxFaults} \subseteq Nat

VARIABLES
    watched,    \* the slices that are followed
    now,        \* what was last set: wallet, account id, scope, and owner of each slice
    screen,     \* what is rendered, which is what callbacks and refs refer to
    snapshots,  \* accountSnapshotCacheRef
    op,         \* the switch under way (switchingRef)
    queued,     \* pendingSwitchRef
    loads,      \* what is loading: fetches, and the syncs and operations before them
    detections, \* detections of locks
    asks, works, faults

vars == <<watched, now, screen, snapshots, op, queued, loads, detections, asks, works, faults>>

View == [wallet : Account, id : Account, scoped : Account, slices : [Slices -> Account],
         stray : SUBSET Parts]
Snapshot == [slices : [Slices -> Account], stray : SUBSET Slices]
Load == [kind : {"check", "blocking", "manual", "preload"},
         pc : {"deciding", "working", "syncing", "totals", "activity", "merging", "rows", "balance",
               "ordBalance", "history", "locks", "ordinals", "content", "utxos"},
         id : Account, keys : Account,
         current : BOOLEAN,     \* fetchVersionRef still is what the load captured
         loose : BOOLEAN,       \* history: what it captured was not of one moment
         cancelled : BOOLEAN]   \* the effect that started it was superseded
Detection == [pc : {"detecting", "reconciling"}, id : Account, keys : Account,
              current : BOOLEAN, loose : BOOLEAN]

\* One invariant for the types of all variables.
TypeOK ==
    /\ watched \in Watches
    /\ now \in View /\ screen \in View
    /\ snapshots \in [Account -> {Nobody} \cup Snapshot]
    /\ op \in [pc : {"idle", "keys", "rows"}, to : Account \cup {Nobody}]
    /\ queued \in Account \cup {Nobody}
    /\ loads \subseteq Load /\ detections \subseteq Detection
    /\ asks \in 0..MaxAsks /\ works \in 0..MaxWorks /\ faults \in 0..MaxFaults

AllOf(a) == [s \in Slices |-> a]
Shows(a) == [wallet |-> a, id |-> a, scoped |-> a, slices |-> AllOf(a), stray |-> {}]
Taken(view) == [slices |-> view.slices, stray |-> view.stray \ {"scope"}]

\* A load as it starts: what the callbacks of the last render refer to.
NewLoad(kind, pc) ==
    [kind |-> kind, pc |-> pc, id |-> screen.id, keys |-> screen.wallet, current |-> TRUE,
     loose |-> FALSE, cancelled |-> FALSE]

\* The wallet was opened, and its rows are shown. The first check of its account ended,
\* or it runs: no switch preceded it, so it reads the rows again.
Init ==
    /\ watched \in Watches
    /\ now = Shows(First) /\ screen = Shows(First)
    /\ snapshots = [a \in Account |-> IF a = First THEN Taken(Shows(First)) ELSE Nobody]
    /\ op = [pc |-> "idle", to |-> Nobody] /\ queued = Nobody
    /\ loads \in {{}, {NewLoad("check", "rows")}, {NewLoad("blocking", "rows")}}
    /\ detections = {}
    /\ asks = 0 /\ works = 0 /\ faults = 0

(***************************************************************************)
(* Rendering.                                                              *)
(***************************************************************************)
\* AccountSnapshotCache.set: beyond the limit another snapshot goes; which one
\* (the one used longest ago) is left open.
Remember(a, snapshot) ==
    LET with == [snapshots EXCEPT ![a] = snapshot]
        kept == {b \in Account : with[b] # Nobody}
    IN IF Cardinality(kept) <= SnapshotLimit
         THEN snapshots' = with
         ELSE \E b \in kept \ {a} : snapshots' = [with EXCEPT ![b] = Nobody]

\* The effect of useCheckSync: when the account changed, its checks are
\* superseded and one for the new account starts; the switch has loaded its rows.
ChecksAgain ==
    {[l EXCEPT !.cancelled = l.kind = "check"] : l \in loads}
      \cup {[NewLoad("check", "deciding") EXCEPT !.id = now.id, !.keys = now.wallet]}

\* What was set is rendered; then the effects run.
Render ==
    /\ screen # now
    /\ screen' = now
    /\ IF now.scoped = now.id THEN Remember(now.id, Taken(now)) ELSE UNCHANGED snapshots
    /\ loads' = IF now.id # screen.id THEN ChecksAgain ELSE loads
    /\ UNCHANGED <<watched, now, op, queued, detections, asks, works, faults>>

(***************************************************************************)
(* A switch (useAccountSwitching).                                         *)
(***************************************************************************)
Outdated(S) == {[l EXCEPT !.current = FALSE] : l \in S}

\* switchAccount up to its first await.
Begins(a, S) ==
    /\ op' = [pc |-> "keys", to |-> a]
    /\ loads' = Outdated(S)
    /\ detections' = Outdated(detections)

\* The finally of switchAccount: the switch asked for last, if any, runs next.
Ends(S) ==
    /\ queued' = Nobody
    /\ IF queued \notin {Nobody, op.to}
         THEN Begins(queued, S)
         ELSE op' = [pc |-> "idle", to |-> Nobody] /\ loads' = S /\ UNCHANGED detections

AskSwitch(a) ==
    /\ asks < MaxAsks /\ asks' = asks + 1
    /\ a # screen.id
    /\ IF op.pc = "idle"
         THEN Begins(a, loads) /\ UNCHANGED queued
         ELSE queued' = a /\ UNCHANGED <<op, loads, detections>>
    /\ UNCHANGED <<watched, now, screen, snapshots, works, faults>>

\* Keys that cannot be derived, or a row that cannot be updated, end the switch.
KeysRefused ==
    /\ op.pc = "keys"
    /\ faults < MaxFaults /\ faults' = faults + 1
    /\ Ends(loads)
    /\ UNCHANGED <<watched, now, screen, snapshots, asks, works>>

\* An account whose snapshot is there is shown at once, and read in the background.
ShowSnapshot ==
    /\ op.pc = "keys" /\ snapshots[op.to] # Nobody
    /\ now' = [Shows(op.to) EXCEPT !.slices = snapshots[op.to].slices,
                                   !.stray = snapshots[op.to].stray]
    /\ Ends(loads \cup {[NewLoad("preload", "rows") EXCEPT !.id = op.to, !.keys = op.to]})
    /\ UNCHANGED <<watched, screen, snapshots, asks, works, faults>>

\* Another one is read before its id is set.
ReadRows ==
    /\ op.pc = "keys" /\ snapshots[op.to] = Nobody
    /\ now' = [now EXCEPT !.wallet = op.to]
    /\ op' = [op EXCEPT !.pc = "rows"]
    /\ UNCHANGED <<watched, screen, snapshots, queued, loads, detections, asks, works, faults>>

\* Which rows could not be read: the reads fail each on its own (Promise.allSettled),
\* and what was not read is not set.
Misses(missed) ==
    /\ missed \subseteq Unreadable \cap watched
    /\ IF missed = {} THEN UNCHANGED faults ELSE faults < MaxFaults /\ faults' = faults + 1

\* Slices S are set to what account a owns.
With(a, S) == [s \in Slices |-> IF s \in S /\ s \in watched THEN a ELSE now.slices[s]]

\* MUTANT of RowsRead: the account that the data is of is not set.
RowsUnscoped ==
    /\ op.pc = "rows"
    /\ now' = [now EXCEPT !.slices = AllOf(op.to), !.id = op.to, !.stray = {}]
    /\ Ends(loads)
    /\ UNCHANGED <<watched, screen, snapshots, asks, works, faults>>

\* fetchDataFromDB sets everything at once, and the account follows before the next
\* render. What could not be read still is that of another account.
RowsRead ==
    /\ op.pc = "rows"
    /\ \E missed \in SUBSET Unreadable :
         /\ Misses(missed)
         /\ now' = [now EXCEPT !.slices = With(op.to, Slices \ missed), !.scoped = op.to,
                               !.id = op.to, !.stray = missed]
    /\ Ends(loads)
    /\ UNCHANGED <<watched, screen, snapshots, asks, works>>

(***************************************************************************)
(* Loads.                                                                  *)
(***************************************************************************)
Becomes(l, S) == loads' = (loads \ {l}) \cup S
At(l, pc) == {[l EXCEPT !.pc = pc]}

\* Captured while a switch is under way or not rendered, or with the wallet of another
\* account: no comparison finds that version, account and wallet belong together.
Loose(id, keys) == op.pc # "idle" \/ screen.id # now.id \/ keys # id

\* fetchData of WalletContext: the version and the account of this moment. An
\* operation of the user keeps the wallet it started with; the others call the
\* latest fetchData. A superseded check does not call it.
Fetch(l) ==
    IF l.cancelled THEN {}
    ELSE LET keys == IF l.kind = "manual" THEN l.keys ELSE screen.wallet
         IN {[l EXCEPT !.pc = "balance", !.id = screen.id, !.keys = keys, !.current = TRUE,
                       !.loose = Loose(screen.id, keys)]}

\* The check of an account: a sync first, if it was never synced or long ago.
Decide(l) ==
    /\ l.pc = "deciding"
    /\ \/ Becomes(l, Fetch(l)) /\ UNCHANGED faults
       \/ /\ ~l.cancelled
          /\ Becomes(l, {[l EXCEPT !.pc = "syncing", !.id = screen.id, !.keys = screen.wallet]})
          /\ UNCHANGED faults
       \/ faults < MaxFaults /\ faults' = faults + 1 /\ Becomes(l, {})
    /\ UNCHANGED <<watched, now, screen, snapshots, op, queued, detections, asks, works>>

\* The user starts a sync, or an operation that ends with fetchData.
Work ==
    /\ works < MaxWorks /\ works' = works + 1
    /\ \E pc \in {"syncing", "working"} : loads' = loads \cup {NewLoad("manual", pc)}
    /\ UNCHANGED <<watched, now, screen, snapshots, op, queued, detections, asks, faults>>

WorkEnds(l) ==
    /\ l.pc = "working"
    /\ Becomes(l, Fetch(l))
    /\ UNCHANGED <<watched, now, screen, snapshots, op, queued, detections, asks, works, faults>>

\* isCancelled of performSync.
SameAccount(l) == screen.id = l.id

\* performSync after syncWallet, which a switch may have cancelled.
SyncEnds(l) ==
    /\ l.pc = "syncing"
    /\ \/ SameAccount(l) /\ Becomes(l, At(l, "totals"))
       \/ Becomes(l, Fetch(l))
    /\ UNCHANGED <<watched, now, screen, snapshots, op, queued, detections, asks, works, faults>>

\* Slices S are set to what account a owns; they stray if that was not looked at.
Sets(a, S, unlooked) ==
    now' = [now EXCEPT !.slices = With(a, S),
                       !.stray = IF unlooked THEN @ \cup (S \cap watched) ELSE @ \ S]

\* MUTANT of TotalsRead: the account is not compared again after the reads.
TotalsUnchecked(l) ==
    /\ l.pc = "totals"
    /\ Sets(l.id, {"balance"}, screen.id # now.id) /\ Becomes(l, At(l, "activity"))
    /\ UNCHANGED <<watched, screen, snapshots, op, queued, detections, asks, works, faults>>

\* The account is compared after the reads; one that is not rendered is not seen.
TotalsRead(l) ==
    /\ l.pc = "totals"
    /\ IF SameAccount(l)
         THEN Sets(l.id, {"balance"}, screen.id # now.id) /\ Becomes(l, At(l, "activity"))
         ELSE Becomes(l, Fetch(l)) /\ UNCHANGED now
    /\ UNCHANGED <<watched, screen, snapshots, op, queued, detections, asks, works, faults>>

\* Here "current" and "loose" only tell what happens during the merge.
ActivityRead(l) ==
    /\ l.pc = "activity"
    /\ \/ /\ SameAccount(l)
          /\ Becomes(l, {[l EXCEPT !.pc = "merging", !.current = TRUE,
                                   !.loose = Loose(screen.id, l.id)]})
       \/ Becomes(l, Fetch(l))
    /\ UNCHANGED <<watched, now, screen, snapshots, op, queued, detections, asks, works, faults>>

\* The account is not compared after the entries of ordinals were merged.
Merged(l) ==
    /\ l.pc = "merging"
    /\ Sets(l.id, {"history"}, ~l.current \/ l.loose)
    /\ Becomes(l, Fetch(l))
    /\ UNCHANGED <<watched, screen, snapshots, op, queued, detections, asks, works, faults>>

(***************************************************************************)
(* fetchData and fetchDataFromDB: between two reads the version is         *)
(* compared. Rows are those of the account id; what the network answers is *)
(* about the addresses of the wallet.                                      *)
(***************************************************************************)
\* After its rows a check goes on; a preload and fetchData end.
AfterRows(l) == IF l.kind = "preload" THEN {} ELSE At(l, "deciding")

Stale(l) ==
    /\ ~l.current
    /\ \/ l.pc = "rows" /\ Becomes(l, AfterRows(l))
       \/ /\ l.pc \in {"balance", "ordBalance", "history", "locks", "ordinals", "content", "utxos"}
          /\ Becomes(l, {})
    /\ UNCHANGED <<watched, now, screen, snapshots, op, queued, detections, asks, works, faults>>

\* Rows that cannot be read end it; requests of the network that fail do not.
FetchFails(l) ==
    /\ l.pc \in {"balance", "history"}
    /\ faults < MaxFaults /\ faults' = faults + 1
    /\ Becomes(l, {})
    /\ UNCHANGED <<watched, now, screen, snapshots, op, queued, detections, asks, works>>

Step(l, from, to) == l.pc = from /\ l.current /\ Becomes(l, At(l, to))
Detects(l) ==
    detections' = detections
        \cup {[pc |-> "detecting", id |-> l.id, keys |-> l.keys, current |-> TRUE,
               loose |-> l.loose]}
Elsewhere == UNCHANGED <<watched, screen, snapshots, op, queued, asks, works, faults>>

\* The rows of an account whose snapshot is shown, or of a wallet that was opened.
RowsRefreshed(l) ==
    /\ l.pc = "rows" /\ l.current
    /\ Becomes(l, AfterRows(l))
    /\ \E missed \in SUBSET Unreadable :
         /\ Misses(missed)
         /\ now' = [now EXCEPT !.slices = With(l.id, Slices \ missed), !.scoped = l.id,
                               !.stray = @ \cap missed]
    /\ UNCHANGED <<watched, screen, snapshots, op, queued, detections, asks, works>>

FetchBalance(l) ==
    /\ Step(l, "balance", "ordBalance") /\ Sets(l.id, {"balance"}, l.loose)
    /\ UNCHANGED detections /\ Elsewhere

FetchOrdBalance(l) ==
    /\ Step(l, "ordBalance", "history") /\ Sets(l.keys, {"ordBalance"}, l.loose)
    /\ UNCHANGED detections /\ Elsewhere

\* From here on the screen takes what it shows for this account's.
FetchHistory(l) ==
    /\ Step(l, "history", "locks")
    /\ now' = [now EXCEPT !.slices = With(l.id, {"history"}), !.scoped = l.id,
                          !.stray = IF l.loose THEN @ \cup ({"history", "scope"} \ (Slices \ watched))
                                               ELSE @ \ {"history", "scope"}]
    /\ UNCHANGED detections /\ Elsewhere

\* Locks of the table are shown, then compared with the chain on the side.
FetchLocks(l) ==
    /\ Step(l, "locks", "ordinals")
    /\ \/ Sets(l.id, {"locks"}, l.loose) /\ Detects(l)
       \/ UNCHANGED <<now, detections>>
    /\ Elsewhere

\* Rows do not replace a longer list of the same ordinals.
FetchOrdinals(l) ==
    /\ Step(l, "ordinals", "content")
    /\ Sets(l.id, {"ordinals"}, l.loose) \/ UNCHANGED now
    /\ UNCHANGED detections /\ Elsewhere

\* What the network knows replaces it, and the history gets entries for it; on
\* an error both stay.
FetchContent(l) ==
    /\ Step(l, "content", "utxos")
    /\ \/ \E S \in {{"ordinals"}, {"ordinals", "history"}} : Sets(l.keys, S, l.loose)
       \/ UNCHANGED now
    /\ UNCHANGED detections /\ Elsewhere

FetchUtxos(l) ==
    /\ l.pc = "utxos" /\ l.current
    /\ Becomes(l, {})
    /\ \/ Sets(l.keys, {"utxos"}, l.loose) /\ Detects(l)
       \/ UNCHANGED <<now, detections>>
    /\ Elsewhere

\* The callback of fetchData: locks found on the chain are reconciled with the
\* table; without any, the list is that of the table, or empty.
Detect(d) ==
    /\ d.pc = "detecting"
    /\ \/ /\ d.current
          /\ detections' = (detections \ {d}) \cup {[d EXCEPT !.pc = "reconciling"]}
          /\ UNCHANGED now
       \/ /\ d.current
          /\ detections' = detections \ {d}
          /\ Sets(d.id, {"locks"}, d.loose)
       \/ /\ ~d.current
          /\ detections' = detections \ {d}
          /\ UNCHANGED now
    /\ UNCHANGED loads /\ Elsewhere

\* The version is not compared after reconcileLocks.
Reconcile(d) ==
    /\ d.pc = "reconciling"
    /\ detections' = detections \ {d}
    /\ Sets(d.keys, {"locks"}, ~d.current \/ d.loose)
    /\ UNCHANGED loads /\ Elsewhere

Switching == KeysRefused \/ ShowSnapshot \/ ReadRows \/ RowsRead
Syncing(l) == WorkEnds(l) \/ SyncEnds(l) \/ TotalsRead(l) \/ ActivityRead(l) \/ Merged(l)
Fetching(l) == \/ RowsRefreshed(l) \/ FetchBalance(l) \/ FetchOrdBalance(l) \/ FetchHistory(l)
               \/ FetchLocks(l) \/ FetchOrdinals(l) \/ FetchContent(l) \/ FetchUtxos(l)
               \/ Stale(l) \/ FetchFails(l)
Loading == \E l \in loads : Decide(l) \/ Syncing(l) \/ Fetching(l)
Detecting == \E d \in detections : Detect(d) \/ Reconcile(d)

Next ==
    \/ Render
    \/ \E a \in Account : AskSwitch(a)
    \/ Work \/ Switching \/ Loading \/ Detecting

Spec == Init /\ [][Next]_vars

\* React renders what was set; keys, rows and the network answer or time out.
FairSpec ==
    /\ Spec
    /\ WF_vars(Render) /\ WF_vars(Switching) /\ WF_vars(Loading) /\ WF_vars(Detecting)

(***************************************************************************)
(* Properties.                                                             *)
(***************************************************************************)
OwnedBy(shown, a) == \A s \in watched \ shown.stray : shown.slices[s] = a

\* Whenever the components show their data (isAccountDataReady), and in each
\* snapshot kept to be shown again, every slice is of one account: "so the UI never
\* mixes accounts" (switchAccount), for switches, syncs, refreshes and operations in
\* any order. Slices that stray are excused until they are set again: set by a load
\* that started during a switch, before one was rendered or with another wallet, by
\* totals read before a switch was rendered, by a merge or a reconciliation that a
\* switch overtook; or kept because rows could not be read.
ScreenNeverMixes ==
    /\ screen.scoped = screen.id => OwnedBy(screen, screen.id)
    /\ \A a \in Account : snapshots[a] # Nobody => OwnedBy(snapshots[a], a)

\* However switches, syncs, refreshes, operations and a failure fall together, in the
\* end the wallet and the account are one, and its data are shown, unless a load that
\* started during a switch, or with another wallet, said last whose data they are.
Settled == screen.wallet = screen.id /\ (screen.scoped = screen.id \/ "scope" \in screen.stray)
ScreenSettles == <>[]Settled

\* The same without their excuses: "so the UI never mixes accounts", and that the
\* components show data in the end.
NothingMixes ==
    /\ screen.scoped = screen.id => \A s \in watched : screen.slices[s] = screen.id
    /\ \A a \in Account :
         snapshots[a] # Nobody => \A s \in watched : snapshots[a].slices[s] = a
AlwaysShown == <>[](screen.scoped = screen.id)
=============================================================================
