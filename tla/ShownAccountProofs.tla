------------------------- MODULE ShownAccountProofs -------------------------
(***************************************************************************)
(* Theorems about ShownAccount, for any number of accounts, switches,      *)
(* loads and failures, in any order.                                       *)
(*                                                                         *)
(* The invariant says why the comparisons suffice for what does not stray: *)
(* what may still set a slice (a load whose version is current, the end of *)
(* a merge or of a reconciliation) is about the account set last, and      *)
(* there is none of it while a switch is under way.                        *)
(***************************************************************************)
EXTENDS ShownAccount, TLAPS

Setting == {"rows", "balance", "ordBalance", "history", "locks", "ordinals", "content", "utxos"}

\* What load l may still set, and does not stray, is of account a, and no switch is
\* under way. Loads of rows were started by a switch, or before the first.
GoodLoad(l, step, a) ==
    /\ l.pc = "rows" => ~l.loose
    /\ l.current /\ ~l.loose =>
         /\ l.pc \in Setting => step = "idle" /\ l.id = a /\ l.keys = a
         /\ l.pc = "merging" => step = "idle" /\ l.id = a
GoodDetection(d, step, a) ==
    d.current /\ ~d.loose => step = "idle" /\ d.id = a /\ d.keys = a

DataPart == OwnedBy(now, now.id) /\ OwnedBy(screen, screen.id)
SnapshotPart == \A a \in Account : snapshots[a] # Nobody => OwnedBy(snapshots[a], a)
SwitchPart == op.pc # "idle" => op.to \in Account
LoadPart == \A l \in loads : GoodLoad(l, op.pc, now.id)
DetectionPart == \A d \in detections : GoodDetection(d, op.pc, now.id)

ShownInv ==
    TypeOK /\ DataPart /\ SnapshotPart /\ SwitchPart /\ LoadPart /\ DetectionPart

\* What a step sets is of the account set last, or strays; and what it leaves alone.
SetRightly == now' \in View /\ now'.id = now.id /\ OwnedBy(now', now.id)
Apart == UNCHANGED <<watched, screen, snapshots, op, queued, asks, works>>

-----------------------------------------------------------------------------
\* A load as it starts is a load, and does not stray.
LEMMA NewLoadIsLoad ==
    ASSUME ShownInv, NEW k \in {"check", "blocking", "manual", "preload"},
           NEW p \in {"deciding", "working", "syncing", "rows"}
    PROVE  /\ NewLoad(k, p) \in Load
           /\ NewLoad(k, p).pc = p /\ ~NewLoad(k, p).loose
BY DEF NewLoad, Load, ShownInv, TypeOK, View

\* What a switch leaves of the loads sets nothing any more, but what strays.
LEMMA OutdatedSetNothing ==
    ASSUME NEW S, S \subseteq Load, \A l \in S : l.pc = "rows" => ~l.loose
    PROVE  /\ Outdated(S) \subseteq Load
           /\ \A l \in Outdated(S) : \A step, a : GoodLoad(l, step, a)
BY DEF Outdated, Load, GoodLoad

LEMMA OutdatedDetectNothing ==
    ASSUME NEW S, S \subseteq Detection
    PROVE  /\ Outdated(S) \subseteq Detection
           /\ \A d \in Outdated(S) : \A step, a : GoodDetection(d, step, a)
BY DEF Outdated, Detection, GoodDetection

\* While a switch is under way nothing that is loading can set anything, or it strays.
LEMMA QuietWhileSwitching ==
    ASSUME ShownInv, op.pc # "idle"
    PROVE  /\ \A l \in loads : \A step, a : GoodLoad(l, step, a)
           /\ \A d \in detections : \A step, a : GoodDetection(d, step, a)
BY DEF ShownInv, LoadPart, DetectionPart, GoodLoad, GoodDetection

\* A switch that begins leaves all that was loading with nothing to set.
LEMMA BeginsQuietly ==
    ASSUME ShownInv, NEW b \in Account, NEW S, S \subseteq Load,
           \A l \in S : l.pc = "rows" => ~l.loose,
           Begins(b, S)
    PROVE  /\ op' = [pc |-> "keys", to |-> b]
           /\ loads' \subseteq Load /\ detections' \subseteq Detection
           /\ \A l \in loads' : \A step, a : GoodLoad(l, step, a)
           /\ \A d \in detections' : \A step, a : GoodDetection(d, step, a)
BY OutdatedSetNothing, OutdatedDetectNothing DEF Begins, ShownInv, TypeOK

\* However a switch ends, what remains sets slices of the account it ended with.
LEMMA EndsQuietly ==
    ASSUME ShownInv, op.pc # "idle", NEW S, NEW a, S \subseteq Load,
           \A l \in S : GoodLoad(l, "idle", a),
           Ends(S)
    PROVE  /\ queued' \in Account \cup {Nobody}
           /\ op' \in [pc : {"idle", "keys", "rows"}, to : Account \cup {Nobody}]
           /\ op'.pc # "idle" => op'.to \in Account
           /\ loads' \subseteq Load /\ detections' \subseteq Detection
           /\ \A l \in loads' : GoodLoad(l, op'.pc, a)
           /\ \A d \in detections' : GoodDetection(d, op'.pc, a)
<1>1. \A d \in detections : GoodDetection(d, "idle", a)
  BY QuietWhileSwitching
<1>2. CASE queued \notin {Nobody, op.to}
  <2>1. queued \in Account /\ Begins(queued, S) /\ queued' = Nobody
    BY <1>2 DEF Ends, ShownInv, TypeOK
  <2>2. \A l \in S : l.pc = "rows" => ~l.loose
    BY DEF GoodLoad
  <2>3. QED BY <2>1, <2>2, BeginsQuietly
<1>3. CASE queued \in {Nobody, op.to}
  <2>1. /\ op' = [pc |-> "idle", to |-> Nobody] /\ loads' = S /\ detections' = detections
        /\ queued' = Nobody
    BY <1>3 DEF Ends
  <2>2. QED BY <2>1, <1>1 DEF ShownInv, TypeOK
<1>4. QED BY <1>2, <1>3

\* fetchData asks for the account, and what it captures is of one moment or strays.
LEMMA FetchIsGood ==
    ASSUME ShownInv, NEW l \in loads
    PROVE  /\ Fetch(l) \subseteq Load
           /\ \A m \in Fetch(l) : GoodLoad(m, op.pc, now.id)
<1> DEFINE keys == IF l.kind = "manual" THEN l.keys ELSE screen.wallet
           m == [l EXCEPT !.pc = "balance", !.id = screen.id, !.keys = keys, !.current = TRUE,
                          !.loose = Loose(screen.id, keys)]
<1>1. l \in Load /\ screen.id \in Account /\ screen.wallet \in Account
  BY DEF ShownInv, TypeOK, View
<1>2. keys \in Account /\ Loose(screen.id, keys) \in BOOLEAN
  BY <1>1 DEF Load, Loose
<1> HIDE DEF keys
<1>3. /\ m \in Load /\ m.pc = "balance" /\ m.id = screen.id /\ m.keys = keys
      /\ m.loose = Loose(screen.id, keys)
  BY <1>1, <1>2 DEF Load
<1>4. GoodLoad(m, op.pc, now.id)
  BY <1>3 DEF GoodLoad, Loose, Setting
<1>5. Fetch(l) \subseteq {m}
  BY DEF Fetch, keys
<1>6. QED BY <1>3, <1>4, <1>5

\* A load that goes on from where it may set a slice to where it may set another.
LEMMA AtIsGood ==
    ASSUME ShownInv, NEW l \in loads,
           NEW p \in {"deciding", "syncing", "totals", "activity"} \cup (Setting \ {"rows"}),
           p \in Setting => l.pc \in Setting
    PROVE  /\ At(l, p) \subseteq Load
           /\ \A m \in At(l, p) : GoodLoad(m, op.pc, now.id)
<1>1. l \in Load /\ GoodLoad(l, op.pc, now.id)
  BY DEF ShownInv, TypeOK, LoadPart
<1>2. QED BY <1>1 DEF At, Load, GoodLoad, Setting

\* Slices that are read, and were the account's or strayed, are the account's.
LEMMA WithIsTyped ==
    ASSUME ShownInv, NEW a \in Account, NEW S
    PROVE  /\ With(a, S) \in [Slices -> Account]
           /\ \A s \in Slices \cap watched :
                With(a, S)[s] = IF s \in S THEN a ELSE now.slices[s]
BY DEF With, ShownInv, TypeOK, View

LEMMA WatchedAreSlices == ASSUME ShownInv PROVE watched \subseteq Slices
BY WatchesAssumption DEF ShownInv, TypeOK

\* Slices of the account set last are set, or they stray, or nothing is set.
LEMMA SetsIsGood ==
    ASSUME ShownInv, NEW a \in Account, NEW S, S \subseteq Slices, NEW u \in BOOLEAN,
           ~u => a = now.id,
           Sets(a, S, u) \/ now' = now
    PROVE  SetRightly
<1>1. /\ now \in View /\ now.id \in Account /\ OwnedBy(now, now.id)
      /\ now.stray \subseteq Parts /\ watched \subseteq Slices
  BY WatchedAreSlices DEF ShownInv, TypeOK, DataPart, View
<1>2. CASE now' = now
  BY <1>1, <1>2 DEF SetRightly
<1>3. CASE Sets(a, S, u)
  <2> DEFINE f == With(a, S)
             stray == IF u THEN now.stray \cup (S \cap watched) ELSE now.stray \ S
  <2>1. now' = [now EXCEPT !.slices = f, !.stray = stray]
    BY <1>3 DEF Sets
  <2>2. /\ f \in [Slices -> Account]
        /\ \A s \in Slices \cap watched : f[s] = IF s \in S THEN a ELSE now.slices[s]
    BY WithIsTyped
  <2>3. stray \subseteq Parts
    BY <1>1 DEF Parts
  <2> HIDE DEF f, stray
  <2>4. now' \in View /\ now'.id = now.id /\ now'.slices = f /\ now'.stray = stray
    BY <2>1, <2>2, <2>3, <1>1 DEF View
  <2>5. ASSUME NEW s \in watched \ stray PROVE f[s] = now.id
    <3>1. CASE u
      BY <3>1, <2>2, <2>5, <1>1 DEF stray, OwnedBy
    <3>2. CASE ~u
      BY <3>2, <2>2, <2>5, <1>1 DEF stray, OwnedBy
    <3>3. QED BY <3>1, <3>2
  <2>6. QED BY <2>4, <2>5 DEF SetRightly, OwnedBy
<1>4. QED BY <1>2, <1>3

-----------------------------------------------------------------------------
LEMMA InitShown == Init => ShownInv
<1> SUFFICES ASSUME Init PROVE ShownInv
  OBVIOUS
<1> USE AccountAssumption, BoundAssumption
<1>1. /\ now \in View /\ screen \in View /\ now.id = First /\ now.wallet = First
      /\ screen.id = First /\ screen.wallet = First
      /\ \A s \in Slices : now.slices[s] = First /\ screen.slices[s] = First
  BY DEF Init, Shows, AllOf, View
<1>2. /\ Taken(Shows(First)) \in Snapshot
      /\ \A s \in Slices : Taken(Shows(First)).slices[s] = First
  BY DEF Taken, Shows, AllOf, Snapshot
<1>3. /\ snapshots \in [Account -> {Nobody} \cup Snapshot]
      /\ \A a \in Account : snapshots[a] # Nobody => a = First /\ snapshots[a] = Taken(Shows(First))
  BY <1>2 DEF Init
<1>4. op \in [pc : {"idle", "keys", "rows"}, to : Account \cup {Nobody}] /\ op.pc = "idle"
  BY DEF Init
<1>5. loads \subseteq Load /\ \A l \in loads : ~l.loose /\ l.id = First /\ l.keys = First
                                               /\ l.pc = "rows"
  <2>1. ASSUME NEW k \in {"check", "blocking"}
        PROVE  /\ NewLoad(k, "rows") \in Load
               /\ NewLoad(k, "rows").pc = "rows" /\ ~NewLoad(k, "rows").loose
               /\ NewLoad(k, "rows").id = First /\ NewLoad(k, "rows").keys = First
    BY <1>1 DEF NewLoad, Load, View
  <2>2. loads = {} \/ \E k \in {"check", "blocking"} : loads = {NewLoad(k, "rows")}
    BY DEF Init
  <2>3. QED BY <2>1, <2>2
<1>6. TypeOK
  BY <1>1, <1>3, <1>4, <1>5 DEF TypeOK, Init
<1>7. DataPart /\ SnapshotPart
  BY <1>1, <1>2, <1>3, <1>6, WatchesAssumption DEF DataPart, SnapshotPart, OwnedBy, TypeOK
<1>8. SwitchPart /\ LoadPart /\ DetectionPart
  BY <1>1, <1>4, <1>5 DEF SwitchPart, LoadPart, DetectionPart, GoodLoad, Init
<1>9. QED BY <1>6, <1>7, <1>8 DEF ShownInv

\* What is rendered was set, and what is remembered is what is rendered.
LEMMA RenderKeeps == ASSUME ShownInv, Render PROVE ShownInv'
<1> USE AccountAssumption
<1>1. /\ now' = now /\ screen' = now /\ op' = op /\ queued' = queued /\ detections' = detections
      /\ asks' = asks /\ works' = works /\ faults' = faults /\ watched' = watched
  BY DEF Render
<1>2. /\ now.id \in Account /\ Taken(now) \in Snapshot /\ OwnedBy(Taken(now), now.id)
  <2>1. /\ now.id \in Account /\ now.slices \in [Slices -> Account] /\ now.stray \subseteq Parts
        /\ OwnedBy(now, now.id) /\ watched \subseteq Slices
    BY WatchedAreSlices DEF ShownInv, TypeOK, View, DataPart
  <2>2. now.stray \ {"scope"} \subseteq Slices /\ "scope" \notin Slices
    BY <2>1 DEF Parts, Slices
  <2>3. QED BY <2>1, <2>2 DEF Taken, Snapshot, OwnedBy
<1>3. /\ snapshots' \in [Account -> {Nobody} \cup Snapshot]
      /\ SnapshotPart'
  <2>1. CASE now.scoped = now.id
    <3> DEFINE with == [snapshots EXCEPT ![now.id] = Taken(now)]
    <3>1. /\ with \in [Account -> {Nobody} \cup Snapshot]
          /\ \A a \in Account : with[a] # Nobody => OwnedBy(with[a], a)
      BY <1>2 DEF ShownInv, TypeOK, SnapshotPart
    <3>2. snapshots' = with \/ \E b \in Account : snapshots' = [with EXCEPT ![b] = Nobody]
      BY <2>1 DEF Render, Remember
    <3> HIDE DEF with
    <3>3. /\ snapshots' \in [Account -> {Nobody} \cup Snapshot]
          /\ \A a \in Account : snapshots'[a] # Nobody => OwnedBy(snapshots'[a], a)
      BY <3>1, <3>2
    <3>4. QED BY <3>3, <1>1 DEF SnapshotPart, OwnedBy
  <2>2. CASE now.scoped # now.id
    BY <2>2, <1>1 DEF Render, ShownInv, TypeOK, SnapshotPart, OwnedBy
  <2>3. QED BY <2>1, <2>2
<1>4. loads' \subseteq Load /\ LoadPart'
  <2>1. ASSUME NEW l \in ChecksAgain PROVE l \in Load /\ GoodLoad(l, op.pc, now.id)
    <3>1. CASE \E m \in loads : l = [m EXCEPT !.cancelled = m.kind = "check"]
      <4>1. PICK m \in loads : l = [m EXCEPT !.cancelled = m.kind = "check"]
        BY <3>1
      <4>2. m \in Load /\ GoodLoad(m, op.pc, now.id)
        BY DEF ShownInv, TypeOK, LoadPart
      <4>3. (m.kind = "check") \in BOOLEAN
        OBVIOUS
      <4>4. /\ l \in Load
            /\ l.pc = m.pc /\ l.id = m.id /\ l.keys = m.keys
            /\ l.current = m.current /\ l.loose = m.loose
        BY <4>1, <4>2, <4>3 DEF Load
      <4>5. QED BY <4>2, <4>4 DEF GoodLoad
    <3>2. CASE l = [NewLoad("check", "deciding") EXCEPT !.id = now.id, !.keys = now.wallet]
      BY <3>2 DEF ShownInv, TypeOK, View, NewLoad, Load, GoodLoad, Setting
    <3>3. QED BY <3>1, <3>2 DEF ChecksAgain
  <2>2. QED BY <2>1, <1>1 DEF Render, ShownInv, TypeOK, LoadPart
<1>5. TypeOK'
  BY <1>1, <1>3, <1>4 DEF ShownInv, TypeOK
<1>6. DataPart' /\ SwitchPart' /\ DetectionPart'
  BY <1>1 DEF ShownInv, DataPart, OwnedBy, SwitchPart, DetectionPart
<1>7. QED BY <1>3, <1>4, <1>5, <1>6 DEF ShownInv

-----------------------------------------------------------------------------
\* A switch begins, and what was loading is outdated; or it is remembered.
LEMMA AskKeeps == ASSUME ShownInv, NEW b \in Account, AskSwitch(b) PROVE ShownInv'
<1>1. /\ watched' = watched /\ now' = now /\ screen' = screen /\ snapshots' = snapshots
      /\ works' = works /\ faults' = faults /\ asks' \in 0..MaxAsks
  BY BoundAssumption DEF AskSwitch, ShownInv, TypeOK
<1>2. DataPart' /\ SnapshotPart'
  BY <1>1 DEF ShownInv, DataPart, SnapshotPart, OwnedBy
<1>3. CASE op.pc = "idle"
  <2>1. /\ Begins(b, loads) /\ queued' = queued
        /\ loads \subseteq Load /\ \A l \in loads : l.pc = "rows" => ~l.loose
    BY <1>3 DEF AskSwitch, ShownInv, TypeOK, LoadPart, GoodLoad
  <2>2. /\ op' = [pc |-> "keys", to |-> b]
        /\ loads' \subseteq Load /\ detections' \subseteq Detection
        /\ \A l \in loads' : \A step, a : GoodLoad(l, step, a)
        /\ \A d \in detections' : \A step, a : GoodDetection(d, step, a)
    BY <2>1, BeginsQuietly
  <2>3. TypeOK'
    BY <1>1, <2>1, <2>2 DEF ShownInv, TypeOK
  <2>4. SwitchPart' /\ LoadPart' /\ DetectionPart'
    BY <2>2 DEF SwitchPart, LoadPart, DetectionPart
  <2>5. QED BY <1>2, <2>3, <2>4 DEF ShownInv
<1>4. CASE op.pc # "idle"
  <2>1. op' = op /\ loads' = loads /\ detections' = detections /\ queued' = b
    BY <1>4 DEF AskSwitch
  <2>2. TypeOK' /\ SwitchPart' /\ LoadPart' /\ DetectionPart'
    BY <1>1, <2>1 DEF ShownInv, TypeOK, SwitchPart, LoadPart, DetectionPart
  <2>3. QED BY <1>2, <2>2 DEF ShownInv
<1>5. QED BY <1>3, <1>4

\* How a switch ends: what is set is of one account, or strays.
LEMMA EndKeeps ==
    ASSUME ShownInv, op.pc # "idle", NEW S, Ends(S), S \subseteq Load,
           \A l \in S : GoodLoad(l, "idle", now'.id),
           now' \in View, OwnedBy(now', now'.id), watched' = watched,
           screen' = screen, snapshots' = snapshots, asks' = asks, works' = works,
           faults' \in 0..MaxFaults
    PROVE  ShownInv'
<1>1. /\ queued' \in Account \cup {Nobody}
      /\ op' \in [pc : {"idle", "keys", "rows"}, to : Account \cup {Nobody}]
      /\ op'.pc # "idle" => op'.to \in Account
      /\ loads' \subseteq Load /\ detections' \subseteq Detection
      /\ \A l \in loads' : GoodLoad(l, op'.pc, now'.id)
      /\ \A d \in detections' : GoodDetection(d, op'.pc, now'.id)
  BY EndsQuietly
<1>2. TypeOK'
  BY <1>1 DEF ShownInv, TypeOK
<1>3. DataPart' /\ SnapshotPart'
  BY DEF ShownInv, DataPart, SnapshotPart, OwnedBy
<1>4. SwitchPart' /\ LoadPart' /\ DetectionPart'
  BY <1>1 DEF SwitchPart, LoadPart, DetectionPart
<1>5. QED BY <1>2, <1>3, <1>4 DEF ShownInv

\* Faults stay within their bound, whichever rows could not be read.
LEMMA MissesIsBounded ==
    ASSUME ShownInv, NEW missed, Misses(missed)
    PROVE  faults' \in 0..MaxFaults /\ missed \subseteq Slices /\ missed \subseteq Parts
BY BoundAssumption DEF Misses, ShownInv, TypeOK, Unreadable, Parts, Slices

LEMMA SwitchingKeeps == ASSUME ShownInv, Switching PROVE ShownInv'
<1> USE AccountAssumption
<1>1. /\ now \in View /\ loads \subseteq Load /\ faults \in 0..MaxFaults
      /\ watched \subseteq Slices
  BY WatchedAreSlices DEF ShownInv, TypeOK
<1>2. op.pc # "idle" /\ op.to \in Account
  BY DEF Switching, KeysRefused, ShowSnapshot, ReadRows, RowsRead, ShownInv, SwitchPart
<1>3. \A l \in loads : \A step, a : GoodLoad(l, step, a)
  BY <1>2, QuietWhileSwitching
<1>4. CASE KeysRefused
  <2>1. /\ Ends(loads) /\ now' = now /\ faults' \in 0..MaxFaults /\ watched' = watched
        /\ screen' = screen /\ snapshots' = snapshots /\ asks' = asks /\ works' = works
    BY <1>4, <1>1, BoundAssumption DEF KeysRefused
  <2>2. OwnedBy(now, now.id)
    BY DEF ShownInv, DataPart
  <2>3. QED BY <2>1, <2>2, <1>1, <1>2, <1>3, EndKeeps
<1>5. CASE ShowSnapshot
  <2> DEFINE preload == [NewLoad("preload", "rows") EXCEPT !.id = op.to, !.keys = op.to]
             taken == snapshots[op.to]
  <2>1. /\ preload \in Load /\ preload.pc = "rows" /\ ~preload.loose
        /\ preload.id = op.to /\ preload.keys = op.to
    <3>1. NewLoad("preload", "rows") \in Load /\ NewLoad("preload", "rows").pc = "rows"
          /\ ~NewLoad("preload", "rows").loose
      BY NewLoadIsLoad
    <3>2. QED BY <3>1, <1>2 DEF Load
  <2> HIDE DEF preload
  <2>2. GoodLoad(preload, "idle", op.to)
    BY <2>1 DEF GoodLoad
  <2>3. /\ Ends(loads \cup {preload})
        /\ now' = [Shows(op.to) EXCEPT !.slices = taken.slices, !.stray = taken.stray]
        /\ screen' = screen /\ snapshots' = snapshots /\ asks' = asks /\ works' = works
        /\ faults' = faults /\ watched' = watched
    BY <1>5 DEF ShowSnapshot, preload
  <2>4. taken \in Snapshot /\ OwnedBy(taken, op.to)
    BY <1>2, <1>5 DEF ShowSnapshot, ShownInv, TypeOK, SnapshotPart
  <2> HIDE DEF taken
  <2>5. /\ now' \in View /\ now'.id = op.to
        /\ now'.slices = taken.slices /\ now'.stray = taken.stray
    BY <2>3, <2>4, <1>2 DEF Shows, View, Snapshot, Parts
  <2>6. OwnedBy(now', now'.id)
    BY <2>4, <2>5 DEF OwnedBy
  <2>7. \A l \in loads \cup {preload} : GoodLoad(l, "idle", now'.id)
    BY <2>2, <2>5, <1>3
  <2>8. QED BY <2>1, <2>3, <2>5, <2>6, <2>7, <1>1, <1>2, EndKeeps
<1>6. CASE ReadRows
  <2>1. /\ now' = [now EXCEPT !.wallet = op.to] /\ op' = [op EXCEPT !.pc = "rows"]
        /\ screen' = screen /\ snapshots' = snapshots /\ queued' = queued /\ loads' = loads
        /\ detections' = detections /\ asks' = asks /\ works' = works /\ faults' = faults
        /\ watched' = watched
    BY <1>6 DEF ReadRows
  <2>2. /\ now' \in View /\ now'.id = now.id /\ now'.slices = now.slices
        /\ now'.stray = now.stray
    BY <2>1, <1>1, <1>2 DEF View
  <2>3. op' \in [pc : {"idle", "keys", "rows"}, to : Account \cup {Nobody}]
        /\ op'.pc = "rows" /\ op'.to = op.to
    BY <2>1 DEF ShownInv, TypeOK
  <2>4. TypeOK'
    BY <2>1, <2>2, <2>3 DEF ShownInv, TypeOK
  <2>5. LoadPart' /\ DetectionPart' /\ SwitchPart'
    BY <2>1, <2>3, <1>2, QuietWhileSwitching DEF LoadPart, DetectionPart, SwitchPart
  <2>6. DataPart' /\ SnapshotPart'
    BY <2>1, <2>2 DEF ShownInv, DataPart, SnapshotPart, OwnedBy
  <2>7. QED BY <2>4, <2>5, <2>6 DEF ShownInv
<1>7. CASE RowsRead
  <2>1. PICK missed \in SUBSET Unreadable :
          /\ Misses(missed)
          /\ now' = [now EXCEPT !.slices = With(op.to, Slices \ missed), !.scoped = op.to,
                                !.id = op.to, !.stray = missed]
    BY <1>7 DEF RowsRead
  <2>2. /\ Ends(loads) /\ watched' = watched
        /\ screen' = screen /\ snapshots' = snapshots /\ asks' = asks /\ works' = works
    BY <1>7 DEF RowsRead
  <2>3. faults' \in 0..MaxFaults /\ missed \subseteq Parts
    BY <2>1, MissesIsBounded
  <2> DEFINE f == With(op.to, Slices \ missed)
  <2>4. /\ f \in [Slices -> Account]
        /\ \A s \in Slices \cap watched :
             f[s] = IF s \in Slices \ missed THEN op.to ELSE now.slices[s]
    BY <1>2, WithIsTyped
  <2>5. now' = [now EXCEPT !.slices = f, !.scoped = op.to, !.id = op.to, !.stray = missed]
    BY <2>1
  <2> HIDE DEF f
  <2>6. /\ now' \in View /\ now'.id = op.to /\ now'.slices = f /\ now'.stray = missed
    BY <2>3, <2>4, <2>5, <1>1, <1>2 DEF View
  <2>7. OwnedBy(now', now'.id)
    BY <2>4, <2>6, <1>1 DEF OwnedBy
  <2>8. QED BY <2>2, <2>3, <2>6, <2>7, <1>1, <1>2, <1>3, EndKeeps
<1>8. QED BY <1>4, <1>5, <1>6, <1>7 DEF Switching

-----------------------------------------------------------------------------
\* A step of load l that sets, if anything, slices of the account set last, or strays.
LEMMA LoadStep ==
    ASSUME ShownInv, NEW l \in loads, NEW S, Becomes(l, S), S \subseteq Load,
           \A m \in S : GoodLoad(m, op.pc, now.id),
           SetRightly, Apart,
           detections' \subseteq Detection,
           \A d \in detections' : GoodDetection(d, op.pc, now.id),
           faults' \in 0..MaxFaults
    PROVE  ShownInv'
<1>1. loads' \subseteq Load /\ \A m \in loads' : GoodLoad(m, op.pc, now.id)
  BY DEF Becomes, ShownInv, TypeOK, LoadPart
<1>2. TypeOK'
  BY <1>1 DEF ShownInv, TypeOK, SetRightly, Apart
<1>3. DataPart' /\ SnapshotPart'
  BY DEF ShownInv, DataPart, SnapshotPart, OwnedBy, SetRightly, Apart
<1>4. SwitchPart' /\ LoadPart' /\ DetectionPart'
  BY <1>1 DEF ShownInv, SwitchPart, LoadPart, DetectionPart, SetRightly, Apart
<1>5. QED BY <1>2, <1>3, <1>4 DEF ShownInv

\* Where detections are left alone, and no fault happens but a counted one.
LEMMA QuietStep ==
    ASSUME ShownInv, NEW l \in loads, NEW S, Becomes(l, S), S \subseteq Load,
           \A m \in S : GoodLoad(m, op.pc, now.id),
           SetRightly \/ now' = now, Apart, detections' = detections,
           faults' \in 0..MaxFaults
    PROVE  ShownInv'
<1>1. SetRightly
  BY DEF ShownInv, TypeOK, DataPart, SetRightly
<1>2. detections \subseteq Detection /\ \A d \in detections : GoodDetection(d, op.pc, now.id)
  BY DEF ShownInv, TypeOK, DetectionPart
<1>3. QED BY <1>1, <1>2, LoadStep

LEMMA DecideKeeps == ASSUME ShownInv, NEW l \in loads, Decide(l) PROVE ShownInv'
<1>1. /\ l \in Load /\ l.pc = "deciding" /\ faults \in 0..MaxFaults
      /\ screen.id \in Account /\ screen.wallet \in Account
  BY DEF Decide, ShownInv, TypeOK, View
<1>2. now' = now /\ detections' = detections /\ Apart
  BY DEF Decide, Apart
<1>3. CASE Becomes(l, Fetch(l)) /\ UNCHANGED faults
  BY <1>1, <1>2, <1>3, FetchIsGood, QuietStep
<1>4. ASSUME Becomes(l, {[l EXCEPT !.pc = "syncing", !.id = screen.id, !.keys = screen.wallet]}),
             UNCHANGED faults
      PROVE  ShownInv'
  <2> DEFINE m == [l EXCEPT !.pc = "syncing", !.id = screen.id, !.keys = screen.wallet]
  <2>1. m \in Load /\ GoodLoad(m, op.pc, now.id)
    BY <1>1 DEF Load, GoodLoad, Setting
  <2>2. {m} \subseteq Load /\ \A n \in {m} : GoodLoad(n, op.pc, now.id)
    BY <2>1
  <2>3. QED BY <1>1, <1>2, <1>4, <2>2, QuietStep
<1>5. CASE faults < MaxFaults /\ faults' = faults + 1 /\ Becomes(l, {})
  <2>1. faults' \in 0..MaxFaults
    BY <1>1, <1>5, BoundAssumption
  <2>2. QED BY <1>2, <1>5, <2>1, QuietStep
<1>6. QED BY <1>3, <1>4, <1>5 DEF Decide

\* An operation or a sync starts with what is rendered, and sets nothing yet.
LEMMA WorkKeeps == ASSUME ShownInv, Work PROVE ShownInv'
<1>1. PICK p \in {"syncing", "working"} : loads' = loads \cup {NewLoad("manual", p)}
  BY DEF Work
<1>2. NewLoad("manual", p) \in Load /\ GoodLoad(NewLoad("manual", p), op.pc, now.id)
  <2>1. NewLoad("manual", p) \in Load /\ NewLoad("manual", p).pc = p
    BY NewLoadIsLoad
  <2>2. QED BY <2>1 DEF GoodLoad, Setting
<1>3. loads' \subseteq Load /\ \A l \in loads' : GoodLoad(l, op.pc, now.id)
  BY <1>1, <1>2 DEF ShownInv, TypeOK, LoadPart
<1>4. /\ now' = now /\ screen' = screen /\ snapshots' = snapshots /\ op' = op
      /\ queued' = queued /\ detections' = detections /\ asks' = asks /\ faults' = faults
      /\ watched' = watched /\ works' \in 0..MaxWorks
  BY BoundAssumption DEF Work, ShownInv, TypeOK
<1>5. TypeOK'
  BY <1>3, <1>4 DEF ShownInv, TypeOK
<1>6. DataPart' /\ SnapshotPart'
  BY <1>4 DEF ShownInv, DataPart, SnapshotPart, OwnedBy
<1>7. SwitchPart' /\ LoadPart' /\ DetectionPart'
  BY <1>3, <1>4 DEF ShownInv, SwitchPart, LoadPart, DetectionPart
<1>8. QED BY <1>5, <1>6, <1>7 DEF ShownInv

LEMMA SyncingKeeps == ASSUME ShownInv, NEW l \in loads, Syncing(l) PROVE ShownInv'
<1>1. /\ l \in Load /\ GoodLoad(l, op.pc, now.id) /\ faults \in 0..MaxFaults
      /\ now.id \in Account /\ l.id \in Account
  BY DEF ShownInv, TypeOK, LoadPart, View, Load
<1>2. detections' = detections /\ Apart /\ faults' = faults
  BY DEF Syncing, WorkEnds, SyncEnds, TotalsRead, ActivityRead, Merged, Apart
<1>3. ASSUME Becomes(l, Fetch(l)), SetRightly \/ now' = now PROVE ShownInv'
  BY <1>1, <1>2, <1>3, FetchIsGood, QuietStep
<1>4. ASSUME NEW p \in {"totals", "activity"}, Becomes(l, At(l, p)), SetRightly \/ now' = now
      PROVE  ShownInv'
  <2>1. At(l, p) \subseteq Load /\ \A m \in At(l, p) : GoodLoad(m, op.pc, now.id)
    BY AtIsGood DEF Setting
  <2>2. QED BY <1>1, <1>2, <1>4, <2>1, QuietStep
<1>5. CASE WorkEnds(l)
  BY <1>3, <1>5 DEF WorkEnds
<1>6. CASE SyncEnds(l)
  BY <1>3, <1>4, <1>6 DEF SyncEnds
<1>7. CASE TotalsRead(l)
  <2>1. CASE SameAccount(l)
    <3>1. Sets(l.id, {"balance"}, screen.id # now.id) /\ Becomes(l, At(l, "activity"))
      BY <1>7, <2>1 DEF TotalsRead
    <3>2. (screen.id # now.id) \in BOOLEAN /\ (~(screen.id # now.id) => l.id = now.id)
          /\ {"balance"} \subseteq Slices
      BY <2>1 DEF SameAccount, Slices
    <3>3. SetRightly
      BY <3>1, <3>2, <1>1, SetsIsGood
    <3>4. QED BY <3>1, <3>3, <1>4
  <2>2. CASE ~SameAccount(l)
    BY <1>3, <1>7, <2>2 DEF TotalsRead
  <2>3. QED BY <2>1, <2>2
<1>8. CASE ActivityRead(l)
  <2> DEFINE m == [l EXCEPT !.pc = "merging", !.current = TRUE, !.loose = Loose(screen.id, l.id)]
  <2>1. now' = now
    BY <1>8 DEF ActivityRead
  <2>2. CASE SameAccount(l) /\ Becomes(l, {m})
    <3>1. Loose(screen.id, l.id) \in BOOLEAN
      BY DEF Loose
    <3>2. /\ m \in Load /\ m.pc = "merging" /\ m.id = l.id /\ m.loose = Loose(screen.id, l.id)
      BY <3>1, <1>1 DEF Load
    <3>3. GoodLoad(m, op.pc, now.id)
      BY <2>2, <3>2 DEF GoodLoad, Loose, SameAccount, Setting
    <3>4. {m} \subseteq Load /\ \A n \in {m} : GoodLoad(n, op.pc, now.id)
      BY <3>2, <3>3
    <3>5. QED BY <1>1, <1>2, <2>1, <2>2, <3>4, QuietStep
  <2>3. CASE Becomes(l, Fetch(l))
    BY <1>3, <2>1, <2>3
  <2>4. QED BY <1>8, <2>2, <2>3 DEF ActivityRead
<1>9. CASE Merged(l)
  <2> DEFINE u == ~l.current \/ l.loose
  <2>1. /\ Becomes(l, Fetch(l)) /\ Sets(l.id, {"history"}, u)
        /\ u \in BOOLEAN /\ (~u => l.id = now.id) /\ {"history"} \subseteq Slices
    BY <1>1, <1>9 DEF Merged, GoodLoad, Load, Slices
  <2> HIDE DEF u
  <2>2. SetRightly
    BY <2>1, <1>1, SetsIsGood
  <2>3. QED BY <2>1, <2>2, <1>3
<1>10. QED BY <1>5, <1>6, <1>7, <1>8, <1>9 DEF Syncing

\* A step of fetchData: what it sets is of the account set last, or strays.
LEMMA FetchStep ==
    ASSUME ShownInv, NEW l \in loads, l.current, l.pc \in Setting,
           NEW S, Becomes(l, S), S = {} \/ (\E p \in Setting \ {"rows"} : S = At(l, p)),
           SetRightly, Apart, faults' = faults,
           Detects(l) \/ detections' = detections
    PROVE  ShownInv'
<1>1. l \in Load /\ GoodLoad(l, op.pc, now.id) /\ faults \in 0..MaxFaults
  BY DEF ShownInv, TypeOK, LoadPart
<1>2. S \subseteq Load /\ \A m \in S : GoodLoad(m, op.pc, now.id)
  BY AtIsGood
<1>3. detections \subseteq Detection /\ \A d \in detections : GoodDetection(d, op.pc, now.id)
  BY DEF ShownInv, TypeOK, DetectionPart
<1> DEFINE new == [pc |-> "detecting", id |-> l.id, keys |-> l.keys, current |-> TRUE,
                   loose |-> l.loose]
<1>4. new \in Detection /\ GoodDetection(new, op.pc, now.id)
  BY <1>1 DEF Detection, GoodDetection, GoodLoad, Load
<1>5. /\ detections' \subseteq Detection
      /\ \A d \in detections' : GoodDetection(d, op.pc, now.id)
  BY <1>3, <1>4 DEF Detects
<1>6. QED BY <1>1, <1>2, <1>5, LoadStep

\* The rows of the account that is shown: what could not be read stays as it was.
LEMMA RowsRefreshedIsRight ==
    ASSUME ShownInv, NEW l \in loads, RowsRefreshed(l)
    PROVE  SetRightly /\ faults' \in 0..MaxFaults
<1>1. /\ l \in Load /\ l.id = now.id /\ now \in View /\ now.id \in Account
      /\ OwnedBy(now, now.id) /\ now.stray \subseteq Parts /\ watched \subseteq Slices
  BY WatchedAreSlices
     DEF RowsRefreshed, ShownInv, TypeOK, LoadPart, GoodLoad, Setting, View, DataPart
<1>2. PICK missed \in SUBSET Unreadable :
        /\ Misses(missed)
        /\ now' = [now EXCEPT !.slices = With(l.id, Slices \ missed), !.scoped = l.id,
                              !.stray = @ \cap missed]
  BY DEF RowsRefreshed
<1> DEFINE f == With(l.id, Slices \ missed)
           stray == now.stray \cap missed
<1>3. /\ f \in [Slices -> Account]
      /\ \A s \in Slices \cap watched :
           f[s] = IF s \in Slices \ missed THEN now.id ELSE now.slices[s]
  BY <1>1, WithIsTyped
<1>4. now' = [now EXCEPT !.slices = f, !.scoped = now.id, !.stray = stray]
  BY <1>1, <1>2
<1>5. stray \subseteq Parts
  BY <1>1
<1> HIDE DEF f
<1>6. now' \in View /\ now'.id = now.id /\ now'.slices = f /\ now'.stray = stray
  BY <1>1, <1>3, <1>4, <1>5 DEF View
<1>7. ASSUME NEW s \in watched \ stray PROVE f[s] = now.id
  <2>1. CASE s \in missed
    BY <2>1, <1>1, <1>3, <1>7 DEF OwnedBy
  <2>2. CASE s \notin missed
    BY <2>2, <1>1, <1>3
  <2>3. QED BY <2>1, <2>2
<1>8. QED BY <1>2, <1>6, <1>7, MissesIsBounded DEF SetRightly, OwnedBy

\* The history is set, and whose the data are is said with it.
LEMMA HistoryIsRight ==
    ASSUME ShownInv, NEW l \in loads, FetchHistory(l)
    PROVE  SetRightly
<1>1. /\ l \in Load /\ l.id \in Account /\ l.loose \in BOOLEAN /\ (~l.loose => l.id = now.id)
      /\ now \in View /\ now.id \in Account
      /\ OwnedBy(now, now.id) /\ now.stray \subseteq Parts /\ watched \subseteq Slices
  BY WatchedAreSlices
     DEF FetchHistory, Step, ShownInv, TypeOK, LoadPart, GoodLoad, Setting, View, DataPart, Load
<1> DEFINE f == With(l.id, {"history"})
           stray == IF l.loose THEN now.stray \cup ({"history", "scope"} \ (Slices \ watched))
                               ELSE now.stray \ {"history", "scope"}
<1>2. /\ f \in [Slices -> Account]
      /\ \A s \in Slices \cap watched :
           f[s] = IF s \in {"history"} THEN l.id ELSE now.slices[s]
  BY <1>1, WithIsTyped
<1>3. now' = [now EXCEPT !.slices = f, !.scoped = l.id, !.stray = stray]
  BY DEF FetchHistory
<1>4. stray \subseteq Parts
  BY <1>1 DEF Parts, Slices
<1> HIDE DEF f, stray
<1>5. now' \in View /\ now'.id = now.id /\ now'.slices = f /\ now'.stray = stray
  BY <1>1, <1>2, <1>3, <1>4 DEF View
<1>6. ASSUME NEW s \in watched \ stray PROVE f[s] = now.id
  <2>1. CASE l.loose
    BY <2>1, <1>1, <1>2, <1>6 DEF OwnedBy, stray
  <2>2. CASE ~l.loose
    BY <2>2, <1>1, <1>2, <1>6 DEF OwnedBy, stray, Slices
  <2>3. QED BY <2>1, <2>2
<1>7. QED BY <1>5, <1>6 DEF SetRightly, OwnedBy

LEMMA FetchingKeeps == ASSUME ShownInv, NEW l \in loads, Fetching(l) PROVE ShownInv'
<1>1. /\ l \in Load /\ GoodLoad(l, op.pc, now.id) /\ faults \in 0..MaxFaults
      /\ l.id \in Account /\ l.keys \in Account /\ l.loose \in BOOLEAN
  BY DEF ShownInv, TypeOK, LoadPart, Load
<1>2. ASSUME l.current, l.pc \in Setting PROVE ~l.loose => l.id = now.id /\ l.keys = now.id
  BY <1>1, <1>2 DEF GoodLoad
<1>3. ASSUME l.current, l.pc \in Setting, NEW a \in {l.id, l.keys}, NEW S, S \subseteq Slices,
             Sets(a, S, l.loose) \/ UNCHANGED now
      PROVE  SetRightly
  BY <1>1, <1>2, <1>3, SetsIsGood
<1>4. CASE RowsRefreshed(l)
  <2>1. SetRightly /\ faults' \in 0..MaxFaults
    BY <1>4, RowsRefreshedIsRight
  <2>2. Becomes(l, AfterRows(l)) /\ detections' = detections /\ Apart
    BY <1>4 DEF RowsRefreshed, Apart
  <2>3. AfterRows(l) \subseteq Load /\ \A m \in AfterRows(l) : GoodLoad(m, op.pc, now.id)
    BY AtIsGood DEF AfterRows, Setting
  <2>4. QED BY <2>1, <2>2, <2>3, QuietStep
<1>5. ASSUME NEW from \in Setting, NEW to \in Setting \ {"rows"}, Step(l, from, to),
             SetRightly, Detects(l) \/ UNCHANGED detections, Elsewhere
      PROVE  ShownInv'
  <2>1. /\ l.current /\ l.pc \in Setting /\ Becomes(l, At(l, to)) /\ Apart /\ faults' = faults
    BY <1>5 DEF Step, Elsewhere, Apart
  <2>2. QED BY <1>5, <2>1, FetchStep
<1>6. CASE FetchBalance(l)
  <2>1. Step(l, "balance", "ordBalance") /\ Sets(l.id, {"balance"}, l.loose)
        /\ UNCHANGED detections /\ Elsewhere
    BY <1>6 DEF FetchBalance
  <2>2. SetRightly
    BY <2>1, <1>3 DEF Step, Setting, Slices
  <2>3. QED BY <2>1, <2>2, <1>5 DEF Setting
<1>7. CASE FetchOrdBalance(l)
  <2>1. Step(l, "ordBalance", "history") /\ Sets(l.keys, {"ordBalance"}, l.loose)
        /\ UNCHANGED detections /\ Elsewhere
    BY <1>7 DEF FetchOrdBalance
  <2>2. SetRightly
    BY <2>1, <1>3 DEF Step, Setting, Slices
  <2>3. QED BY <2>1, <2>2, <1>5 DEF Setting
<1>8. CASE FetchHistory(l)
  <2>1. Step(l, "history", "locks") /\ UNCHANGED detections /\ Elsewhere
    BY <1>8 DEF FetchHistory
  <2>2. SetRightly
    BY <1>8, HistoryIsRight
  <2>3. QED BY <2>1, <2>2, <1>5 DEF Setting
<1>9. CASE FetchLocks(l)
  <2>1. /\ Step(l, "locks", "ordinals") /\ Elsewhere
        /\ Sets(l.id, {"locks"}, l.loose) \/ UNCHANGED now
        /\ Detects(l) \/ UNCHANGED detections
    BY <1>9 DEF FetchLocks
  <2>2. SetRightly
    BY <2>1, <1>3 DEF Step, Setting, Slices
  <2>3. QED BY <2>1, <2>2, <1>5 DEF Setting
<1>10. CASE FetchOrdinals(l)
  <2>1. /\ Step(l, "ordinals", "content") /\ Elsewhere
        /\ Sets(l.id, {"ordinals"}, l.loose) \/ UNCHANGED now
        /\ UNCHANGED detections
    BY <1>10 DEF FetchOrdinals
  <2>2. SetRightly
    BY <2>1, <1>3 DEF Step, Setting, Slices
  <2>3. QED BY <2>1, <2>2, <1>5 DEF Setting
<1>11. CASE FetchContent(l)
  <2>1. Step(l, "content", "utxos") /\ UNCHANGED detections /\ Elsewhere
    BY <1>11 DEF FetchContent
  <2>2. \E S \in {{"ordinals"}, {"ordinals", "history"}} :
          Sets(l.keys, S, l.loose) \/ UNCHANGED now
    BY <1>11 DEF FetchContent
  <2>3. SetRightly
    BY <2>1, <2>2, <1>3 DEF Step, Setting, Slices
  <2>4. QED BY <2>1, <2>3, <1>5 DEF Setting
<1>12. CASE FetchUtxos(l)
  <2>1. /\ l.current /\ l.pc \in Setting /\ Becomes(l, {})
        /\ Sets(l.keys, {"utxos"}, l.loose) \/ UNCHANGED now
        /\ Detects(l) \/ detections' = detections
        /\ Apart /\ faults' = faults
    BY <1>12 DEF FetchUtxos, Elsewhere, Apart, Setting
  <2>2. SetRightly
    BY <2>1, <1>3 DEF Slices
  <2>3. QED BY <2>1, <2>2, FetchStep
<1>13. CASE Stale(l)
  <2>1. now' = now /\ detections' = detections /\ Apart /\ faults' = faults
    BY <1>13 DEF Stale, Apart
  <2>2. Becomes(l, AfterRows(l)) \/ Becomes(l, {})
    BY <1>13 DEF Stale
  <2>3. AfterRows(l) \subseteq Load /\ \A m \in AfterRows(l) : GoodLoad(m, op.pc, now.id)
    BY AtIsGood DEF AfterRows, Setting
  <2>4. QED BY <2>1, <2>2, <2>3, <1>1, QuietStep
<1>14. CASE FetchFails(l)
  <2>1. /\ Becomes(l, {}) /\ now' = now /\ detections' = detections /\ Apart
        /\ faults' \in 0..MaxFaults
    BY <1>14, <1>1, BoundAssumption DEF FetchFails, Apart
  <2>2. QED BY <2>1, QuietStep
<1>15. QED
  BY <1>4, <1>6, <1>7, <1>8, <1>9, <1>10, <1>11, <1>12, <1>13, <1>14 DEF Fetching

LEMMA DetectingKeeps ==
    ASSUME ShownInv, NEW d \in detections, Detect(d) \/ Reconcile(d)
    PROVE  ShownInv'
<1>1. /\ d \in Detection /\ GoodDetection(d, op.pc, now.id)
      /\ d.id \in Account /\ d.keys \in Account
      /\ \A e \in detections : e \in Detection /\ GoodDetection(e, op.pc, now.id)
  BY DEF ShownInv, TypeOK, DetectionPart, Detection
<1>2. loads' = loads /\ Apart /\ faults' = faults
  BY DEF Detect, Reconcile, Elsewhere, Apart
<1>3. /\ detections' \subseteq Detection
      /\ \A e \in detections' : GoodDetection(e, op.pc, now.id)
  <2>1. CASE detections' = detections \ {d}
    BY <1>1, <2>1
  <2>2. CASE d.current /\ detections' = (detections \ {d}) \cup {[d EXCEPT !.pc = "reconciling"]}
    <3>1. [d EXCEPT !.pc = "reconciling"] \in Detection
          /\ GoodDetection([d EXCEPT !.pc = "reconciling"], op.pc, now.id)
      BY <1>1, <2>2 DEF Detection, GoodDetection
    <3>2. QED BY <1>1, <2>2, <3>1
  <2>3. QED BY <2>1, <2>2 DEF Detect, Reconcile
<1>4. SetRightly
  <2> DEFINE u == ~d.current \/ d.loose
  <2>1. u \in BOOLEAN /\ (~u => d.id = now.id /\ d.keys = now.id) /\ {"locks"} \subseteq Slices
    BY <1>1 DEF GoodDetection, Detection, Slices
  <2>2. CASE Reconcile(d)
    <3>1. Sets(d.keys, {"locks"}, u)
      BY <2>2 DEF Reconcile
    <3> HIDE DEF u
    <3>2. QED BY <3>1, <2>1, <1>1, SetsIsGood
  <2>3. CASE Detect(d)
    <3>1. now' = now \/ (d.current /\ Sets(d.id, {"locks"}, d.loose))
      BY <2>3 DEF Detect
    <3>2. d.loose \in BOOLEAN /\ (d.current /\ ~d.loose => d.id = now.id)
      BY <1>1 DEF GoodDetection, Detection
    <3>3. CASE now' = now
      BY <3>3 DEF ShownInv, TypeOK, DataPart, SetRightly
    <3>4. CASE d.current /\ Sets(d.id, {"locks"}, d.loose)
      BY <3>2, <3>4, <2>1, <1>1, SetsIsGood
    <3>5. QED BY <3>1, <3>3, <3>4
  <2>4. QED BY <2>2, <2>3
<1>5. TypeOK'
  BY <1>2, <1>3, <1>4 DEF ShownInv, TypeOK, Apart, SetRightly
<1>6. DataPart' /\ SnapshotPart'
  BY <1>2, <1>4 DEF ShownInv, DataPart, SnapshotPart, OwnedBy, Apart, SetRightly
<1>7. SwitchPart' /\ LoadPart' /\ DetectionPart'
  BY <1>2, <1>3, <1>4
     DEF ShownInv, SwitchPart, LoadPart, DetectionPart, Apart, SetRightly
<1>8. QED BY <1>5, <1>6, <1>7 DEF ShownInv

-----------------------------------------------------------------------------
LEMMA NextKeeps == ASSUME ShownInv, [Next]_vars PROVE ShownInv'
<1>1. CASE Render
  BY <1>1, RenderKeeps
<1>2. ASSUME NEW b \in Account, AskSwitch(b) PROVE ShownInv'
  BY <1>2, AskKeeps
<1>3. CASE Work
  BY <1>3, WorkKeeps
<1>4. CASE Switching
  BY <1>4, SwitchingKeeps
<1>5. CASE Loading
  BY <1>5, DecideKeeps, SyncingKeeps, FetchingKeeps DEF Loading
<1>6. CASE Detecting
  BY <1>6, DetectingKeeps DEF Detecting
<1>7. CASE UNCHANGED vars
  BY <1>7 DEF vars, ShownInv, TypeOK, DataPart, SnapshotPart, SwitchPart, LoadPart,
              DetectionPart, OwnedBy
<1>8. QED BY <1>1, <1>2, <1>3, <1>4, <1>5, <1>6, <1>7 DEF Next

\* The inductive invariant: a load, merge or reconciliation that passes the comparisons
\* of the code (fetchVersionRef, isCancelled), and captured what belongs together, is
\* about the account set last, while no switch is under way.
THEOREM ShownInvariant == Spec => []ShownInv
<1>1. ShownInv /\ [Next]_vars => ShownInv'
  BY NextKeeps
<1>2. QED BY <1>1, InitShown, PTL DEF Spec

\* The screen and the snapshots never mix the data of two accounts ("so the UI never
\* mixes accounts") but in slices that stray, for any number of accounts, switches,
\* loads, operations and failures in any order.
THEOREM ScreenIsOwn == Spec => []ScreenNeverMixes
<1>1. ShownInv => ScreenNeverMixes
  BY DEF ShownInv, DataPart, SnapshotPart, ScreenNeverMixes
<1>2. QED BY <1>1, ShownInvariant, PTL

\* The wallet, the screen, the loads and the snapshots stay well typed.
THEOREM ShownTypeOK == Spec => []TypeOK
<1>1. ShownInv => TypeOK
  BY DEF ShownInv
<1>2. QED BY <1>1, ShownInvariant, PTL
=============================================================================
