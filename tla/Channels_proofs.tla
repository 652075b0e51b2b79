--------------------------- MODULE Channels_proofs ---------------------------
(***************************************************************************)
(* Lemmas about the operations of the channel tree, for every tree, every  *)
(* capacity and every number of jobs.                                      *)
(***************************************************************************)
EXTENDS Channels, TLAPS

USE TreeAssumption DEF ChannelJob, Place

Line == [Channel -> SUBSET Place]

LEMMA UpFacts ==
  ASSUME NEW c \in Channel
  PROVE  /\ Up[c] \subseteq Channel /\ c \in Up[c]
         /\ \A d \in Up[c] : Up[d] \subseteq Up[c]
         /\ \A d \in Channel : d \in Up[c] /\ c \in Up[d] => c = d
         /\ \A d, e \in Up[c] : d \in Up[e] \/ e \in Up[d]
OBVIOUS

\* A removed job is nowhere.
LEMMA RemoveFromPlaced ==
  ASSUME NEW a \in Line, NEW o \in ChannelJob, Placed(a, o)
  PROVE  RemoveFrom(a, o.chan) = Nowhere
BY DEF Line, Placed, RemoveFrom, Nowhere

LEMMA NowherePlaced ==
  /\ Nowhere \in Line
  /\ \A o : Placed(Nowhere, o)
<1>1. Nowhere \in Line
  BY DEF Nowhere, Line
<1>2. ASSUME NEW o PROVE Placed(Nowhere, o)
  BY DEF Placed, Nowhere
<1>3. QED BY <1>1, <1>2

\* A job may be alone in any collection of its own channel.
LEMMA OwnPlaced ==
  ASSUME NEW o \in ChannelJob, NEW p \in Place,
         p = "eta" => o.eta > 0, p = "queue" => o.eta = 0,
         NEW b \in Line, b[o.chan] = {p},
         \A c \in Channel : c # o.chan => b[c] = {}
  PROVE  Placed(b, o)
<1> DEFINE ch == o.chan
<1>1. ch \in Channel /\ o # NoJob
  OBVIOUS
<1>2. \A d \in Up[ch] : ch \notin Above(d)
  BY <1>1, UpFacts DEF Above
<1>3. SUFFICES ASSUME NEW c \in Channel, b[c] # {}
               PROVE  /\ o # NoJob /\ c \in Up[o.chan]
                      /\ \E q \in Place : b[c] = {q}
                      /\ \A d \in Up[o.chan] : c \in Above(d) => b[d] = {"running"}
                      /\ "eta" \in b[c] => o.eta > 0
                      /\ "queue" \in b[c] => o.eta = 0
  BY DEF Placed
<1>4. c = ch
  BY <1>3
<1>5. ch \in Up[ch]
  BY <1>1, UpFacts
<1>6. QED BY <1>1, <1>2, <1>4, <1>5

LEMMA NoJobNowhere ==
  ASSUME NEW a \in Line, Placed(a, NoJob) PROVE a = Nowhere
BY DEF Line, Placed, Nowhere

\* Every state a row may have moves the job to a place it may be in.
LEMMA MovedPlaced ==
  ASSUME NEW a \in Line, NEW o \in ChannelJob, NEW s, Placed(a, o)
  PROVE  Placed(Moved(a, o, s), o) /\ Moved(a, o, s) \in Line
<1> DEFINE ch == o.chan
<1>0. ch \in Channel /\ o.eta \in Nat
  OBVIOUS
<1>1. CASE s = "done"
  <2>1. Moved(a, o, s) = Nowhere
    BY <1>1, RemoveFromPlaced DEF Moved, SetDone
  <2>2. QED BY <2>1, NowherePlaced
<1>2. CASE s = "pending"
  <2>1. Moved(a, o, s) = SetPending(a, ch, o.eta)
    BY <1>2 DEF Moved
  <2>2. CASE a[ch] \cap {"eta", "queue"} # {}
    BY <2>1, <2>2 DEF SetPending
  <2>3. CASE a[ch] \cap {"eta", "queue"} = {}
    <3> DEFINE b == SetPending(a, ch, o.eta)
    <3>1. b = [c \in Channel |->
                IF c = ch THEN IF o.eta > 0 THEN {"eta"} ELSE {"queue"}
                ELSE IF c \in Above(ch) THEN {} ELSE a[c]]
      BY <2>3 DEF SetPending
    <3>2. \A c \in Channel : c # ch => b[c] = {}
      BY <3>1, <1>0 DEF Placed, Above, Line
    <3>3. b \in Line
      BY <3>1 DEF Line
    <3>4. b[ch] = IF o.eta > 0 THEN {"eta"} ELSE {"queue"}
      BY <3>1, <1>0
    <3> HIDE DEF b
    <3>5. o.eta > 0 => Placed(b, o)
      BY <3>2, <3>3, <3>4, OwnPlaced, "eta" \in Place
    <3>6. o.eta = 0 => Placed(b, o)
      BY <3>2, <3>3, <3>4, OwnPlaced, "queue" \in Place
    <3>7. QED BY <2>1, <3>3, <3>5, <3>6, <1>0 DEF b
  <2>4. QED BY <2>2, <2>3
<1>3. CASE s \in {"enqueued", "started"}
  <2>1. Moved(a, o, s) = SetRunning(a, ch)
    BY <1>3 DEF Moved
  <2>2. CASE "running" \in a[ch]
    <3>1. SetRunning(a, ch) = a
      BY <2>2, <1>0 DEF SetRunning, Line
    <3>2. QED BY <2>1, <3>1
  <2>3. CASE "running" \notin a[ch]
    <3>1. \A c \in Channel : c # ch => a[c] = {}
      BY <2>3, <1>0 DEF Placed, Above, Line
    <3>2. SetRunning(a, ch) =
            [c \in Channel |-> IF c \in Up[ch] THEN {"running"} ELSE {}]
      BY <2>3, <3>1, <1>0, UpFacts DEF SetRunning, Line
    <3>3. QED BY <2>1, <3>2, <1>0, UpFacts DEF Placed, Line, Above
  <2>4. QED BY <2>2, <2>3
<1>4. CASE s = "failed"
  <2>1. Moved(a, o, s) = SetFailed(a, ch)
    BY <1>4 DEF Moved
  <2>2. CASE "failed" \in a[ch]
    BY <2>1, <2>2 DEF SetFailed
  <2>3. CASE "failed" \notin a[ch]
    <3> DEFINE b == SetFailed(a, ch)
    <3>1. b = [c \in Channel |-> IF c = ch THEN {"failed"}
                ELSE IF c \in Above(ch) THEN {} ELSE a[c]]
      BY <2>3 DEF SetFailed
    <3>2. \A c \in Channel : c # ch => b[c] = {}
      BY <3>1, <1>0 DEF Placed, Above, Line
    <3>3. b \in Line /\ b[ch] = {"failed"}
      BY <3>1, <1>0 DEF Line
    <3> HIDE DEF b
    <3>4. Placed(b, o)
      BY <3>2, <3>3, OwnPlaced, "failed" \in Place
    <3>5. QED BY <2>1, <3>3, <3>4 DEF b
  <2>4. QED BY <2>2, <2>3
<1>5. CASE s \notin {"done", "pending", "enqueued", "started", "failed"}
  <2>1. Moved(a, o, s) = a
    BY <1>5 DEF Moved
  <2>2. QED BY <2>1
<1>6. QED BY <1>1, <1>2, <1>3, <1>4, <1>5

\* ChannelManager.notify keeps the job placed, also when its ChannelJob is
\* created again for another channel or eta.
LEMMA NotifiedPlaced ==
  ASSUME NEW a \in Line, NEW old \in ChannelJob \cup {NoJob},
         NEW r \in ChannelJob, NEW s, Placed(a, old)
  PROVE  Placed(Notified(a, old, r, s), r) /\ Notified(a, old, r, s) \in Line
<1> DEFINE a0 == IF old # NoJob /\ old # r THEN RemoveFrom(a, old.chan) ELSE a
<1>1. a0 \in Line /\ Placed(a0, r)
  <2>1. CASE old # NoJob /\ old # r
    <3>1. a0 = Nowhere
      BY <2>1, RemoveFromPlaced
    <3>2. QED BY <3>1, NowherePlaced
  <2>2. CASE old = NoJob
    <3>1. a0 = Nowhere
      BY <2>2, NoJobNowhere
    <3>2. QED BY <3>1, NowherePlaced
  <2>3. CASE old = r
    BY <2>3
  <2>4. QED BY <2>1, <2>2, <2>3
<1>2. Notified(a, old, r, s) = Moved(a0, r, s)
  BY DEF Notified
<1> HIDE DEF a0
<1>3. QED BY <1>1, <1>2, MovedPlaced

\* What Placed says of a job that is in channel c.
LEMMA PlacedAt ==
  ASSUME NEW a \in Line, NEW o \in ChannelJob, Placed(a, o),
         NEW c \in Channel, NEW p \in a[c]
  PROVE  /\ a[c] = {p} /\ c \in Up[o.chan]
         /\ \A d \in Up[o.chan] : c \in Up[d] /\ d # c => a[d] = {"running"}
         /\ p # "running" => \A d \in Up[c] : d # c => a[d] = {}
<1>1. /\ c \in Up[o.chan] /\ \E q \in Place : a[c] = {q}
      /\ \A d \in Up[o.chan] : c \in Above(d) => a[d] = {"running"}
  BY DEF Placed
<1>2. a[c] = {p}
  BY <1>1
<1>3. o.chan \in Channel /\ Up[o.chan] \subseteq Channel
  BY UpFacts
<1>4. \A d \in Up[o.chan] : c \in Up[d] /\ d # c => a[d] = {"running"}
  BY <1>1 DEF Above
<1>5. ASSUME p # "running", NEW d \in Up[c], d # c
      PROVE  a[d] = {}
  <2>1. d \in Channel /\ d \in Above(c)
    BY <1>5, UpFacts DEF Above
  <2>2. a[d] # {} => a[c] = {"running"}
    BY <2>1, <1>1 DEF Placed
  <2>3. QED BY <2>2, <1>2, <1>5
<1>6. QED BY <1>1, <1>2, <1>4, <1>5

\* pop() moves a job whose eta has come to the other heap, and clears the eta.
LEMMA DuePlaced ==
  ASSUME NEW a \in Line, NEW o \in ChannelJob, Placed(a, o),
         NEW c \in Channel, "eta" \in a[c]
  PROVE  Placed([a EXCEPT ![c] = {"queue"}], [o EXCEPT !.eta = 0])
<1> DEFINE b == [a EXCEPT ![c] = {"queue"}]
           o1 == [o EXCEPT !.eta = 0]
<1>1. o1 \in ChannelJob /\ o1.chan = o.chan /\ o1.eta = 0 /\ o1 # NoJob
  <2>1. o1 \in ChannelJob
    OBVIOUS
  <2>2. o1.chan = o.chan
    OBVIOUS
  <2>3. o1.eta = 0
    OBVIOUS
  <2> HIDE DEF o1
  <2>4. QED BY <2>1, <2>2, <2>3
<1>2. b[c] = {"queue"} /\ \A d \in Channel : d # c => b[d] = a[d]
  BY DEF Line
<1>3. /\ c \in Up[o.chan]
      /\ \A d \in Up[o.chan] : c \in Up[d] /\ d # c => a[d] = {"running"}
      /\ \A d \in Up[c] : d # c => a[d] = {}
  BY PlacedAt
<1>4. Up[o.chan] \subseteq Channel /\ Up[c] \subseteq Channel
  BY UpFacts
<1> HIDE DEF b, o1
<1>5. SUFFICES ASSUME NEW d \in Channel, b[d] # {}
               PROVE  /\ o1 # NoJob /\ d \in Up[o1.chan]
                      /\ \E q \in Place : b[d] = {q}
                      /\ \A e \in Up[o1.chan] : d \in Above(e) => b[e] = {"running"}
                      /\ "eta" \in b[d] => o1.eta > 0
                      /\ "queue" \in b[d] => o1.eta = 0
  BY DEF Placed, b, o1
<1>6. CASE d = c
  <2>1. \A e \in Up[o.chan] : c \in Above(e) => b[e] = {"running"}
    BY <1>2, <1>3, <1>4 DEF Above
  <2>2. QED BY <1>1, <1>2, <1>3, <1>6, <2>1, "queue" \in Place
<1>7. CASE d # c
  <2>1. a[d] # {} /\ b[d] = a[d]
    BY <1>2, <1>5, <1>7
  <2>2. d \in Up[o.chan] /\ d \notin Up[c]
    BY <2>1, <1>3, <1>7 DEF Placed
  <2>3. c \in Up[d]
    BY <2>2, <1>3, <1>4
  <2>4. a[d] = {"running"}
    BY <2>2, <2>3, <1>3, <1>7
  <2>5. \A e \in Up[o.chan] : d \in Above(e) => b[e] = {"running"}
    <3>1. SUFFICES ASSUME NEW e \in Up[o.chan], d \in Above(e)
                   PROVE  b[e] = {"running"}
      OBVIOUS
    <3>2. a[e] = {"running"}
      BY <2>1, <3>1 DEF Placed
    <3>3. e # c
      BY <2>2, <3>1 DEF Above
    <3>4. QED BY <3>2, <3>3, <1>2, <1>4
  <2>6. QED BY <1>1, <2>1, <2>2, <2>4, <2>5, "running" \in Place
<1>8. QED BY <1>6, <1>7

\* A job a channel yields runs there and is queued in the parent channel.
LEMMA YieldPlaced ==
  ASSUME NEW a \in Line, NEW o \in ChannelJob, Placed(a, o),
         NEW c \in Channel, "queue" \in a[c],
         NEW b, b = [d \in Channel |->
                      IF d = c THEN {"running"}
                      ELSE IF d \in Parents(c) THEN a[d] \cup {"queue"}
                      ELSE a[d]]
  PROVE  b \in Line /\ Placed(b, o)
<1>1. o # NoJob /\ o.eta = 0
  BY DEF Placed
<1>2. /\ a[c] = {"queue"} /\ c \in Up[o.chan]
      /\ \A d \in Up[o.chan] : c \in Up[d] /\ d # c => a[d] = {"running"}
      /\ \A d \in Up[c] : d # c => a[d] = {}
  BY PlacedAt
<1>3. /\ Up[o.chan] \subseteq Channel /\ Up[c] \subseteq Channel
      /\ Up[c] \subseteq Up[o.chan]
  BY <1>2, UpFacts
<1>4. \A d \in Parents(c) : /\ d \in Up[c] /\ d # c
                            /\ \A e \in Up[c] : e # c => e \in Up[d]
  BY DEF Parents, Above
<1>5. /\ b[c] = {"running"}
      /\ \A d \in Parents(c) : b[d] = {"queue"}
      /\ \A d \in Channel : d # c /\ d \notin Parents(c) => b[d] = a[d]
  BY <1>2, <1>3, <1>4
<1>6. b \in Line
  BY DEF Line
<1>7. SUFFICES ASSUME NEW d \in Channel, b[d] # {}
               PROVE  /\ o # NoJob /\ d \in Up[o.chan]
                      /\ \E q \in Place : b[d] = {q}
                      /\ \A e \in Up[o.chan] : d \in Above(e) => b[e] = {"running"}
                      /\ "eta" \in b[d] => o.eta > 0
                      /\ "queue" \in b[d] => o.eta = 0
  BY <1>6 DEF Placed
<1>8. CASE d = c
  <2>1. ASSUME NEW e \in Up[o.chan], c \in Above(e)
        PROVE  b[e] = {"running"}
    <3>1. e # c /\ c \in Up[e] /\ e \in Channel
      BY <2>1, <1>3 DEF Above
    <3>2. e \notin Up[c]
      BY <3>1, UpFacts
    <3>3. QED BY <3>1, <3>2, <1>2, <1>4, <1>5
  <2>2. QED BY <1>1, <1>2, <1>5, <1>8, <2>1, "running" \in Place
<1>9. CASE d \in Parents(c)
  <2>1. ASSUME NEW e \in Up[o.chan], d \in Above(e)
        PROVE  b[e] = {"running"}
    <3>1. e # d /\ d \in Up[e] /\ e \in Channel
      BY <2>1, <1>3 DEF Above
    <3>2. CASE e = c
      BY <3>2, <1>5
    <3>3. CASE e # c
      <4>1. e \notin Up[c]
        BY <3>1, <3>3, <1>4, <1>9, UpFacts
      <4>2. c \in Up[e]
        BY <4>1, <1>2, UpFacts
      <4>3. QED BY <4>1, <4>2, <3>1, <3>3, <1>2, <1>4, <1>5
    <3>4. QED BY <3>2, <3>3
  <2>2. b[d] = {"queue"} /\ d \in Up[o.chan]
    BY <1>9, <1>3, <1>4, <1>5
  <2>3. QED BY <1>1, <2>1, <2>2, "queue" \in Place
<1>10. CASE d # c /\ d \notin Parents(c)
  <2>1. b[d] = a[d]
    BY <1>5, <1>10
  <2>2. /\ d \in Up[o.chan] /\ \E q \in Place : a[d] = {q}
        /\ \A e \in Up[o.chan] : d \in Above(e) => a[e] = {"running"}
        /\ "eta" \in a[d] => o.eta > 0
    BY <2>1, <1>7 DEF Placed
  <2>3. ASSUME NEW e \in Up[o.chan], d \in Above(e)
        PROVE  b[e] = {"running"}
    <3>1. a[e] = {"running"} /\ e \in Channel
      BY <2>2, <2>3, <1>3
    <3>2. e # c /\ e \notin Parents(c)
      BY <3>1, <1>2, <1>4
    <3>3. QED BY <3>1, <3>2, <1>5
  <2>4. QED BY <1>1, <2>1, <2>2, <2>3
<1>11. QED BY <1>8, <1>9, <1>10

\* A busy job that was nowhere, or ran in all its channels, runs in them all
\* once it is notified; a done job is nowhere.
LEMMA NotifiedBusy ==
  ASSUME NEW a \in Line, NEW old \in ChannelJob \cup {NoJob},
         NEW r \in ChannelJob, NEW s \in {"enqueued", "started"}, Placed(a, old),
         a = Nowhere \/ \A c \in Up[r.chan] : a[c] = {"running"}
  PROVE  \A c \in Up[r.chan] : Notified(a, old, r, s)[c] = {"running"}
<1> DEFINE ch == r.chan
           a0 == IF old # NoJob /\ old # r THEN RemoveFrom(a, old.chan) ELSE a
<1>0. ch \in Channel /\ Up[ch] \subseteq Channel /\ ch \in Up[ch]
  BY UpFacts
<1>1. a0 = Nowhere \/ \A c \in Up[ch] : a0[c] = {"running"}
  <2>1. CASE old # NoJob /\ old # r
    BY <2>1, RemoveFromPlaced
  <2>2. CASE ~(old # NoJob /\ old # r)
    BY <2>2
  <2>3. QED BY <2>1, <2>2
<1>2. Notified(a, old, r, s) = SetRunning(a0, ch)
  BY DEF Notified, Moved
<1> HIDE DEF a0
<1>3. CASE a0 = Nowhere
  <2>1. \A d \in Up[ch] : "running" \notin a0[d]
    BY <1>0, <1>3 DEF Nowhere
  <2>2. QED BY <1>0, <1>2, <2>1 DEF SetRunning
<1>4. CASE \A c \in Up[ch] : a0[c] = {"running"}
  <2>1. ASSUME NEW c \in Up[ch] PROVE SetRunning(a0, ch)[c] = {"running"}
    BY <1>0, <1>4, <2>1 DEF SetRunning
  <2>2. QED BY <1>2, <2>1
<1>5. QED BY <1>1, <1>3, <1>4

LEMMA NotifiedDone ==
  ASSUME NEW a \in Line, NEW old \in ChannelJob \cup {NoJob},
         NEW r \in ChannelJob, Placed(a, old)
  PROVE  Notified(a, old, r, "done") = Nowhere
<1> DEFINE a0 == IF old # NoJob /\ old # r THEN RemoveFrom(a, old.chan) ELSE a
<1>1. a0 \in Line /\ Placed(a0, r)
  <2>1. CASE old # NoJob /\ old # r
    <3>1. a0 = Nowhere
      BY <2>1, RemoveFromPlaced
    <3>2. QED BY <3>1, NowherePlaced
  <2>2. CASE old = NoJob
    <3>1. a0 = Nowhere
      BY <2>2, NoJobNowhere
    <3>2. QED BY <3>1, NowherePlaced
  <2>3. CASE old = r
    BY <2>3
  <2>4. QED BY <2>1, <2>2, <2>3
<1>2. Notified(a, old, r, "done") = RemoveFrom(a0, r.chan)
  BY DEF Notified, Moved, SetDone
<1> HIDE DEF a0
<1>3. QED BY <1>1, <1>2, RemoveFromPlaced

\* A job that runs in the root runs in all its channels.
LEMMA RootRuns ==
  ASSUME NEW a \in Line, NEW o \in ChannelJob, Placed(a, o),
         a[Root] = {"running"}
  PROVE  \A c \in Up[o.chan] : a[c] = {"running"}
<1>1. Root \in Channel /\ \A c \in Channel : Root \in Up[c]
  OBVIOUS
<1>2. \A d \in Up[o.chan] : Root \in Above(d) => a[d] = {"running"}
  BY <1>1 DEF Placed
<1>3. Up[o.chan] \subseteq Channel
  BY UpFacts
<1>4. QED BY <1>1, <1>2, <1>3 DEF Above

-----------------------------------------------------------------------------
(* What every operation of the tree preserves.                             *)

ChInv == ChTypeOK /\ PlacedOnce

LEMMA OrderFacts ==
  /\ Len(Order) \in Nat /\ Len(Order) > 0
  /\ \A i \in DOMAIN Order : i \in 1..Len(Order) /\ Order[i] \in Channel
<1>1. Order \in Seq(Channel) /\ Root \in Channel
  OBVIOUS
<1> HIDE TreeAssumption
<1>2. Len(Order) \in Nat /\ DOMAIN Order = 1..Len(Order)
  BY <1>1
<1>3. PICK i \in DOMAIN Order : Order[i] = Root
  BY <1>1, OrderAssumption
<1>4. Len(Order) > 0
  BY <1>2, <1>3
<1>5. \A k \in DOMAIN Order : Order[k] \in Channel
  BY <1>1
<1>6. QED BY <1>2, <1>4, <1>5

LEMMA ThrottleType == \A c \in Channel : Throttle[c] \in Nat
OBVIOUS

LEMMA NoJobFacts == NoJob \notin ChannelJob
OBVIOUS

\* From here on the facts about the tree are cited through the lemmas.
HIDE TreeAssumption

\* ChannelManager.notify keeps every job placed once.
LEMMA NotifyInv ==
  ASSUME ChInv, NEW j \in Job, NEW row \in ChannelJob, NEW s,
         Notify(j, row, s)
  PROVE  ChInv'
<1> DEFINE b == Notified(at[j], obj[j], row, s)
<1>1. at[j] \in Line /\ obj[j] \in ChannelJob \cup {NoJob} /\ Placed(at[j], obj[j])
  BY DEF ChInv, ChTypeOK, PlacedOnce, Line
<1>2. b \in Line /\ Placed(b, row)
  BY <1>1, NotifiedPlaced
<1> HIDE DEF b
<1>3. at' = [at EXCEPT ![j] = b] /\ obj' = [obj EXCEPT ![j] = row]
  BY DEF Notify, b
<1>4. ChTypeOK'
  BY <1>2, <1>3 DEF ChInv, ChTypeOK, Notify, Line
<1>5. ASSUME NEW i \in Job PROVE Placed(at'[i], obj'[i])
  <2>1. CASE i = j
    BY <2>1, <1>2, <1>3 DEF ChInv, ChTypeOK
  <2>2. CASE i # j
    <3>1. at'[i] = at[i] /\ obj'[i] = obj[i]
      BY <2>2, <1>3 DEF ChInv, ChTypeOK
    <3>2. QED BY <3>1 DEF ChInv, PlacedOnce
  <2>3. QED BY <2>1, <2>2
<1>6. QED BY <1>4, <1>5 DEF ChInv, PlacedOnce

\* A removed job is in no channel, whether it was known or not.
LEMMA RemovedLine ==
  ASSUME ChInv, NEW j \in Job
  PROVE  (IF obj[j] = NoJob THEN at[j] ELSE RemoveFrom(at[j], obj[j].chan)) = Nowhere
<1>1. at[j] \in Line /\ obj[j] \in ChannelJob \cup {NoJob} /\ Placed(at[j], obj[j])
  BY DEF ChInv, ChTypeOK, PlacedOnce, Line
<1>2. CASE obj[j] = NoJob
  BY <1>1, <1>2, NoJobNowhere
<1>3. CASE obj[j] # NoJob
  BY <1>1, <1>3, RemoveFromPlaced
<1>4. QED BY <1>2, <1>3

LEMMA RemoveJobInv ==
  ASSUME ChInv, NEW j \in Job, RemoveJob(j)
  PROVE  ChInv'
<1>1. at' = [at EXCEPT ![j] = Nowhere] /\ obj' = [obj EXCEPT ![j] = NoJob]
  <2>1. CASE obj[j] = NoJob
    <3>1. at[j] = Nowhere
      BY <2>1, RemovedLine
    <3>2. QED BY <2>1, <3>1 DEF RemoveJob, ChInv, ChTypeOK
  <2>2. CASE obj[j] # NoJob
    BY <2>2, RemovedLine DEF RemoveJob
  <2>3. QED BY <2>1, <2>2
<1>2. ChTypeOK'
  BY <1>1, NowherePlaced DEF ChInv, ChTypeOK, RemoveJob, Line
<1>3. ASSUME NEW i \in Job PROVE Placed(at'[i], obj'[i])
  <2>1. CASE i = j
    BY <2>1, <1>1, NowherePlaced DEF ChInv, ChTypeOK
  <2>2. CASE i # j
    <3>1. at'[i] = at[i] /\ obj'[i] = obj[i]
      BY <2>2, <1>1 DEF ChInv, ChTypeOK
    <3>2. QED BY <3>1 DEF ChInv, PlacedOnce
  <2>3. QED BY <2>1, <2>2
<1>4. QED BY <1>2, <1>3 DEF ChInv, PlacedOnce

LEMMA RemoveDbInv ==
  ASSUME ChInv, RemoveDb
  PROVE  ChInv'
<1>1. at' = [j \in Job |-> Nowhere] /\ obj' = [j \in Job |-> NoJob]
  BY RemovedLine DEF RemoveDb
<1>2. ChTypeOK'
  BY <1>1, NowherePlaced DEF ChInv, ChTypeOK, RemoveDb, Line
<1>3. QED BY <1>1, <1>2, NowherePlaced DEF ChInv, PlacedOnce

\* The jobs that pop() moves out of the eta heap of channel c stay placed.
LEMMA WithDueInv ==
  ASSUME ChInv, NEW c \in Channel
  PROVE  /\ WithDue(c) \in [Job -> Line]
         /\ EtaCleared(c) \in [Job -> ChannelJob \cup {NoJob}]
         /\ \A j \in Job : Placed(WithDue(c)[j], EtaCleared(c)[j])
<1>1. SUFFICES ASSUME NEW j \in Job
               PROVE  /\ WithDue(c)[j] \in Line
                      /\ EtaCleared(c)[j] \in ChannelJob \cup {NoJob}
                      /\ Placed(WithDue(c)[j], EtaCleared(c)[j])
  BY DEF WithDue, EtaCleared
<1>2. at[j] \in Line /\ obj[j] \in ChannelJob \cup {NoJob} /\ Placed(at[j], obj[j])
  BY DEF ChInv, ChTypeOK, PlacedOnce, Line
<1>3. CASE j \notin Due(c)
  BY <1>2, <1>3 DEF WithDue, EtaCleared
<1>4. CASE j \in Due(c)
  <2>1. "eta" \in at[j][c] /\ obj[j] \in ChannelJob
    BY <1>2, <1>4 DEF Due, In, Placed
  <2>2. WithDue(c)[j] = [at[j] EXCEPT ![c] = {"queue"}]
    BY <1>4 DEF WithDue
  <2>3. EtaCleared(c)[j] = [obj[j] EXCEPT !.eta = 0]
    BY <1>4 DEF EtaCleared
  <2>4. [at[j] EXCEPT ![c] = {"queue"}] \in Line
    BY <1>2 DEF Line
  <2>5. [obj[j] EXCEPT !.eta = 0] \in ChannelJob
    BY <2>1
  <2>6. Placed([at[j] EXCEPT ![c] = {"queue"}], [obj[j] EXCEPT !.eta = 0])
    BY <1>2, <2>1, DuePlaced
  <2>7. QED BY <2>2, <2>3, <2>4, <2>5, <2>6
<1>5. QED BY <1>3, <1>4

LEMMA LeaveType == ASSUME turn \in 1..Len(Order), Leave PROVE turn' \in 0..Len(Order)
BY OrderFacts DEF Leave

LEMMA StartRunInv ==
  ASSUME ChInv, NEW now \in Nat, StartRun(now) PROVE ChInv'
<1>1. ChTypeOK'
  BY OrderFacts DEF ChInv, ChTypeOK, StartRun
<1>2. PlacedOnce'
  BY DEF ChInv, PlacedOnce, StartRun
<1>3. QED BY <1>1, <1>2 DEF ChInv

LEMMA UnpausedType ==
  ASSUME ChTypeOK, NEW c PROVE Unpaused(c) \in [Channel -> Nat]
BY DEF ChTypeOK, Unpaused

\* No step of get_jobs_to_run loses a job or puts it in two collections.
LEMMA RunStepInv ==
  ASSUME ChInv, NEW c \in Channel, RunStep(c)
  PROVE  ChInv'
<1>0. ChTypeOK /\ PlacedOnce /\ Len(Order) \in Nat
  BY OrderFacts DEF ChInv
<1>1. CASE LeavePaused(c)
  <2>1. turn' \in 0..Len(Order)
    BY <1>1, LeaveType, OrderFacts DEF LeavePaused, Here
  <2>2. ChTypeOK'
    BY <1>0, <1>1, <2>1 DEF LeavePaused, ChTypeOK
  <2>3. PlacedOnce'
    BY <1>0, <1>1 DEF LeavePaused, PlacedOnce
  <2>4. QED BY <2>2, <2>3 DEF ChInv
<1>2. CASE LeaveFull(c)
  <2>1. turn' \in 0..Len(Order)
    BY <1>2, LeaveType, OrderFacts DEF LeaveFull, Here
  <2>2. ChTypeOK'
    BY <1>0, <1>2, <2>1, UnpausedType DEF LeaveFull, ChTypeOK
  <2>3. PlacedOnce'
    BY <1>0, <1>2 DEF LeaveFull, PlacedOnce
  <2>4. QED BY <2>2, <2>3 DEF ChInv
<1>3. CASE LeaveEmpty(c)
  <2>1. turn' \in 0..Len(Order)
    BY <1>3, LeaveType, OrderFacts DEF LeaveEmpty, Here
  <2>2. ChTypeOK'
    BY <1>0, <1>3, <2>1, UnpausedType, WithDueInv DEF LeaveEmpty, ChTypeOK, Line
  <2>3. PlacedOnce'
    BY <1>3, WithDueInv DEF LeaveEmpty, PlacedOnce
  <2>4. QED BY <2>2, <2>3 DEF ChInv
<1>4. ASSUME NEW j \in Job, Yield(c, j) PROVE ChInv'
  <2> DEFINE w == WithDue(c)
             b == [d \in Channel |->
                    IF d = c THEN {"running"}
                    ELSE IF d \in Parents(c) THEN at[j][d] \cup {"queue"}
                    ELSE at[j][d]]
  <2>1. /\ w \in [Job -> Line] /\ EtaCleared(c) \in [Job -> ChannelJob \cup {NoJob}]
        /\ \A i \in Job : Placed(w[i], EtaCleared(c)[i])
    BY WithDueInv
  <2>2. "queue" \in w[j][c]
    BY <1>4, <1>0 DEF Yield, IsFirstReady, Ready, Due, WithDue, In, ChTypeOK
  <2>3. \A d \in Channel : d # c => w[j][d] = at[j][d]
    BY <1>0 DEF WithDue, ChTypeOK
  <2>4. b = [d \in Channel |->
              IF d = c THEN {"running"}
              ELSE IF d \in Parents(c) THEN w[j][d] \cup {"queue"}
              ELSE w[j][d]]
    BY <2>3
  <2>5. at' = [w EXCEPT ![j] = b] /\ obj' = EtaCleared(c)
    BY <1>4 DEF Yield
  <2> HIDE DEF w, b
  <2>6. EtaCleared(c)[j] \in ChannelJob
    BY <2>1, <2>2, NoJobNowhere DEF Nowhere
  <2>7. b \in Line /\ Placed(b, EtaCleared(c)[j])
    BY <2>1, <2>2, <2>4, <2>6, YieldPlaced
  <2>8. at' \in [Job -> Line] /\ \A i \in Job : Placed(at'[i], obj'[i])
    BY <2>1, <2>5, <2>7
  <2>9. turn' \in 0..Len(Order)
    <3>1. Here(c) /\ (Leave \/ turn' = turn)
      BY <1>4, Zenon DEF Yield
    <3>2. turn \in 1..Len(Order)
      BY <3>1, OrderFacts DEF Here
    <3>3. CASE Leave
      BY <3>2, <3>3, LeaveType
    <3>4. CASE turn' = turn
      BY <3>2, <3>4, <1>0
    <3>5. QED BY <3>1, <3>3, <3>4
  <2>10. pauseUntil' \in [Channel -> Nat]
    <3>1. \/ pauseUntil' = pauseUntil
          \/ pauseUntil' = [pauseUntil EXCEPT ![c] = runNow + Throttle[c]]
      BY <1>4 DEF Yield
    <3>2. runNow \in Nat /\ pauseUntil \in [Channel -> Nat]
      BY <1>0 DEF ChTypeOK
    <3>3. Throttle[c] \in Nat
      BY ThrottleType
    <3>4. runNow + Throttle[c] \in Nat
      BY <3>2, <3>3
    <3>5. QED BY <3>1, <3>2, <3>4
  <2>11. ChTypeOK'
    BY <1>0, <1>4, <2>1, <2>5, <2>8, <2>9, <2>10 DEF ChTypeOK, Yield, Line
  <2>12. QED BY <2>8, <2>11 DEF ChInv, PlacedOnce
<1>5. QED BY <1>1, <1>2, <1>3, <1>4 DEF RunStep

\* get_jobs_to_run moves the jobs that wait in a queue of channel c only.
LEMMA RunStepKeeps ==
  ASSUME ChInv, NEW c \in Channel, RunStep(c),
         NEW j \in Job, at[j][c] \cap {"queue", "eta"} = {}
  PROVE  at'[j] = at[j]
<1>1. WithDue(c)[j] = at[j]
  BY DEF WithDue, Due, In
<1>2. CASE LeavePaused(c) \/ LeaveFull(c)
  BY <1>2 DEF LeavePaused, LeaveFull
<1>3. CASE LeaveEmpty(c)
  BY <1>1, <1>3 DEF LeaveEmpty
<1>4. ASSUME NEW i \in Job, Yield(c, i) PROVE at'[j] = at[j]
  <2>1. i \in Ready(c)
    BY <1>4 DEF Yield, IsFirstReady
  <2>2. i # j
    BY <2>1 DEF Ready, Due, In
  <2>3. at'[j] = WithDue(c)[j]
    BY <1>4, <2>2 DEF Yield, WithDue
  <2>4. QED BY <1>1, <2>3
<1>5. QED BY <1>2, <1>3, <1>4 DEF RunStep

LEMMA RunStepChan ==
  ASSUME ChInv, NEW c \in Channel, RunStep(c), NEW j \in Job, obj'[j] # NoJob
  PROVE  obj[j] # NoJob /\ obj'[j].chan = obj[j].chan
<1>1. obj' = obj \/ obj' = EtaCleared(c)
  BY DEF RunStep, LeavePaused, LeaveFull, LeaveEmpty, Yield
<1>2. CASE j \in Due(c)
  <2>1. "eta" \in at[j][c] /\ obj[j] \in ChannelJob \cup {NoJob} /\ Placed(at[j], obj[j])
    BY <1>2 DEF Due, In, ChInv, ChTypeOK, PlacedOnce
  <2>2. obj[j] # NoJob
    BY <2>1 DEF Placed
  <2>3. EtaCleared(c)[j] = [obj[j] EXCEPT !.eta = 0]
    BY <1>2 DEF EtaCleared
  <2>4. [obj[j] EXCEPT !.eta = 0].chan = obj[j].chan
    BY <2>1, <2>2
  <2>5. QED BY <1>1, <2>2, <2>3, <2>4
<1>3. CASE j \notin Due(c)
  <2>1. EtaCleared(c)[j] = obj[j]
    BY <1>3 DEF EtaCleared
  <2>2. QED BY <1>1, <2>1
<1>4. QED BY <1>2, <1>3

LEMMA YieldRuns ==
  ASSUME ChInv, NEW c \in Channel, NEW j \in Job, Yield(c, j)
  PROVE  at'[j][c] = {"running"} /\ at[j][c] \cap {"queue", "eta"} # {}
<1>1. j \in Ready(c)
  BY DEF Yield, IsFirstReady
<1>2. DOMAIN WithDue(c) = Job
  BY DEF WithDue
<1>3. at'[j][c] = {"running"}
  BY <1>2 DEF Yield
<1>4. QED BY <1>1, <1>3 DEF Ready, Due, In
=============================================================================
