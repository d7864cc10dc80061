--------------------------- MODULE ProgramProofs ---------------------------
(***************************************************************************)
(* Theorems about the programs: the device program, whose services pass    *)
(* commands and frames to one another, for any number of messages and lost *)
(* connections; then the wiring, for any list of calls of init_service     *)
(* that announces the names the handlers of its actors use.                *)
(***************************************************************************)
EXTENDS DeviceAgent, Wiring, TLAPS

(* The stream of frames: those given to the client, then those that wait  *)
(* as writes in the mailbox of manager.  D[n] are the frames due for the   *)
(* n-th command and h commands have been handled by control.               *)

IsReply(f) == f.frame \in {"answer", "notify"}

IsWrite(m) == m.event = "write"

HandedDue(hd, h, D) ==
  \A i \in DOMAIN hd : IsReply(hd[i]) => hd[i].of \in 1..h /\ hd[i] \in D[hd[i].of]

WritesDue(mb, h, D) ==
  \A i \in DOMAIN mb : IsWrite(mb[i]) =>
    /\ IsReply(mb[i].frame)
    /\ mb[i].frame.of \in 1..h
    /\ mb[i].frame \in D[mb[i].frame.of]

HandedOrdered(hd) ==
  \A i, j \in DOMAIN hd : i < j /\ IsReply(hd[i]) /\ IsReply(hd[j]) => Before(hd[i], hd[j])

HandedFirst(mb, hd) ==
  \A i \in DOMAIN hd, j \in DOMAIN mb :
    IsReply(hd[i]) /\ IsWrite(mb[j]) => Before(hd[i], mb[j].frame)

WritesOrdered(mb) ==
  \A i, j \in DOMAIN mb :
    i < j /\ IsWrite(mb[i]) /\ IsWrite(mb[j]) => Before(mb[i].frame, mb[j].frame)

NonePassed(mb, hd, h, D) ==
  \A n \in 1..h : \A f \in D[n] :
    \/ \E i \in DOMAIN hd : hd[i] = f
    \/ \E i \in DOMAIN mb : IsWrite(mb[i]) /\ mb[i].frame = f

FrameStream(mb, hd, h, D) ==
  /\ HandedDue(hd, h, D) /\ WritesDue(mb, h, D)
  /\ HandedOrdered(hd) /\ HandedFirst(mb, hd) /\ WritesOrdered(mb)
  /\ NonePassed(mb, hd, h, D)

LEMMA AppendKeeps ==
  ASSUME NEW M, NEW s \in Seq(M), NEW x \in M
  PROVE  /\ Append(s, x) \in Seq(M)
         /\ \A i \in DOMAIN s : i \in DOMAIN Append(s, x) /\ Append(s, x)[i] = s[i]
         /\ \E i \in DOMAIN Append(s, x) : Append(s, x)[i] = x
  <1>1. Len(s) + 1 \in DOMAIN Append(s, x) /\ Append(s, x)[Len(s) + 1] = x
    OBVIOUS
  <1> QED BY <1>1

LEMMA StreamPutOther ==
  ASSUME NEW M, NEW mb \in Seq(M), NEW F, NEW hd \in Seq(F), NEW h \in Nat, NEW D,
         FrameStream(mb, hd, h, D), NEW m \in M, ~IsWrite(m)
  PROVE  FrameStream(Append(mb, m), hd, h, D)
  <1> DEFINE nb == Append(mb, m)
  <1>1. /\ nb \in Seq(M) /\ Len(nb) = Len(mb) + 1
        /\ \A i \in DOMAIN nb : IF i \in DOMAIN mb THEN nb[i] = mb[i] ELSE ~IsWrite(nb[i])
        /\ DOMAIN mb \subseteq DOMAIN nb
    OBVIOUS
  <1> HIDE DEF nb
  <1>2. HandedDue(hd, h, D) /\ HandedOrdered(hd)
    BY DEF FrameStream
  <1>3. WritesDue(nb, h, D)
    BY <1>1 DEF FrameStream, WritesDue
  <1>4. HandedFirst(nb, hd)
    BY <1>1 DEF FrameStream, HandedFirst
  <1>5. WritesOrdered(nb)
    BY <1>1 DEF FrameStream, WritesOrdered
  <1>6. NonePassed(nb, hd, h, D)
    BY <1>1 DEF FrameStream, NonePassed
  <1> QED BY <1>2, <1>3, <1>4, <1>5, <1>6 DEF FrameStream, nb

LEMMA StreamTakeOther ==
  ASSUME NEW M, NEW mb \in Seq(M), NEW F, NEW hd \in Seq(F), NEW h \in Nat, NEW D,
         FrameStream(mb, hd, h, D), mb # <<>>, ~IsWrite(Head(mb))
  PROVE  FrameStream(Tail(mb), hd, h, D)
  <1> DEFINE nb == Tail(mb)
  <1>1. /\ nb \in Seq(M)
        /\ \A i \in DOMAIN nb : i + 1 \in DOMAIN mb /\ nb[i] = mb[i + 1]
        /\ \A i \in DOMAIN mb : IsWrite(mb[i]) => i - 1 \in DOMAIN nb /\ nb[i - 1] = mb[i]
        /\ DOMAIN nb \subseteq Nat
    OBVIOUS
  <1> HIDE DEF nb
  <1>2. HandedDue(hd, h, D) /\ HandedOrdered(hd)
    BY DEF FrameStream
  <1>3. WritesDue(nb, h, D)
    BY <1>1 DEF FrameStream, WritesDue
  <1>4. HandedFirst(nb, hd)
    BY <1>1 DEF FrameStream, HandedFirst
  <1>5. WritesOrdered(nb)
    <2> SUFFICES ASSUME NEW i \in DOMAIN nb, NEW j \in DOMAIN nb, i < j,
                        IsWrite(nb[i]), IsWrite(nb[j])
                 PROVE  Before(nb[i].frame, nb[j].frame)
      BY DEF WritesOrdered
    <2>1. i + 1 \in DOMAIN mb /\ j + 1 \in DOMAIN mb /\ i + 1 < j + 1
      BY <1>1
    <2>2. Before(mb[i + 1].frame, mb[j + 1].frame)
      BY <1>1, <2>1 DEF FrameStream, WritesOrdered
    <2> QED BY <1>1, <2>2
  <1>6. NonePassed(nb, hd, h, D)
    <2> SUFFICES ASSUME NEW n \in 1..h, NEW f \in D[n]
                 PROVE  \/ \E i \in DOMAIN hd : hd[i] = f
                        \/ \E i \in DOMAIN nb : IsWrite(nb[i]) /\ nb[i].frame = f
      BY DEF NonePassed
    <2>1. CASE \E i \in DOMAIN hd : hd[i] = f
      BY <2>1
    <2>2. CASE \E i \in DOMAIN mb : IsWrite(mb[i]) /\ mb[i].frame = f
      BY <1>1, <2>2
    <2> QED BY <2>1, <2>2 DEF FrameStream, NonePassed
  <1> QED BY <1>2, <1>3, <1>4, <1>5, <1>6 DEF FrameStream, nb

\* A request of the device itself is given to the client.
LEMMA StreamRequest ==
  ASSUME NEW M, NEW mb \in Seq(M), NEW F, NEW hd \in Seq(F), NEW h \in Nat, NEW D,
         FrameStream(mb, hd, h, D), NEW f \in F, ~IsReply(f)
  PROVE  FrameStream(mb, Append(hd, f), h, D)
  <1> DEFINE nd == Append(hd, f)
  <1>1. /\ nd \in Seq(F)
        /\ \A i \in DOMAIN nd : IF i \in DOMAIN hd THEN nd[i] = hd[i] ELSE ~IsReply(nd[i])
        /\ DOMAIN hd \subseteq DOMAIN nd
    OBVIOUS
  <1> HIDE DEF nd
  <1>2. WritesDue(mb, h, D) /\ WritesOrdered(mb)
    BY DEF FrameStream
  <1>3. HandedDue(nd, h, D)
    BY <1>1 DEF FrameStream, HandedDue
  <1>4. HandedFirst(mb, nd)
    BY <1>1 DEF FrameStream, HandedFirst
  <1>5. HandedOrdered(nd)
    BY <1>1 DEF FrameStream, HandedOrdered
  <1>6. NonePassed(mb, nd, h, D)
    BY <1>1 DEF FrameStream, NonePassed
  <1> QED BY <1>2, <1>3, <1>4, <1>5, <1>6 DEF FrameStream, nd

\* The write at the head of the mailbox goes to the client.
LEMMA StreamWrite ==
  ASSUME NEW M, NEW mb \in Seq(M), NEW F, NEW hd \in Seq(F), NEW h \in Nat, NEW D,
         FrameStream(mb, hd, h, D), mb # <<>>, IsWrite(Head(mb)), Head(mb).frame \in F
  PROVE  FrameStream(Tail(mb), Append(hd, Head(mb).frame), h, D)
  <1> DEFINE nb == Tail(mb)
             f == Head(mb).frame
             nd == Append(hd, f)
  <1>1. /\ nb \in Seq(M)
        /\ \A i \in DOMAIN nb : i + 1 \in DOMAIN mb /\ nb[i] = mb[i + 1] /\ 1 < i + 1
        /\ \A i \in DOMAIN mb : i # 1 => i - 1 \in DOMAIN nb /\ nb[i - 1] = mb[i]
        /\ DOMAIN nb \subseteq Nat
        /\ 1 \in DOMAIN mb /\ IsWrite(mb[1]) /\ mb[1].frame = f
    OBVIOUS
  <1>2. /\ nd \in Seq(F)
        /\ \A i \in DOMAIN nd : IF i \in DOMAIN hd THEN nd[i] = hd[i]
                                ELSE nd[i] = f /\ \A j \in DOMAIN nd : j <= i
        /\ DOMAIN hd \subseteq DOMAIN nd
        /\ \E i \in DOMAIN nd : nd[i] = f
    OBVIOUS
  <1> HIDE DEF nb, f, nd
  <1>3. IsReply(f) /\ f.of \in 1..h /\ f \in D[f.of]
    BY <1>1 DEF FrameStream, WritesDue
  <1>4. HandedDue(nd, h, D)
    BY <1>2, <1>3 DEF FrameStream, HandedDue
  <1>5. WritesDue(nb, h, D)
    BY <1>1 DEF FrameStream, WritesDue
  <1>6. HandedOrdered(nd)
    <2> SUFFICES ASSUME NEW i \in DOMAIN nd, NEW j \in DOMAIN nd, i < j,
                        IsReply(nd[i]), IsReply(nd[j])
                 PROVE  Before(nd[i], nd[j])
      BY DEF HandedOrdered
    <2>1. i \in DOMAIN hd /\ nd[i] = hd[i]
      BY <1>2
    <2>2. CASE j \in DOMAIN hd
      BY <1>2, <2>1, <2>2 DEF FrameStream, HandedOrdered
    <2>3. CASE j \notin DOMAIN hd
      <3>1. Before(hd[i], mb[1].frame)
        BY <1>1, <2>1 DEF FrameStream, HandedFirst
      <3> QED BY <1>1, <1>2, <2>1, <2>3, <3>1
    <2> QED BY <2>2, <2>3
  <1>7. HandedFirst(nb, nd)
    <2> SUFFICES ASSUME NEW i \in DOMAIN nd, NEW j \in DOMAIN nb,
                        IsReply(nd[i]), IsWrite(nb[j])
                 PROVE  Before(nd[i], nb[j].frame)
      BY DEF HandedFirst
    <2>1. CASE i \in DOMAIN hd
      BY <1>1, <1>2, <2>1 DEF FrameStream, HandedFirst
    <2>2. CASE i \notin DOMAIN hd
      <3>1. Before(mb[1].frame, mb[j + 1].frame)
        BY <1>1 DEF FrameStream, WritesOrdered
      <3> QED BY <1>1, <1>2, <2>2, <3>1
    <2> QED BY <2>1, <2>2
  <1>8. WritesOrdered(nb)
    <2> SUFFICES ASSUME NEW i \in DOMAIN nb, NEW j \in DOMAIN nb, i < j,
                        IsWrite(nb[i]), IsWrite(nb[j])
                 PROVE  Before(nb[i].frame, nb[j].frame)
      BY DEF WritesOrdered
    <2>1. i + 1 \in DOMAIN mb /\ j + 1 \in DOMAIN mb /\ i + 1 < j + 1
      BY <1>1
    <2>2. Before(mb[i + 1].frame, mb[j + 1].frame)
      BY <1>1, <2>1 DEF FrameStream, WritesOrdered
    <2> QED BY <1>1, <2>2
  <1>9. NonePassed(nb, nd, h, D)
    <2> SUFFICES ASSUME NEW n \in 1..h, NEW g \in D[n]
                 PROVE  \/ \E i \in DOMAIN nd : nd[i] = g
                        \/ \E i \in DOMAIN nb : IsWrite(nb[i]) /\ nb[i].frame = g
      BY DEF NonePassed
    <2>1. CASE \E i \in DOMAIN hd : hd[i] = g
      BY <1>2, <2>1
    <2>2. CASE \E i \in DOMAIN mb : IsWrite(mb[i]) /\ mb[i].frame = g
      <3>1. PICK i \in DOMAIN mb : IsWrite(mb[i]) /\ mb[i].frame = g
        BY <2>2
      <3>2. CASE i = 1
        BY <1>1, <1>2, <3>1, <3>2
      <3>3. CASE i # 1
        BY <1>1, <3>1, <3>3
      <3> QED BY <3>2, <3>3
    <2> QED BY <2>1, <2>2 DEF FrameStream, NonePassed
  <1> QED BY <1>4, <1>5, <1>6, <1>7, <1>8, <1>9 DEF FrameStream, nb, nd, f

\* Control handles one more command and puts a frame for it into the mailbox.
LEMMA StreamPut ==
  ASSUME NEW M, NEW mb \in Seq(M), NEW F, NEW hd \in Seq(F),
         NEW h \in Nat, NEW k \in Nat, h <= k, NEW D, NEW w \in M, IsWrite(w),
         HandedDue(hd, k, D), WritesDue(mb, k, D),
         HandedOrdered(hd), HandedFirst(mb, hd), WritesOrdered(mb),
         IsReply(w.frame), w.frame.of \in 1..k, w.frame \in D[w.frame.of],
         \A i \in DOMAIN hd : IsReply(hd[i]) => Before(hd[i], w.frame),
         \A i \in DOMAIN mb : IsWrite(mb[i]) => Before(mb[i].frame, w.frame)
  PROVE  /\ WritesDue(Append(mb, w), k, D)
         /\ HandedFirst(Append(mb, w), hd)
         /\ WritesOrdered(Append(mb, w))
  <1> DEFINE nb == Append(mb, w)
  <1>1. /\ nb \in Seq(M)
        /\ \A i \in DOMAIN nb : IF i \in DOMAIN mb THEN nb[i] = mb[i]
                                ELSE nb[i] = w /\ \A j \in DOMAIN nb : j <= i
        /\ DOMAIN mb \subseteq DOMAIN nb /\ DOMAIN nb \subseteq Nat
    OBVIOUS
  <1> HIDE DEF nb
  <1>2. WritesDue(nb, k, D)
    BY <1>1 DEF WritesDue
  <1>3. HandedFirst(nb, hd)
    BY <1>1 DEF HandedFirst
  <1>4. WritesOrdered(nb)
    <2> SUFFICES ASSUME NEW i \in DOMAIN nb, NEW j \in DOMAIN nb, i < j,
                        IsWrite(nb[i]), IsWrite(nb[j])
                 PROVE  Before(nb[i].frame, nb[j].frame)
      BY DEF WritesOrdered
    <2>1. i \in DOMAIN mb /\ nb[i] = mb[i]
      BY <1>1
    <2>2. CASE j \in DOMAIN mb
      BY <1>1, <2>1, <2>2 DEF WritesOrdered
    <2>3. CASE j \notin DOMAIN mb
      BY <1>1, <2>1, <2>3
    <2> QED BY <2>2, <2>3
  <1> QED BY <1>2, <1>3, <1>4 DEF nb

\* All frames of the stream are of handled commands, so a frame of the next
\* command comes after them.
LEMMA StreamBefore ==
  ASSUME NEW mb, NEW hd, NEW h \in Nat, NEW D, FrameStream(mb, hd, h, D),
         NEW f, f.of = h + 1
  PROVE  /\ \A i \in DOMAIN hd : IsReply(hd[i]) => Before(hd[i], f)
         /\ \A i \in DOMAIN mb : IsWrite(mb[i]) => Before(mb[i].frame, f)
         /\ HandedDue(hd, h + 1, D) /\ WritesDue(mb, h + 1, D)
  <1>1. \A x \in 1..h : x < f.of /\ x \in 1..(h + 1)
    OBVIOUS
  <1> QED BY <1>1 DEF FrameStream, HandedDue, WritesDue, Before

LEMMA StreamSwitch ==
  ASSUME NEW M, NEW mb \in Seq(M), NEW F, NEW hd \in Seq(F), NEW h \in Nat, NEW D,
         FrameStream(mb, hd, h, D), NEW v \in M, IsWrite(v), NEW w \in M, IsWrite(w),
         v.frame.frame = "answer", v.frame.of = h + 1,
         w.frame.frame = "notify", w.frame.of = h + 1,
         D[h + 1] = {v.frame, w.frame}
  PROVE  FrameStream(mb \o <<v, w>>, hd, h + 1, D)
  <1> DEFINE nb == Append(mb, v)
             k == h + 1
  <1>1. mb \o <<v, w>> = Append(nb, w) /\ nb \in Seq(M) /\ Append(nb, w) \in Seq(M)
    OBVIOUS
  <1>2. h <= k /\ k \in Nat /\ k \in 1..k
    OBVIOUS
  <1>3. \A i \in DOMAIN nb : IF i \in DOMAIN mb THEN nb[i] = mb[i] ELSE nb[i] = v
    OBVIOUS
  <1>4. /\ \A i \in DOMAIN mb : i \in DOMAIN nb /\ nb[i] = mb[i]
        /\ \E i \in DOMAIN nb : nb[i] = v
    BY AppendKeeps
  <1> HIDE DEF nb
  <1> DEFINE nw == Append(nb, w)
  <1>5. /\ \A i \in DOMAIN nb : i \in DOMAIN nw /\ nw[i] = nb[i]
        /\ \E i \in DOMAIN nw : nw[i] = w
    <2>1. nb \in Seq(M)
      BY <1>1
    <2>2. /\ \A i \in DOMAIN nb : i \in DOMAIN nw /\ nw[i] = nb[i]
          /\ Len(nb) + 1 \in DOMAIN nw /\ nw[Len(nb) + 1] = w
      BY <2>1
    <2> HIDE DEF nw
    <2> QED BY <2>2
  <1> HIDE DEF k, nw
  <1>6. IsReply(v.frame) /\ IsReply(w.frame) /\ Before(v.frame, w.frame)
    BY DEF IsReply, Before
  <1>7. HandedOrdered(hd) /\ HandedFirst(mb, hd) /\ WritesOrdered(mb)
    BY DEF FrameStream
  <1>8. /\ \A i \in DOMAIN hd : IsReply(hd[i]) => Before(hd[i], v.frame)
        /\ \A i \in DOMAIN mb : IsWrite(mb[i]) => Before(mb[i].frame, v.frame)
        /\ HandedDue(hd, k, D) /\ WritesDue(mb, k, D)
    BY StreamBefore DEF k
  <1>9. /\ \A i \in DOMAIN hd : IsReply(hd[i]) => Before(hd[i], w.frame)
        /\ \A i \in DOMAIN mb : IsWrite(mb[i]) => Before(mb[i].frame, w.frame)
    BY StreamBefore DEF k
  <1>10. v.frame \in D[v.frame.of] /\ w.frame \in D[w.frame.of]
         /\ v.frame.of \in 1..k /\ w.frame.of \in 1..k
    BY <1>2 DEF k
  <1>11. WritesDue(nb, k, D) /\ HandedFirst(nb, hd) /\ WritesOrdered(nb)
    BY <1>2, <1>6, <1>7, <1>8, <1>10, StreamPut DEF nb
  <1>12. \A i \in DOMAIN nb : IsWrite(nb[i]) => Before(nb[i].frame, w.frame)
    BY <1>3, <1>6, <1>9
  <1>13. WritesDue(nw, k, D) /\ HandedFirst(nw, hd) /\ WritesOrdered(nw)
    BY <1>1, <1>2, <1>6, <1>7, <1>8, <1>9, <1>10, <1>11, <1>12, StreamPut DEF nw
  <1>14. NonePassed(nw, hd, k, D)
    <2> SUFFICES ASSUME NEW n \in 1..k, NEW f \in D[n]
                 PROVE  \/ \E i \in DOMAIN hd : hd[i] = f
                        \/ \E i \in DOMAIN nw : IsWrite(nw[i]) /\ nw[i].frame = f
      BY DEF NonePassed
    <2>1. CASE n = k
      <3>1. f = v.frame \/ f = w.frame
        BY <2>1 DEF k
      <3> QED BY <3>1, <1>4, <1>5 DEF nw
    <2>2. CASE n # k
      <3>1. n \in 1..h
        BY <2>2 DEF k
      <3>2. \/ \E i \in DOMAIN hd : hd[i] = f
            \/ \E i \in DOMAIN mb : IsWrite(mb[i]) /\ mb[i].frame = f
        BY <3>1 DEF FrameStream, NonePassed
      <3> QED BY <3>2, <1>4, <1>5 DEF nw
    <2> QED BY <2>1, <2>2
  <1> QED BY <1>1, <1>7, <1>8, <1>13, <1>14 DEF FrameStream, nw, k

LEMMA StreamStatus ==
  ASSUME NEW M, NEW mb \in Seq(M), NEW F, NEW hd \in Seq(F), NEW h \in Nat, NEW D,
         FrameStream(mb, hd, h, D), NEW v \in M, IsWrite(v),
         v.frame.frame = "answer", v.frame.of = h + 1, D[h + 1] = {v.frame}
  PROVE  FrameStream(Append(mb, v), hd, h + 1, D)
  <1> DEFINE nb == Append(mb, v)
             k == h + 1
  <1>1. h <= k /\ k \in Nat /\ k \in 1..k
    OBVIOUS
  <1>2. /\ \A i \in DOMAIN mb : i \in DOMAIN nb /\ nb[i] = mb[i]
        /\ \E i \in DOMAIN nb : nb[i] = v
    BY AppendKeeps, SMTT(60)
  <1> HIDE DEF nb, k
  <1>3. IsReply(v.frame) /\ v.frame \in D[v.frame.of] /\ v.frame.of \in 1..k
    BY <1>1 DEF IsReply, k
  <1>4. HandedOrdered(hd) /\ HandedFirst(mb, hd) /\ WritesOrdered(mb)
    BY DEF FrameStream
  <1>5. /\ \A i \in DOMAIN hd : IsReply(hd[i]) => Before(hd[i], v.frame)
        /\ \A i \in DOMAIN mb : IsWrite(mb[i]) => Before(mb[i].frame, v.frame)
        /\ HandedDue(hd, k, D) /\ WritesDue(mb, k, D)
    BY StreamBefore DEF k
  <1>6. WritesDue(nb, k, D) /\ HandedFirst(nb, hd) /\ WritesOrdered(nb)
    BY <1>1, <1>3, <1>4, <1>5, StreamPut DEF nb
  <1>7. NonePassed(nb, hd, k, D)
    <2> SUFFICES ASSUME NEW n \in 1..k, NEW f \in D[n]
                 PROVE  \/ \E i \in DOMAIN hd : hd[i] = f
                        \/ \E i \in DOMAIN nb : IsWrite(nb[i]) /\ nb[i].frame = f
      BY DEF NonePassed
    <2>1. CASE n = k
      BY <2>1, <1>2 DEF k
    <2>2. CASE n # k
      <3>1. n \in 1..h
        BY <2>2 DEF k
      <3>2. \/ \E i \in DOMAIN hd : hd[i] = f
            \/ \E i \in DOMAIN mb : IsWrite(mb[i]) /\ mb[i].frame = f
        BY <3>1 DEF FrameStream, NonePassed
      <3> QED BY <3>2, <1>2
    <2> QED BY <2>1, <2>2
  <1> QED BY <1>4, <1>5, <1>6, <1>7 DEF FrameStream, nb, k

\* Only the frames due for handled commands matter.
LEMMA StreamExtends ==
  ASSUME NEW mb, NEW hd, NEW h \in Nat, NEW D, FrameStream(mb, hd, h, D),
         NEW E, \A n \in 1..h : E[n] = D[n]
  PROVE  FrameStream(mb, hd, h, E)
  <1>1. HandedDue(hd, h, E)
    BY DEF FrameStream, HandedDue
  <1>2. WritesDue(mb, h, E)
    BY DEF FrameStream, WritesDue
  <1>3. NonePassed(mb, hd, h, E)
    BY DEF FrameStream, NonePassed
  <1> QED BY <1>1, <1>2, <1>3 DEF FrameStream
----------------------------------------------------------------------------
(* The stream of commands: those that wait in the mailbox of manager, when *)
(* the first d of the commands ak have been dispatched to control.         *)

Cmd(ak, n) == [event |-> ak[n], of |-> n]

IsCommand(m) == m.event \in Commands

CommandsNamed(mb, ak, d) ==
  \A i \in DOMAIN mb : IsCommand(mb[i]) =>
    mb[i].of \in (d + 1)..Len(ak) /\ mb[i] = Cmd(ak, mb[i].of)

CommandsThere(mb, ak, d) ==
  \A n \in (d + 1)..Len(ak) : \E i \in DOMAIN mb : mb[i] = Cmd(ak, n)

CommandsOrdered(mb) ==
  \A i, j \in DOMAIN mb :
    i < j /\ IsCommand(mb[i]) /\ IsCommand(mb[j]) => mb[i].of < mb[j].of

CommandStream(mb, ak, d) ==
  CommandsNamed(mb, ak, d) /\ CommandsThere(mb, ak, d) /\ CommandsOrdered(mb)

LEMMA CmdIsCommand ==
  ASSUME NEW ak \in Seq(Commands), NEW n \in 1..Len(ak)
  PROVE  Cmd(ak, n).event = ak[n] /\ Cmd(ak, n).of = n /\ IsCommand(Cmd(ak, n))
  BY DEF Cmd, IsCommand

LEMMA CommandsPutOther ==
  ASSUME NEW M, NEW mb \in Seq(M), NEW ak \in Seq(Commands), NEW d \in Nat,
         CommandStream(mb, ak, d), NEW m \in M, ~IsCommand(m)
  PROVE  CommandStream(Append(mb, m), ak, d)
  <1> DEFINE nb == Append(mb, m)
  <1>1. /\ nb \in Seq(M)
        /\ \A i \in DOMAIN nb : IF i \in DOMAIN mb THEN nb[i] = mb[i] ELSE ~IsCommand(nb[i])
        /\ \A i \in DOMAIN mb : i \in DOMAIN nb /\ nb[i] = mb[i]
    OBVIOUS
  <1> HIDE DEF nb
  <1>2. CommandsNamed(nb, ak, d)
    BY <1>1 DEF CommandStream, CommandsNamed
  <1>3. CommandsThere(nb, ak, d)
    BY <1>1 DEF CommandStream, CommandsThere
  <1>4. CommandsOrdered(nb)
    BY <1>1 DEF CommandStream, CommandsOrdered
  <1> QED BY <1>2, <1>3, <1>4 DEF CommandStream, nb

LEMMA CommandsTail ==
  ASSUME NEW M, NEW mb \in Seq(M), mb # <<>>, CommandsOrdered(mb)
  PROVE  CommandsOrdered(Tail(mb))
  <1> DEFINE nb == Tail(mb)
  <1>1. \A i \in DOMAIN nb : i \in Nat /\ i + 1 \in DOMAIN mb /\ nb[i] = mb[i + 1]
    OBVIOUS
  <1> HIDE DEF nb
  <1>2. ASSUME NEW i \in DOMAIN nb, NEW j \in DOMAIN nb, i < j,
               IsCommand(nb[i]), IsCommand(nb[j])
        PROVE  nb[i].of < nb[j].of
    <2>1. i + 1 \in DOMAIN mb /\ j + 1 \in DOMAIN mb /\ i + 1 < j + 1
      BY <1>1, <1>2
    <2>2. mb[i + 1].of < mb[j + 1].of
      BY <1>1, <1>2, <2>1 DEF CommandsOrdered
    <2> QED BY <1>1, <2>2
  <1> QED BY <1>2 DEF CommandsOrdered, nb

LEMMA CommandsTakeOther ==
  ASSUME NEW M, NEW mb \in Seq(M), NEW ak \in Seq(Commands), NEW d \in Nat,
         CommandStream(mb, ak, d), mb # <<>>, ~IsCommand(Head(mb))
  PROVE  CommandStream(Tail(mb), ak, d)
  <1> DEFINE nb == Tail(mb)
  <1>1. /\ \A i \in DOMAIN nb : i + 1 \in DOMAIN mb /\ nb[i] = mb[i + 1]
        /\ \A i \in DOMAIN mb : i # 1 => i - 1 \in DOMAIN nb /\ nb[i - 1] = mb[i]
        /\ ~IsCommand(mb[1])
    OBVIOUS
  <1>2. CommandsOrdered(nb)
    BY CommandsTail DEF CommandStream
  <1> HIDE DEF nb
  <1>3. CommandsNamed(nb, ak, d)
    BY <1>1 DEF CommandStream, CommandsNamed
  <1>4. CommandsThere(nb, ak, d)
    <2> SUFFICES ASSUME NEW n \in (d + 1)..Len(ak)
                 PROVE  \E i \in DOMAIN nb : nb[i] = Cmd(ak, n)
      BY DEF CommandsThere
    <2>1. PICK i \in DOMAIN mb : mb[i] = Cmd(ak, n)
      BY DEF CommandStream, CommandsThere
    <2>2. i # 1
      <3>1. n \in 1..Len(ak)
        OBVIOUS
      <3> QED BY <1>1, <2>1, <3>1, CmdIsCommand
    <2> QED BY <1>1, <2>1, <2>2
  <1> QED BY <1>2, <1>3, <1>4 DEF CommandStream, nb

\* The command at the head of the mailbox is the first one not yet dispatched.
LEMMA CommandsDispatch ==
  ASSUME NEW M, NEW mb \in Seq(M), NEW ak \in Seq(Commands), NEW d \in Nat,
         CommandStream(mb, ak, d), mb # <<>>, IsCommand(Head(mb))
  PROVE  /\ d + 1 <= Len(ak) /\ Head(mb) = Cmd(ak, d + 1)
         /\ CommandStream(Tail(mb), ak, d + 1)
  <1> DEFINE nb == Tail(mb)
  <1>1. /\ \A i \in DOMAIN nb : i \in Nat /\ i + 1 \in DOMAIN mb /\ nb[i] = mb[i + 1] /\ 1 < i + 1
        /\ \A i \in DOMAIN mb : i # 1 => i - 1 \in DOMAIN nb /\ nb[i - 1] = mb[i] /\ 1 < i
        /\ 1 \in DOMAIN mb /\ Head(mb) = mb[1]
    OBVIOUS
  <1>2. CommandsOrdered(nb)
    BY CommandsTail DEF CommandStream
  <1> HIDE DEF nb
  <1>3. mb[1].of \in (d + 1)..Len(ak) /\ mb[1] = Cmd(ak, mb[1].of)
    BY <1>1 DEF CommandStream, CommandsNamed
  <1>4. d + 1 <= Len(ak) /\ d + 1 \in (d + 1)..Len(ak) /\ d + 1 \in 1..Len(ak)
    BY <1>3
  <1>5. PICK i \in DOMAIN mb : mb[i] = Cmd(ak, d + 1)
    BY <1>4 DEF CommandStream, CommandsThere
  <1>6. mb[i].of = d + 1 /\ IsCommand(mb[i])
    BY <1>4, <1>5, CmdIsCommand
  <1>7. i = 1
    <2>1. ASSUME i # 1 PROVE FALSE
      <3>1. mb[1].of < mb[i].of
        BY <1>1, <1>6, <2>1 DEF CommandStream, CommandsOrdered
      <3> QED BY <1>3, <1>6, <3>1
    <2> QED BY <2>1
  <1>8. CommandsNamed(nb, ak, d + 1)
    <2> SUFFICES ASSUME NEW j \in DOMAIN nb, IsCommand(nb[j])
                 PROVE  nb[j].of \in (d + 1 + 1)..Len(ak) /\ nb[j] = Cmd(ak, nb[j].of)
      BY DEF CommandsNamed
    <2>1. mb[j + 1].of \in (d + 1)..Len(ak) /\ mb[j + 1] = Cmd(ak, mb[j + 1].of)
      BY <1>1 DEF CommandStream, CommandsNamed
    <2>2. mb[1].of < mb[j + 1].of
      BY <1>1 DEF CommandStream, CommandsOrdered
    <2>3. mb[1].of = d + 1
      BY <1>6, <1>7
    <2> QED BY <1>1, <2>1, <2>2, <2>3
  <1>9. CommandsThere(nb, ak, d + 1)
    <2> SUFFICES ASSUME NEW n \in (d + 1 + 1)..Len(ak)
                 PROVE  \E j \in DOMAIN nb : nb[j] = Cmd(ak, n)
      BY DEF CommandsThere
    <2>1. n \in (d + 1)..Len(ak) /\ n \in 1..Len(ak) /\ n # d + 1
      OBVIOUS
    <2>2. PICK j \in DOMAIN mb : mb[j] = Cmd(ak, n)
      BY <2>1 DEF CommandStream, CommandsThere
    <2>3. mb[j].of = n
      BY <2>1, <2>2, CmdIsCommand
    <2>4. j # 1
      BY <1>6, <1>7, <2>1, <2>3
    <2> QED BY <1>1, <2>2, <2>4
  <1> QED BY <1>1, <1>2, <1>4, <1>5, <1>7, <1>8, <1>9 DEF CommandStream, nb

\* One more command is read.
LEMMA CommandsRead ==
  ASSUME NEW M, NEW mb \in Seq(M), NEW ak \in Seq(Commands), NEW d \in Nat,
         CommandStream(mb, ak, d), d <= Len(ak), NEW c \in Commands,
         [event |-> c, of |-> Len(ak) + 1] \in M
  PROVE  CommandStream(Append(mb, [event |-> c, of |-> Len(ak) + 1]), Append(ak, c), d)
  <1> DEFINE m == [event |-> c, of |-> Len(ak) + 1]
             nb == Append(mb, m)
             na == Append(ak, c)
  <1>1. /\ Len(na) = Len(ak) + 1 /\ na[Len(ak) + 1] = c /\ na \in Seq(Commands)
        /\ \A n \in 1..Len(ak) : na[n] = ak[n]
    OBVIOUS
  <1>2. /\ m.event = c /\ m.of = Len(ak) + 1 /\ IsCommand(m)
        /\ \A n \in 1..Len(ak) : Cmd(na, n) = Cmd(ak, n)
    BY <1>1 DEF IsCommand, Cmd
  <1>3. m = Cmd(na, Len(ak) + 1)
    BY <1>1 DEF Cmd
  <1> HIDE DEF m, na
  <1>4. /\ \A i \in DOMAIN nb : IF i \in DOMAIN mb THEN nb[i] = mb[i]
                                ELSE nb[i] = m /\ \A j \in DOMAIN nb : j <= i
        /\ \A i \in DOMAIN mb : i \in DOMAIN nb /\ nb[i] = mb[i]
        /\ DOMAIN nb \subseteq Nat
    BY DEF m
  <1>5. \E i \in DOMAIN nb : nb[i] = m
    <2>1. Len(mb) + 1 \in DOMAIN nb /\ nb[Len(mb) + 1] = m
      BY DEF m
    <2> QED BY <2>1
  <1> HIDE DEF nb
  <1>6. CommandsNamed(nb, na, d)
    <2> SUFFICES ASSUME NEW i \in DOMAIN nb, IsCommand(nb[i])
                 PROVE  nb[i].of \in (d + 1)..Len(na) /\ nb[i] = Cmd(na, nb[i].of)
      BY DEF CommandsNamed
    <2>1. CASE i \in DOMAIN mb
      <3>1. mb[i].of \in (d + 1)..Len(ak) /\ mb[i] = Cmd(ak, mb[i].of)
        BY <1>4, <2>1 DEF CommandStream, CommandsNamed
      <3>2. mb[i].of \in 1..Len(ak) /\ mb[i].of \in (d + 1)..Len(na)
        BY <1>1, <3>1
      <3> QED BY <1>2, <1>4, <2>1, <3>1, <3>2
    <2>2. CASE i \notin DOMAIN mb
      BY <1>1, <1>2, <1>3, <1>4, <2>2
    <2> QED BY <2>1, <2>2
  <1>7. CommandsThere(nb, na, d)
    <2> SUFFICES ASSUME NEW n \in (d + 1)..Len(na)
                 PROVE  \E j \in DOMAIN nb : nb[j] = Cmd(na, n)
      BY DEF CommandsThere
    <2>1. CASE n = Len(ak) + 1
      BY <1>3, <1>5, <2>1
    <2>2. CASE n # Len(ak) + 1
      <3>1. n \in (d + 1)..Len(ak) /\ n \in 1..Len(ak)
        BY <1>1, <2>2
      <3>2. PICK j \in DOMAIN mb : mb[j] = Cmd(ak, n)
        BY <3>1 DEF CommandStream, CommandsThere
      <3> QED BY <1>2, <1>4, <3>1, <3>2
    <2> QED BY <2>1, <2>2
  <1>8. CommandsOrdered(nb)
    <2> SUFFICES ASSUME NEW i \in DOMAIN nb, NEW j \in DOMAIN nb, i < j,
                        IsCommand(nb[i]), IsCommand(nb[j])
                 PROVE  nb[i].of < nb[j].of
      BY DEF CommandsOrdered
    <2>1. i \in DOMAIN mb /\ nb[i] = mb[i]
      BY <1>4
    <2>2. CASE j \in DOMAIN mb
      BY <1>4, <2>1, <2>2 DEF CommandStream, CommandsOrdered
    <2>3. CASE j \notin DOMAIN mb
      <3>1. mb[i].of \in (d + 1)..Len(ak)
        BY <1>4, <2>1 DEF CommandStream, CommandsNamed
      <3> QED BY <1>2, <1>4, <2>1, <2>3, <3>1
    <2> QED BY <2>2, <2>3
  <1> QED BY <1>6, <1>7, <1>8 DEF CommandStream, nb, m, na
----------------------------------------------------------------------------
(* The device program *)

PlainEvents == OtherRequests \cup {"refusal", "response", "handshake", "gone", "failed"}

CommandMessage == [event : Commands, of : Nat]

Frame == [frame : {"answer", "notify", "devices.connect", "devices.disconnect"},
          of : Nat, value : BOOLEAN]

WriteMessage == [event : {"write"}, frame : Frame]

DeviceMessage == [event : PlainEvents] \cup CommandMessage \cup WriteMessage

DeviceTypeOK ==
  /\ link \in {"connecting", "up", "closing", "lost"}
  /\ reads \in 0..MaxReads /\ losses \in 0..MaxLosses
  /\ managerBox \in Seq(DeviceMessage) /\ controlBox \in Seq(CommandMessage)
  /\ status \in BOOLEAN /\ initial \in BOOLEAN /\ closing \in BOOLEAN
  /\ asked \in Seq(Commands) /\ handed \in Seq(Frame)
  /\ process \in {"running", "stopped", "down", "terminated"}

DueFrames == [n \in DOMAIN asked |-> Due(n)]

\* Control has handled the first h commands, and manager has dispatched the
\* first d of them: where each command and each frame is.
Stage(h, d) ==
  /\ h <= d /\ d <= Len(asked)
  /\ status = StatusAfter(h)
  /\ controlBox = [i \in 1..(d - h) |-> Cmd(asked, h + i)]
  /\ CommandStream(managerBox, asked, d)
  /\ FrameStream(managerBox, handed, h, DueFrames)

DeviceInv == DeviceTypeOK /\ \E h, d \in Nat : Stage(h, d)

LEMMA FrameTypes ==
  /\ \A n \in Nat : \A v \in BOOLEAN : Answer(n, v) \in Frame /\ Notification(n, v) \in Frame
  /\ Request("devices.connect") \in Frame /\ Request("devices.disconnect") \in Frame
  BY DEF Answer, Notification, Request, Frame

LEMMA MessageTypes ==
  /\ \A e \in PlainEvents : [event |-> e] \in DeviceMessage
  /\ \A e \in Commands : \A n \in Nat : [event |-> e, of |-> n] \in CommandMessage
  /\ \A f \in Frame : [event |-> "write", frame |-> f] \in WriteMessage
  /\ CommandMessage \subseteq DeviceMessage /\ WriteMessage \subseteq DeviceMessage
  BY DEF DeviceMessage, CommandMessage, WriteMessage

\* What the event of a message says about it.
LEMMA MessageKinds ==
  ASSUME NEW m \in DeviceMessage
  PROVE  /\ m.event \in Commands => m \in CommandMessage /\ IsCommand(m) /\ ~IsWrite(m)
         /\ m.event = "write" =>
              m \in WriteMessage /\ m.frame \in Frame /\ IsWrite(m) /\ ~IsCommand(m)
         /\ m.event \in PlainEvents => ~IsWrite(m) /\ ~IsCommand(m)
  BY DEF DeviceMessage, CommandMessage, WriteMessage, PlainEvents, Commands, OtherRequests,
         IsCommand, IsWrite

LEMMA PlainMessage ==
  ASSUME NEW e \in PlainEvents
  PROVE  [event |-> e] \in DeviceMessage /\ ~IsWrite([event |-> e]) /\ ~IsCommand([event |-> e])
  BY DEF DeviceMessage, PlainEvents, Commands, OtherRequests, IsCommand, IsWrite

LEMMA DeviceInitInv == DeviceInit => DeviceInv
  <1> SUFFICES ASSUME DeviceInit PROVE DeviceInv
    OBVIOUS
  <1>1. DeviceTypeOK
    <2>1. 0 \in 0..MaxReads /\ 0 \in 0..MaxLosses
      BY DeviceAssumption
    <2>2. \A S : <<>> \in Seq(S)
      OBVIOUS
    <2>3. managerBox \in Seq(DeviceMessage) /\ controlBox \in Seq(CommandMessage)
          /\ asked \in Seq(Commands) /\ handed \in Seq(Frame)
      BY <2>2 DEF DeviceInit
    <2> QED BY <2>1, <2>3 DEF DeviceInit, DeviceTypeOK
  <1>2. status = StatusAfter(0)
    <2>1. StatusAfter(0) <=> initial
      BY DEF StatusAfter
    <2>2. status = initial /\ initial \in BOOLEAN
      BY DEF DeviceInit
    <2> QED BY <2>1, <2>2 DEF StatusAfter
  <1>3. controlBox = [i \in 1..(0 - 0) |-> Cmd(asked, 0 + i)]
    BY DEF DeviceInit
  <1>4. managerBox = <<>> /\ handed = <<>> /\ asked = <<>>
    BY DEF DeviceInit
  <1>5. CommandStream(managerBox, asked, 0)
    BY <1>4 DEF CommandStream, CommandsNamed, CommandsThere, CommandsOrdered
  <1>6. FrameStream(managerBox, handed, 0, DueFrames)
    BY <1>4 DEF FrameStream, HandedDue, WritesDue, HandedOrdered, HandedFirst,
                WritesOrdered, NonePassed
  <1>7. Stage(0, 0)
    BY <1>2, <1>3, <1>4, <1>5, <1>6 DEF Stage
  <1> QED BY <1>1, <1>7 DEF DeviceInv

\* What the frames due depend on.
LEMMA DueSame ==
  ASSUME asked' = asked, initial' = initial
  PROVE  DueFrames' = DueFrames /\ \A n \in Nat : StatusAfter(n)' <=> StatusAfter(n)
  BY DEF DueFrames, Due, StatusAfter

LEMMA StatusIsBoolean ==
  ASSUME NEW n
  PROVE  StatusAfter(n) \in BOOLEAN
  BY DEF StatusAfter

\* The status after one more command.
LEMMA StatusStep ==
  ASSUME asked \in Seq(Commands), NEW n \in Nat, n + 1 <= Len(asked)
  PROVE  /\ asked[n + 1] = "status" => (StatusAfter(n + 1) <=> StatusAfter(n))
         /\ asked[n + 1] = "on" => StatusAfter(n + 1)
         /\ asked[n + 1] = "off" => ~StatusAfter(n + 1)
  <1> DEFINE k == n + 1
  <1>1. k \in 1..k /\ \A j \in 1..k : j \in 1..n \/ j = k
    OBVIOUS
  <1>2. \A j \in 1..n : j \in 1..k /\ j # k /\ k \in (j + 1)..k
    OBVIOUS
  <1>3. \A i \in 1..n : \A j \in (i + 1)..k : j \in (i + 1)..n \/ j = k
    OBVIOUS
  <1>4. \A i \in 1..n : \A j \in (i + 1)..n : j \in (i + 1)..k
    OBVIOUS
  <1>5. (k + 1)..k = {}
    OBVIOUS
  <1> HIDE DEF k
  <1>6. CASE asked[k] = "status"
    <2>1. ASSUME StatusAfter(n) PROVE StatusAfter(k)
      <3>1. CASE \E i \in 1..n : asked[i] = "on" /\ \A j \in (i + 1)..n : asked[j] = "status"
        BY <1>2, <1>3, <1>6, <3>1 DEF StatusAfter
      <3>2. CASE initial /\ \A j \in 1..n : asked[j] = "status"
        BY <1>1, <1>6, <3>2 DEF StatusAfter
      <3> QED BY <2>1, <3>1, <3>2 DEF StatusAfter
    <2>2. ASSUME StatusAfter(k) PROVE StatusAfter(n)
      <3>1. CASE \E i \in 1..k : asked[i] = "on" /\ \A j \in (i + 1)..k : asked[j] = "status"
        <4>1. PICK i \in 1..k : asked[i] = "on" /\ \A j \in (i + 1)..k : asked[j] = "status"
          BY <3>1
        <4>2. i \in 1..n
          BY <1>1, <1>6, <4>1
        <4> QED BY <1>4, <4>1, <4>2 DEF StatusAfter
      <3>2. CASE initial /\ \A j \in 1..k : asked[j] = "status"
        BY <1>2, <3>2 DEF StatusAfter
      <3> QED BY <2>2, <3>1, <3>2 DEF StatusAfter
    <2> QED BY <1>6, <2>1, <2>2 DEF k
  <1>7. CASE asked[k] = "on"
    BY <1>1, <1>5, <1>7 DEF StatusAfter, k
  <1>8. CASE asked[k] = "off"
    <2>1. ~(\A j \in 1..k : asked[j] = "status")
      BY <1>1, <1>8
    <2>2. ASSUME NEW i \in 1..k, asked[i] = "on", \A j \in (i + 1)..k : asked[j] = "status"
          PROVE  FALSE
      <3>1. i \in 1..n
        BY <1>1, <1>8, <2>2
      <3> QED BY <1>2, <1>8, <2>2, <3>1
    <2> QED BY <1>8, <2>1, <2>2 DEF StatusAfter, k
  <1> QED BY <1>6, <1>7, <1>8 DEF k

\* One more command read changes nothing of what was due.
LEMMA DueRead ==
  ASSUME asked \in Seq(Commands), NEW c \in Commands, asked' = Append(asked, c),
         initial' = initial
  PROVE  \A n \in 0..Len(asked) :
           /\ StatusAfter(n)' <=> StatusAfter(n)
           /\ n > 0 => DueFrames'[n] = DueFrames[n]
  <1>1. \A n \in 1..Len(asked) : asked'[n] = asked[n]
    OBVIOUS
  <1>2. ASSUME NEW n \in 0..Len(asked) PROVE StatusAfter(n)' <=> StatusAfter(n)
    <2>1. \A i \in 1..n : asked'[i] = asked[i]
      BY <1>1
    <2>2. \A i \in 1..n : \A j \in (i + 1)..n : asked'[j] = asked[j]
      BY <1>1
    <2> QED BY <2>1, <2>2 DEF StatusAfter
  <1>3. ASSUME NEW n \in 1..Len(asked) PROVE DueFrames'[n] = DueFrames[n]
    <2>1. n \in DOMAIN asked /\ n \in DOMAIN asked' /\ n \in 0..Len(asked)
      OBVIOUS
    <2>2. DueFrames[n] = Due(n) /\ DueFrames'[n] = Due(n)'
      BY <2>1 DEF DueFrames
    <2>3. StatusAfter(n)' = StatusAfter(n)
      BY <1>2, <2>1 DEF StatusAfter
    <2>4. asked'[n] = asked[n]
      BY <1>1
    <2> QED BY <2>2, <2>3, <2>4 DEF Due
  <1> QED BY <1>2, <1>3

\* A step that leaves the commands read and the state of control alone.
LEMMA StageStays ==
  ASSUME NEW h \in Nat, NEW d \in Nat, Stage(h, d),
         asked' = asked, initial' = initial, status' = status, controlBox' = controlBox,
         CommandStream(managerBox', asked, d),
         FrameStream(managerBox', handed', h, DueFrames)
  PROVE  Stage(h, d)'
  <1>1. DueFrames' = DueFrames /\ StatusAfter(h)' = StatusAfter(h)
    BY DueSame DEF StatusAfter
  <1>2. FrameStream(managerBox', handed', h, DueFrames')
    BY <1>1
  <1>3. CommandStream(managerBox', asked', d)
    OBVIOUS
  <1>4. status' = StatusAfter(h)'
    BY <1>1 DEF Stage
  <1> QED BY <1>2, <1>3, <1>4 DEF Stage

\* An event that is neither a command nor a write is put into the mailbox.
LEMMA StagePut ==
  ASSUME DeviceTypeOK, NEW h \in Nat, NEW d \in Nat, Stage(h, d),
         NEW e \in PlainEvents, managerBox' = Append(managerBox, [event |-> e]),
         UNCHANGED <<asked, initial, status, controlBox, handed>>
  PROVE  Stage(h, d)' /\ managerBox' \in Seq(DeviceMessage)
  <1> DEFINE m == [event |-> e]
  <1>1. m \in DeviceMessage /\ ~IsWrite(m) /\ ~IsCommand(m)
    BY PlainMessage
  <1> HIDE DEF m
  <1>2. managerBox \in Seq(DeviceMessage) /\ handed \in Seq(Frame) /\ asked \in Seq(Commands)
    BY DEF DeviceTypeOK
  <1>3. CommandStream(managerBox', asked, d)
    BY <1>1, <1>2, CommandsPutOther DEF Stage, m
  <1>4. FrameStream(managerBox', handed, h, DueFrames)
    BY <1>1, <1>2, StreamPutOther DEF Stage, m
  <1>5. managerBox' \in Seq(DeviceMessage)
    BY <1>1, <1>2 DEF m
  <1> QED BY <1>3, <1>4, <1>5, StageStays

\* Such an event is taken from the mailbox, and perhaps a request given to the
\* client.
LEMMA StageTake ==
  ASSUME DeviceTypeOK, NEW h \in Nat, NEW d \in Nat, Stage(h, d),
         Takes(PlainEvents), UNCHANGED <<asked, initial, status, controlBox>>,
         \/ handed' = handed
         \/ \E f \in Frame : ~IsReply(f) /\ handed' = Append(handed, f)
  PROVE  Stage(h, d)' /\ managerBox' \in Seq(DeviceMessage) /\ handed' \in Seq(Frame)
  <1>1. /\ managerBox \in Seq(DeviceMessage) /\ handed \in Seq(Frame) /\ asked \in Seq(Commands)
        /\ managerBox # <<>> /\ managerBox' = Tail(managerBox)
    BY DEF DeviceTypeOK, Takes
  <1>2. Head(managerBox) \in DeviceMessage /\ Head(managerBox).event \in PlainEvents
    BY <1>1 DEF Takes
  <1>3. ~IsWrite(Head(managerBox)) /\ ~IsCommand(Head(managerBox))
    BY <1>2, MessageKinds
  <1>4. CommandStream(managerBox', asked, d)
    BY <1>1, <1>3, CommandsTakeOther DEF Stage
  <1>5. FrameStream(managerBox', handed, h, DueFrames)
    BY <1>1, <1>3, StreamTakeOther DEF Stage
  <1>6. managerBox' \in Seq(DeviceMessage)
    BY <1>1
  <1>7. FrameStream(managerBox', handed', h, DueFrames) /\ handed' \in Seq(Frame)
    <2>1. CASE handed' = handed
      BY <1>1, <1>5, <2>1
    <2>2. ASSUME NEW f \in Frame, ~IsReply(f), handed' = Append(handed, f)
          PROVE  FrameStream(managerBox', handed', h, DueFrames) /\ handed' \in Seq(Frame)
      <3>1. FrameStream(managerBox', Append(handed, f), h, DueFrames)
        BY <1>1, <1>5, <1>6, <2>2, StreamRequest
      <3>2. Append(handed, f) \in Seq(Frame)
        BY <1>1
      <3> QED BY <2>2, <3>1, <3>2
    <2> QED BY <2>1, <2>2
  <1> QED BY <1>4, <1>6, <1>7, StageStays

LEMMA RequestIsNoReply ==
  /\ ~IsReply(Request("devices.connect")) /\ ~IsReply(Request("devices.disconnect"))
  BY DEF Request, IsReply

LEMMA StageRead ==
  ASSUME DeviceTypeOK, NEW h \in Nat, NEW d \in Nat, Stage(h, d),
         NEW c \in Commands, asked' = Append(asked, c),
         managerBox' = Append(managerBox, [event |-> c, of |-> Len(asked) + 1]),
         UNCHANGED <<initial, status, controlBox, handed>>
  PROVE  /\ Stage(h, d)' /\ managerBox' \in Seq(DeviceMessage)
         /\ asked' \in Seq(Commands)
  <1> DEFINE m == [event |-> c, of |-> Len(asked) + 1]
  <1>1. managerBox \in Seq(DeviceMessage) /\ handed \in Seq(Frame) /\ asked \in Seq(Commands)
    BY DEF DeviceTypeOK
  <1>2. m \in CommandMessage /\ m \in DeviceMessage /\ m.event = c
    <2>1. Len(asked) + 1 \in Nat
      BY <1>1
    <2> QED BY <2>1, MessageTypes
  <1>3. ~IsWrite(m)
    BY <1>2 DEF IsWrite, Commands
  <1>4. h <= d /\ d <= Len(asked) /\ Len(asked) \in Nat
    BY <1>1 DEF Stage
  <1>5. CommandStream(managerBox', asked', d)
    BY <1>1, <1>2, <1>4, CommandsRead DEF Stage
  <1> HIDE DEF m
  <1>6. FrameStream(managerBox', handed, h, DueFrames)
    BY <1>1, <1>2, <1>3, StreamPutOther DEF Stage, m
  <1>7. /\ \A n \in 1..h : DueFrames'[n] = DueFrames[n]
        /\ StatusAfter(h)' <=> StatusAfter(h)
    <2>1. \A n \in 0..Len(asked) :
            /\ StatusAfter(n)' <=> StatusAfter(n)
            /\ n > 0 => DueFrames'[n] = DueFrames[n]
      BY <1>1, DueRead
    <2>2. h \in 0..Len(asked) /\ \A n \in 1..h : n \in 0..Len(asked) /\ n > 0
      BY <1>4
    <2> QED BY <2>1, <2>2
  <1>8. FrameStream(managerBox', handed', h, DueFrames')
    BY <1>6, <1>7, StreamExtends
  <1>9. status' = StatusAfter(h)'
    <2>1. StatusAfter(h)' = StatusAfter(h)
      BY <1>7 DEF StatusAfter
    <2> QED BY <2>1 DEF Stage
  <1>10. asked' \in Seq(Commands) /\ Len(asked') = Len(asked) + 1
         /\ \A n \in 1..Len(asked) : asked'[n] = asked[n]
    BY <1>1
  <1>11. controlBox' = [i \in 1..(d - h) |-> Cmd(asked', h + i)]
    <2>1. \A i \in 1..(d - h) : h + i \in 1..Len(asked)
      BY <1>4
    <2>2. \A i \in 1..(d - h) : Cmd(asked', h + i) = Cmd(asked, h + i)
      BY <1>10, <2>1 DEF Cmd
    <2>3. controlBox = [i \in 1..(d - h) |-> Cmd(asked, h + i)]
      BY DEF Stage
    <2> QED BY <2>2, <2>3
  <1>12. managerBox' \in Seq(DeviceMessage)
    BY <1>1, <1>2 DEF m
  <1>13. h <= d /\ d <= Len(asked')
    BY <1>4, <1>10
  <1> QED BY <1>5, <1>8, <1>9, <1>10, <1>11, <1>12, <1>13 DEF Stage

LEMMA StageDispatch ==
  ASSUME DeviceTypeOK, NEW h \in Nat, NEW d \in Nat, Stage(h, d), DispatchCommand
  PROVE  /\ Stage(h, d + 1)' /\ managerBox' \in Seq(DeviceMessage)
         /\ controlBox' \in Seq(CommandMessage)
  <1>1. /\ managerBox \in Seq(DeviceMessage) /\ handed \in Seq(Frame) /\ asked \in Seq(Commands)
        /\ controlBox \in Seq(CommandMessage)
        /\ managerBox # <<>> /\ managerBox' = Tail(managerBox)
        /\ controlBox' = Append(controlBox, Head(managerBox))
        /\ asked' = asked /\ initial' = initial /\ status' = status /\ handed' = handed
    BY DEF DeviceTypeOK, DispatchCommand, Takes
  <1>2. Head(managerBox) \in DeviceMessage /\ Head(managerBox).event \in Commands
    BY <1>1 DEF DispatchCommand, Takes
  <1>3. /\ IsCommand(Head(managerBox)) /\ ~IsWrite(Head(managerBox))
        /\ Head(managerBox) \in CommandMessage
    BY <1>2, MessageKinds
  <1>4. /\ d + 1 <= Len(asked) /\ Head(managerBox) = Cmd(asked, d + 1)
        /\ CommandStream(managerBox', asked, d + 1)
    BY <1>1, <1>3, CommandsDispatch DEF Stage
  <1>5. FrameStream(managerBox', handed, h, DueFrames)
    BY <1>1, <1>3, StreamTakeOther DEF Stage
  <1>6. controlBox' = [i \in 1..((d + 1) - h) |-> Cmd(asked, h + i)]
    <2> DEFINE b == [i \in 1..(d - h) |-> Cmd(asked, h + i)]
               c == [i \in 1..((d + 1) - h) |-> Cmd(asked, h + i)]
               x == Cmd(asked, d + 1)
    <2>1. controlBox = b /\ h <= d
      BY DEF Stage
    <2>2. d - h \in Nat /\ (d + 1) - h = (d - h) + 1 /\ h + ((d + 1) - h) = d + 1
      BY <2>1
    <2>3. Len(controlBox) = d - h /\ \A i \in 1..(d - h) : controlBox[i] = Cmd(asked, h + i)
      BY <2>1, <2>2, <1>1
    <2>4. controlBox' = Append(controlBox, x)
      BY <1>1, <1>4
    <2>5. Append(controlBox, x) = [i \in 1..(Len(controlBox) + 1) |->
                                     IF i = Len(controlBox) + 1 THEN x ELSE controlBox[i]]
      BY <1>1, <1>3, <1>4
    <2>6. \A i \in 1..((d + 1) - h) :
            (IF i = (d - h) + 1 THEN x ELSE controlBox[i]) = Cmd(asked, h + i)
      <3> SUFFICES ASSUME NEW i \in 1..((d + 1) - h)
                   PROVE  (IF i = (d - h) + 1 THEN x ELSE controlBox[i]) = Cmd(asked, h + i)
        OBVIOUS
      <3>1. CASE i = (d - h) + 1
        <4>1. h + i = d + 1
          BY <2>2, <3>1
        <4> QED BY <3>1, <4>1
      <3>2. CASE i # (d - h) + 1
        <4>1. i \in 1..(d - h)
          BY <2>2, <3>2
        <4> QED BY <2>3, <3>2, <4>1
      <3> QED BY <3>1, <3>2
    <2> HIDE DEF x, b
    <2> QED BY <2>2, <2>3, <2>4, <2>5, <2>6
  <1>7. DueFrames' = DueFrames /\ StatusAfter(h)' = StatusAfter(h)
    BY <1>1, DueSame DEF StatusAfter
  <1>8. status' = StatusAfter(h)'
    BY <1>1, <1>7 DEF Stage
  <1>9. h <= d + 1 /\ d + 1 <= Len(asked')
    BY <1>1, <1>4 DEF Stage
  <1>10. CommandStream(managerBox', asked', d + 1)
         /\ FrameStream(managerBox', handed', h, DueFrames')
    BY <1>1, <1>4, <1>5, <1>7
  <1>11. managerBox' \in Seq(DeviceMessage) /\ controlBox' \in Seq(CommandMessage)
    BY <1>1, <1>3
  <1>12. controlBox' = [i \in 1..((d + 1) - h) |-> Cmd(asked', h + i)]
    <2>1. \A i \in 1..((d + 1) - h) : Cmd(asked', h + i) = Cmd(asked, h + i)
      BY <1>1
    <2> QED BY <1>6, <2>1
  <1> QED BY <1>8, <1>9, <1>10, <1>11, <1>12 DEF Stage

LEMMA StageWrite ==
  ASSUME DeviceTypeOK, NEW h \in Nat, NEW d \in Nat, Stage(h, d), Write
  PROVE  Stage(h, d)' /\ managerBox' \in Seq(DeviceMessage) /\ handed' \in Seq(Frame)
  <1>1. /\ managerBox \in Seq(DeviceMessage) /\ handed \in Seq(Frame) /\ asked \in Seq(Commands)
        /\ managerBox # <<>> /\ managerBox' = Tail(managerBox)
        /\ handed' = Append(handed, Head(managerBox).frame)
        /\ UNCHANGED <<asked, initial, status, controlBox>>
    BY DEF DeviceTypeOK, Write, Takes, HandOver
  <1>2. Head(managerBox) \in DeviceMessage /\ Head(managerBox).event = "write"
    BY <1>1 DEF Write, Takes
  <1>3. /\ IsWrite(Head(managerBox)) /\ ~IsCommand(Head(managerBox))
        /\ Head(managerBox).frame \in Frame
    BY <1>2, MessageKinds
  <1>4. CommandStream(managerBox', asked, d)
    BY <1>1, <1>3, CommandsTakeOther DEF Stage
  <1>5. FrameStream(managerBox', handed', h, DueFrames)
    BY <1>1, <1>3, StreamWrite DEF Stage
  <1>6. managerBox' \in Seq(DeviceMessage) /\ handed' \in Seq(Frame)
    BY <1>1, <1>3
  <1> QED BY <1>1, <1>4, <1>5, <1>6, StageStays

\* The command at the head of control's mailbox is the next one to handle.
LEMMA StageHead ==
  ASSUME DeviceTypeOK, NEW h \in Nat, NEW d \in Nat, Stage(h, d), controlBox # <<>>
  PROVE  /\ h + 1 <= d /\ h + 1 <= Len(asked) /\ Head(controlBox) = Cmd(asked, h + 1)
         /\ Head(controlBox).event = asked[h + 1] /\ Head(controlBox).of = h + 1
         /\ Tail(controlBox) = [i \in 1..(d - (h + 1)) |-> Cmd(asked, (h + 1) + i)]
         /\ Tail(controlBox) \in Seq(CommandMessage)
  <1>1. /\ controlBox \in Seq(CommandMessage) /\ asked \in Seq(Commands)
        /\ controlBox = [i \in 1..(d - h) |-> Cmd(asked, h + i)] /\ h <= d /\ d <= Len(asked)
    BY DEF DeviceTypeOK, Stage
  <1>2. d - h \in Nat /\ Len(controlBox) = d - h
    BY <1>1
  <1>3. 1 \in 1..(d - h) /\ h + 1 <= d /\ h + 1 <= Len(asked) /\ h + 1 \in 1..Len(asked)
    BY <1>1, <1>2
  <1>4. Head(controlBox) = Cmd(asked, h + 1)
    <2>1. Head(controlBox) = controlBox[1]
      BY <1>1
    <2>2. controlBox[1] = Cmd(asked, h + 1)
      BY <1>1, <1>3
    <2> QED BY <2>1, <2>2
  <1>5. Tail(controlBox) = [i \in 1..(d - (h + 1)) |-> Cmd(asked, (h + 1) + i)]
    <2>1. Tail(controlBox) = [i \in 1..(Len(controlBox) - 1) |-> controlBox[i + 1]]
      BY <1>1
    <2>2. Len(controlBox) - 1 = d - (h + 1)
      BY <1>2
    <2>3. \A i \in 1..(d - (h + 1)) : controlBox[i + 1] = Cmd(asked, (h + 1) + i)
      <3> SUFFICES ASSUME NEW i \in 1..(d - (h + 1))
                   PROVE  controlBox[i + 1] = Cmd(asked, (h + 1) + i)
        OBVIOUS
      <3>1. i + 1 \in 1..(d - h) /\ h + (i + 1) = (h + 1) + i
        BY <1>2
      <3> QED BY <1>1, <3>1
    <2> QED BY <2>1, <2>2, <2>3
  <1>6. Tail(controlBox) \in Seq(CommandMessage)
    BY <1>1
  <1>7. Cmd(asked, h + 1).event = asked[h + 1] /\ Cmd(asked, h + 1).of = h + 1
    BY <1>1, <1>3, CmdIsCommand
  <1> QED BY <1>3, <1>4, <1>5, <1>6, <1>7

LEMMA StageSwitch ==
  ASSUME DeviceTypeOK, NEW h \in Nat, NEW d \in Nat, Stage(h, d),
         NEW e \in {"on", "off"}, NEW on \in BOOLEAN, on <=> e = "on", Switch(e, on)
  PROVE  /\ Stage(h + 1, d)' /\ managerBox' \in Seq(DeviceMessage)
         /\ controlBox' \in Seq(CommandMessage)
  <1> DEFINE v == [event |-> "write", frame |-> Answer(h + 1, TRUE)]
             w == [event |-> "write", frame |-> Notification(h + 1, on)]
  <1>1. /\ managerBox \in Seq(DeviceMessage) /\ handed \in Seq(Frame) /\ asked \in Seq(Commands)
        /\ controlBox # <<>> /\ Head(controlBox).event = e
        /\ controlBox' = Tail(controlBox)
        /\ asked' = asked /\ initial' = initial /\ status' = on /\ handed' = handed
    BY DEF DeviceTypeOK, Switch
  <1>2. /\ h + 1 <= d /\ h + 1 <= Len(asked)
        /\ Head(controlBox).event = asked[h + 1] /\ Head(controlBox).of = h + 1
        /\ Tail(controlBox) = [i \in 1..(d - (h + 1)) |-> Cmd(asked, (h + 1) + i)]
        /\ Tail(controlBox) \in Seq(CommandMessage)
    BY <1>1, StageHead
  <1>3. managerBox' = managerBox \o <<v, w>>
    BY <1>2 DEF Switch
  <1>4. /\ v \in DeviceMessage /\ w \in DeviceMessage
        /\ v.frame = Answer(h + 1, TRUE) /\ w.frame = Notification(h + 1, on)
        /\ IsWrite(v) /\ ~IsCommand(v) /\ IsWrite(w) /\ ~IsCommand(w)
    <2>1. Answer(h + 1, TRUE) \in Frame /\ Notification(h + 1, on) \in Frame
      <3>1. h + 1 \in Nat /\ TRUE \in BOOLEAN
        OBVIOUS
      <3> QED BY <3>1, FrameTypes, Zenon
    <2>2. v \in DeviceMessage /\ w \in DeviceMessage
      BY <2>1, MessageTypes
    <2> QED BY <2>2 DEF IsWrite, IsCommand, Commands
  <1>5. /\ v.frame.frame = "answer" /\ v.frame.of = h + 1
        /\ w.frame.frame = "notify" /\ w.frame.of = h + 1
    BY <1>4 DEF Answer, Notification
  <1> HIDE DEF v, w
  <1>6. CommandStream(managerBox', asked, d) /\ managerBox' \in Seq(DeviceMessage)
    <2> DEFINE nb == Append(managerBox, v)
    <2>1. nb \in Seq(DeviceMessage) /\ managerBox' = Append(nb, w)
      BY <1>1, <1>3, <1>4
    <2>2. CommandStream(nb, asked, d)
      BY <1>1, <1>4, CommandsPutOther DEF Stage
    <2> HIDE DEF nb
    <2>3. CommandStream(Append(nb, w), asked, d)
      BY <1>1, <1>4, <2>1, <2>2, CommandsPutOther
    <2> QED BY <1>4, <2>1, <2>3
  <1>7. DueFrames[h + 1] = {v.frame, w.frame}
    <2>1. h + 1 \in DOMAIN asked /\ asked[h + 1] = e
      BY <1>1, <1>2
    <2>2. DueFrames[h + 1] = Due(h + 1)
      BY <2>1 DEF DueFrames
    <2>3. (asked[h + 1] = "on") = on
      BY <2>1
    <2> QED BY <1>4, <2>1, <2>2, <2>3 DEF Due
  <1>8. FrameStream(managerBox', handed, h + 1, DueFrames)
    BY <1>1, <1>3, <1>4, <1>5, <1>7, StreamSwitch DEF Stage
  <1>9. status' = StatusAfter(h + 1)
    <2>1. StatusAfter(h + 1) <=> on
      BY <1>1, <1>2, StatusStep
    <2> QED BY <1>1, <2>1 DEF StatusAfter
  <1>10. DueFrames' = DueFrames /\ StatusAfter(h + 1)' = StatusAfter(h + 1)
    BY <1>1, DueSame DEF StatusAfter
  <1>11. controlBox' = [i \in 1..(d - (h + 1)) |-> Cmd(asked', (h + 1) + i)]
    BY <1>1, <1>2
  <1>12. h + 1 <= d /\ d <= Len(asked')
    BY <1>1, <1>2 DEF Stage
  <1>13. /\ FrameStream(managerBox', handed', h + 1, DueFrames')
         /\ CommandStream(managerBox', asked', d) /\ status' = StatusAfter(h + 1)'
         /\ controlBox' \in Seq(CommandMessage)
    BY <1>1, <1>2, <1>6, <1>8, <1>9, <1>10
  <1> QED BY <1>6, <1>11, <1>12, <1>13 DEF Stage

LEMMA StageStatus ==
  ASSUME DeviceTypeOK, NEW h \in Nat, NEW d \in Nat, Stage(h, d), Status
  PROVE  /\ Stage(h + 1, d)' /\ managerBox' \in Seq(DeviceMessage)
         /\ controlBox' \in Seq(CommandMessage)
  <1> DEFINE v == [event |-> "write", frame |-> Answer(h + 1, status)]
  <1>1. /\ managerBox \in Seq(DeviceMessage) /\ handed \in Seq(Frame) /\ asked \in Seq(Commands)
        /\ controlBox # <<>> /\ Head(controlBox).event = "status" /\ status \in BOOLEAN
        /\ controlBox' = Tail(controlBox)
        /\ asked' = asked /\ initial' = initial /\ status' = status /\ handed' = handed
    BY DEF DeviceTypeOK, Status
  <1>2. /\ h + 1 <= d /\ h + 1 <= Len(asked)
        /\ Head(controlBox).event = asked[h + 1] /\ Head(controlBox).of = h + 1
        /\ Tail(controlBox) = [i \in 1..(d - (h + 1)) |-> Cmd(asked, (h + 1) + i)]
        /\ Tail(controlBox) \in Seq(CommandMessage)
    BY <1>1, StageHead
  <1>3. managerBox' = Append(managerBox, v)
    BY <1>2 DEF Status
  <1>4. /\ v \in DeviceMessage /\ v.frame = Answer(h + 1, status)
        /\ IsWrite(v) /\ ~IsCommand(v)
    <2>1. h + 1 \in Nat /\ Answer(h + 1, status) \in Frame
      BY <1>1, FrameTypes
    <2>2. v \in DeviceMessage
      BY <2>1, MessageTypes
    <2> QED BY <2>2 DEF IsWrite, IsCommand, Commands
  <1>5. v.frame.frame = "answer" /\ v.frame.of = h + 1
    BY <1>4 DEF Answer
  <1> HIDE DEF v
  <1>6. CommandStream(managerBox', asked, d) /\ managerBox' \in Seq(DeviceMessage)
    BY <1>1, <1>3, <1>4, CommandsPutOther DEF Stage
  <1>7. status = StatusAfter(h) /\ (StatusAfter(h + 1) <=> StatusAfter(h))
    BY <1>1, <1>2, StatusStep DEF Stage
  <1>8. status = StatusAfter(h + 1)
    BY <1>1, <1>7 DEF StatusAfter
  <1>9. DueFrames[h + 1] = {v.frame}
    <2>1. h + 1 \in DOMAIN asked /\ asked[h + 1] = "status"
      BY <1>1, <1>2
    <2>2. DueFrames[h + 1] = Due(h + 1)
      BY <2>1 DEF DueFrames
    <2>3. Due(h + 1) = {Answer(h + 1, StatusAfter(h + 1))}
      BY <2>1 DEF Due
    <2> QED BY <1>4, <1>8, <2>2, <2>3
  <1>10. FrameStream(managerBox', handed, h + 1, DueFrames)
    BY <1>1, <1>3, <1>4, <1>5, <1>9, StreamStatus DEF Stage
  <1>11. DueFrames' = DueFrames /\ StatusAfter(h + 1)' = StatusAfter(h + 1)
    BY <1>1, DueSame DEF StatusAfter
  <1>12. controlBox' = [i \in 1..(d - (h + 1)) |-> Cmd(asked', (h + 1) + i)]
    BY <1>1, <1>2
  <1>13. h + 1 <= d /\ d <= Len(asked')
    BY <1>1, <1>2 DEF Stage
  <1>14. /\ FrameStream(managerBox', handed', h + 1, DueFrames')
         /\ CommandStream(managerBox', asked', d) /\ status' = StatusAfter(h + 1)'
         /\ controlBox' \in Seq(CommandMessage)
    BY <1>1, <1>2, <1>6, <1>8, <1>10, <1>11
  <1> QED BY <1>6, <1>12, <1>13, <1>14 DEF Stage

LEMMA DeviceNextInv == DeviceInv /\ [DeviceNext]_deviceVars => DeviceInv'
  <1> SUFFICES ASSUME DeviceInv, [DeviceNext]_deviceVars PROVE DeviceInv'
    OBVIOUS
  <1>1. DeviceTypeOK
    BY DEF DeviceInv
  <1>2. PICK h \in Nat, d \in Nat : Stage(h, d)
    BY DEF DeviceInv
  <1>3. h + 1 \in Nat /\ d + 1 \in Nat
    OBVIOUS
  <1> USE <1>1, <1>2
  <1>4. CASE Connected
    <2>1. "handshake" \in PlainEvents
      BY DEF PlainEvents
    <2>2. Stage(h, d)' /\ managerBox' \in Seq(DeviceMessage)
      BY <1>4, <2>1, StagePut DEF Connected
    <2>3. DeviceTypeOK'
      BY <1>4, <2>2 DEF DeviceTypeOK, Connected
    <2> QED BY <2>2, <2>3 DEF DeviceInv
  <1>5. CASE ReadFails
    <2>1. "gone" \in PlainEvents /\ "failed" \in PlainEvents
      BY DEF PlainEvents
    <2>2. PICK e \in {"gone", "failed"} : managerBox' = Append(managerBox, [event |-> e])
      BY <1>5 DEF ReadFails
    <2>3. Stage(h, d)' /\ managerBox' \in Seq(DeviceMessage)
      BY <1>5, <2>1, <2>2, StagePut DEF ReadFails
    <2>4. losses' \in 0..MaxLosses
      BY <1>5, DeviceAssumption DEF DeviceTypeOK, ReadFails
    <2>5. DeviceTypeOK'
      BY <1>5, <2>3, <2>4 DEF DeviceTypeOK, ReadFails
    <2> QED BY <2>3, <2>5 DEF DeviceInv
  <1>6. CASE ConnectFails
    <2>1. "gone" \in PlainEvents /\ "failed" \in PlainEvents
      BY DEF PlainEvents
    <2>2. \/ UNCHANGED managerBox
          \/ \E e \in {"gone", "failed"} : managerBox' = Append(managerBox, [event |-> e])
      BY <1>6 DEF ConnectFails
    <2>3. UNCHANGED <<asked, initial, status, controlBox, handed, reads, closing, process>>
      BY <1>6 DEF ConnectFails
    <2>4. Stage(h, d)' /\ managerBox' \in Seq(DeviceMessage)
      <3>1. CASE UNCHANGED managerBox
        <4>1. Stage(h, d)'
          BY <2>3, <3>1, StageStays DEF Stage
        <4> QED BY <3>1, <4>1 DEF DeviceTypeOK
      <3>2. CASE ~UNCHANGED managerBox
        BY <2>1, <2>2, <2>3, <3>2, StagePut
      <3> QED BY <3>1, <3>2
    <2>5. losses' \in 0..MaxLosses /\ link' = "lost"
      BY <1>6, DeviceAssumption DEF DeviceTypeOK, ConnectFails
    <2>6. DeviceTypeOK'
      BY <2>3, <2>4, <2>5 DEF DeviceTypeOK
    <2> QED BY <2>4, <2>6 DEF DeviceInv
  <1>7. ASSUME NEW e \in Commands \cup OtherRequests \cup {"refusal", "response"}, Read(e)
        PROVE  DeviceInv'
    <2>1. Stage(h, d)' /\ managerBox' \in Seq(DeviceMessage) /\ asked' \in Seq(Commands)
      <3>1. CASE e \in Commands
        BY <1>7, <3>1, StageRead DEF Read
      <3>2. CASE e \notin Commands
        <4>1. e \in PlainEvents
          BY <3>2 DEF PlainEvents
        <4>2. asked' = asked /\ managerBox' = Append(managerBox, [event |-> e])
              /\ UNCHANGED <<initial, status, controlBox, handed>>
          BY <1>7, <3>2 DEF Read
        <4>3. Stage(h, d)' /\ managerBox' \in Seq(DeviceMessage)
          BY <4>1, <4>2, StagePut
        <4> QED BY <4>2, <4>3 DEF DeviceTypeOK
      <3> QED BY <3>1, <3>2
    <2>2. reads' \in 0..MaxReads
      BY <1>7, DeviceAssumption DEF DeviceTypeOK, Read
    <2>3. DeviceTypeOK'
      BY <1>7, <2>1, <2>2 DEF DeviceTypeOK, Read
    <2> QED BY <2>1, <2>3 DEF DeviceInv
  <1>8. CASE DispatchCommand
    <2>1. /\ Stage(h, d + 1)' /\ managerBox' \in Seq(DeviceMessage)
          /\ controlBox' \in Seq(CommandMessage)
      BY <1>8, StageDispatch
    <2>2. DeviceTypeOK'
      BY <1>8, <2>1 DEF DeviceTypeOK, DispatchCommand, Takes
    <2> QED BY <1>3, <2>1, <2>2 DEF DeviceInv
  <1>9. ASSUME NEW events \in SUBSET PlainEvents, Takes(events) PROVE Takes(PlainEvents)
    BY <1>9 DEF Takes
  <1>10. CASE \/ DispatchShort \/ DispatchThrows \/ DispatchBuiltIn
             \/ DispatchRefusal \/ DispatchResponse \/ ErrorHandler
    <2>1. Takes(PlainEvents)
      BY <1>9, <1>10 DEF DispatchShort, DispatchThrows, DispatchBuiltIn, DispatchRefusal, DispatchResponse,
                       ErrorHandler, PlainEvents, OtherRequests
    <2>2. UNCHANGED <<asked, initial, status, controlBox, handed, reads, losses>>
      BY <1>10 DEF DispatchShort, DispatchThrows, DispatchBuiltIn, DispatchRefusal, DispatchResponse, ErrorHandler
    <2>3. Stage(h, d)' /\ managerBox' \in Seq(DeviceMessage) /\ handed' \in Seq(Frame)
      BY <2>1, <2>2, StageTake
    <2>4. /\ link' \in {"connecting", "up", "closing", "lost"}
          /\ process' \in {"running", "stopped", "down", "terminated"}
          /\ closing' \in BOOLEAN
      BY <1>10 DEF DispatchShort, DispatchThrows, DispatchBuiltIn, DispatchRefusal, DispatchResponse, ErrorHandler,
                  DeviceTypeOK, Closed, Restarted, SetClosingMessage
    <2>5. DeviceTypeOK'
      BY <2>2, <2>3, <2>4 DEF DeviceTypeOK
    <2> QED BY <2>3, <2>5 DEF DeviceInv
  <1>11. CASE Handshake
    <2>1. Takes(PlainEvents)
      BY <1>9, <1>11 DEF Handshake, PlainEvents
    <2>2. \E f \in Frame : ~IsReply(f) /\ handed' = Append(handed, f)
      BY <1>11, FrameTypes, RequestIsNoReply DEF Handshake, HandOver
    <2>3. Stage(h, d)' /\ managerBox' \in Seq(DeviceMessage) /\ handed' \in Seq(Frame)
      BY <1>11, <2>1, <2>2, StageTake DEF Handshake
    <2>4. DeviceTypeOK'
      BY <1>11, <2>3 DEF DeviceTypeOK, Handshake
    <2> QED BY <2>3, <2>4 DEF DeviceInv
  <1>12. CASE Write
    <2>1. Stage(h, d)' /\ managerBox' \in Seq(DeviceMessage) /\ handed' \in Seq(Frame)
      BY <1>12, StageWrite
    <2>2. DeviceTypeOK'
      BY <1>12, <2>1 DEF DeviceTypeOK, Write
    <2> QED BY <2>1, <2>2 DEF DeviceInv
  <1>13. ASSUME NEW e \in {"on", "off"}, NEW on \in BOOLEAN, on <=> e = "on", Switch(e, on)
         PROVE  DeviceInv'
    <2>1. /\ Stage(h + 1, d)' /\ managerBox' \in Seq(DeviceMessage)
          /\ controlBox' \in Seq(CommandMessage)
      BY <1>13, StageSwitch
    <2>2. /\ status' = on
          /\ UNCHANGED <<link, reads, losses, initial, closing, asked, handed, process>>
      BY <1>13 DEF Switch
    <2>3. DeviceTypeOK'
      BY <2>1, <2>2 DEF DeviceTypeOK
    <2> QED BY <1>3, <2>1, <2>3 DEF DeviceInv
  <1>14. CASE On
    BY <1>13, <1>14 DEF On
  <1>15. CASE Off
    BY <1>13, <1>15 DEF Off
  <1>16. CASE Status
    <2>1. /\ Stage(h + 1, d)' /\ managerBox' \in Seq(DeviceMessage)
          /\ controlBox' \in Seq(CommandMessage)
      BY <1>16, StageStatus
    <2>2. DeviceTypeOK'
      BY <1>16, <2>1 DEF DeviceTypeOK, Status
    <2> QED BY <1>3, <2>1, <2>2 DEF DeviceInv
  <1>17. CASE DeviceShutdown
    <2>1. /\ UNCHANGED <<reads, losses, managerBox, controlBox, status, initial, closing, asked>>
          /\ link' \in {"connecting", "up", "closing", "lost"}
          /\ process' \in {"running", "stopped", "down", "terminated"}
      BY <1>17 DEF DeviceShutdown, DeviceTypeOK, Closed
    <2>2. handed' = handed \/ handed' = Append(handed, Request("devices.disconnect"))
      BY <1>17 DEF DeviceShutdown, HandOver
    <2>3. /\ managerBox \in Seq(DeviceMessage) /\ handed \in Seq(Frame)
          /\ FrameStream(managerBox, handed, h, DueFrames)
          /\ CommandStream(managerBox, asked, d)
      BY DEF DeviceTypeOK, Stage
    <2> DEFINE q == Request("devices.disconnect")
    <2>4. q \in Frame /\ ~IsReply(q)
      BY FrameTypes, RequestIsNoReply
    <2> HIDE DEF q
    <2>5. FrameStream(managerBox, Append(handed, q), h, DueFrames)
          /\ Append(handed, q) \in Seq(Frame)
      BY <2>3, <2>4, StreamRequest
    <2>6. FrameStream(managerBox', handed', h, DueFrames) /\ handed' \in Seq(Frame)
      BY <2>1, <2>2, <2>3, <2>5 DEF q
    <2>7. Stage(h, d)'
      BY <2>1, <2>3, <2>6, StageStays
    <2>8. DeviceTypeOK'
      BY <2>1, <2>6 DEF DeviceTypeOK
    <2> QED BY <2>7, <2>8 DEF DeviceInv
  <1>18. CASE UNCHANGED deviceVars
    <2>1. UNCHANGED <<asked, initial, status, controlBox, managerBox, handed>>
      BY <1>18 DEF deviceVars
    <2>2. Stage(h, d)'
      BY <2>1, StageStays DEF Stage
    <2>3. DeviceTypeOK'
      BY <1>18 DEF DeviceTypeOK, deviceVars
    <2> QED BY <2>2, <2>3 DEF DeviceInv
  <1> QED
    BY <1>4, <1>5, <1>7, <1>8, <1>10, <1>11, <1>12, <1>14, <1>15, <1>16, <1>17, <1>18,
       <1>6 DEF DeviceNext

\* Frames leave in one order: of two different ones only one is before the other.
LEMMA BeforeAsymmetric ==
  ASSUME NEW f \in Frame, NEW g \in Frame, Before(f, g)
  PROVE  ~Before(g, f) /\ f # g
  BY DEF Before, Frame

LEMMA DueIsFrame ==
  ASSUME asked \in Seq(Commands), NEW n \in DOMAIN asked, NEW f \in Due(n)
  PROVE  f \in Frame /\ f.of = n /\ IsReply(f)
  <1>1. n \in Nat /\ StatusAfter(n) \in BOOLEAN /\ (asked[n] = "on") \in BOOLEAN
    BY StatusIsBoolean
  <1>2. /\ Answer(n, TRUE) \in Frame /\ Answer(n, StatusAfter(n)) \in Frame
        /\ Notification(n, asked[n] = "on") \in Frame
    <2>1. TRUE \in BOOLEAN
      OBVIOUS
    <2> QED BY <1>1, <2>1, FrameTypes, Zenon
  <1>3. \A v : /\ Answer(n, v).of = n /\ IsReply(Answer(n, v))
              /\ Notification(n, v).of = n /\ IsReply(Notification(n, v))
    BY DEF Answer, Notification, IsReply
  <1>4. \/ f = Answer(n, TRUE) \/ f = Answer(n, StatusAfter(n))
        \/ f = Notification(n, asked[n] = "on")
    BY DEF Due
  <1> QED BY <1>2, <1>3, <1>4, Zenon

LEMMA DeviceInvInOrder == DeviceInv => AnswersInOrder
  <1> SUFFICES ASSUME DeviceInv, NEW i \in Replies
               PROVE  /\ handed[i].of \in DOMAIN asked /\ handed[i] \in Due(handed[i].of)
                      /\ \A j \in Replies : j < i => Before(handed[j], handed[i])
                      /\ \A n \in DOMAIN asked : \A f \in Due(n) :
                           Before(f, handed[i]) => \E j \in Replies : j < i /\ handed[j] = f
    BY DEF AnswersInOrder
  <1>1. PICK h \in Nat, d \in Nat : Stage(h, d)
    BY DEF DeviceInv
  <1>2. asked \in Seq(Commands) /\ handed \in Seq(Frame) /\ managerBox \in Seq(DeviceMessage)
    BY DEF DeviceInv, DeviceTypeOK
  <1>3. /\ \A j \in Replies : j \in DOMAIN handed /\ j \in Nat /\ IsReply(handed[j])
        /\ \A j \in DOMAIN handed : IsReply(handed[j]) => j \in Replies
        /\ \A j \in DOMAIN handed : handed[j] \in Frame /\ handed[j].of \in Nat
    <2>1. \A j \in DOMAIN handed : j \in Nat /\ handed[j] \in Frame
      BY <1>2
    <2>2. \A f \in Frame : f.of \in Nat
      BY DEF Frame
    <2>3. /\ \A j \in Replies : j \in DOMAIN handed /\ IsReply(handed[j])
          /\ \A j \in DOMAIN handed : IsReply(handed[j]) => j \in Replies
      BY DEF Replies, IsReply
    <2> QED BY <2>1, <2>2, <2>3
  <1>4. h <= Len(asked) /\ FrameStream(managerBox, handed, h, DueFrames)
    BY <1>1, <1>2 DEF Stage
  <1>5. \A n \in 1..h : n \in DOMAIN asked /\ DueFrames[n] = Due(n)
    BY <1>2, <1>4 DEF DueFrames
  <1>6. handed[i].of \in 1..h /\ handed[i] \in DueFrames[handed[i].of]
    BY <1>3, <1>4 DEF FrameStream, HandedDue
  <1>7. handed[i].of \in DOMAIN asked /\ handed[i] \in Due(handed[i].of)
    BY <1>5, <1>6
  <1>8. \A j, k \in Replies : j < k => Before(handed[j], handed[k])
    BY <1>3, <1>4 DEF FrameStream, HandedOrdered
  <1>9. ASSUME NEW n \in DOMAIN asked, NEW f \in Due(n), Before(f, handed[i])
        PROVE  \E j \in Replies : j < i /\ handed[j] = f
    <2>1. f \in Frame /\ f.of = n /\ IsReply(f)
      BY <1>2, DueIsFrame
    <2>2. n \in 1..h
      <3>1. n \in Nat /\ n >= 1
        BY <1>2
      <3>2. n <= handed[i].of
        BY <1>3, <1>9, <2>1, <3>1 DEF Before
      <3> QED BY <1>6, <3>1, <3>2
    <2>3. \/ \E j \in DOMAIN handed : handed[j] = f
          \/ \E j \in DOMAIN managerBox : IsWrite(managerBox[j]) /\ managerBox[j].frame = f
      <3>1. f \in DueFrames[n]
        BY <1>5, <2>2
      <3> QED BY <1>4, <2>2, <3>1 DEF FrameStream, NonePassed
    <2>4. ASSUME NEW j \in DOMAIN managerBox, IsWrite(managerBox[j]), managerBox[j].frame = f
          PROVE  FALSE
      <3>1. Before(handed[i], f)
        BY <1>3, <1>4, <2>4 DEF FrameStream, HandedFirst
      <3> QED BY <1>3, <1>9, <2>1, <3>1, BeforeAsymmetric
    <2>5. PICK j \in DOMAIN handed : handed[j] = f
      BY <2>3, <2>4
    <2>6. j \in Replies
      BY <1>3, <2>1, <2>5
    <2>7. j # i
      BY <1>3, <1>9, <2>1, <2>5, BeforeAsymmetric
    <2>8. ~(i < j)
      <3>1. ASSUME i < j PROVE FALSE
        <4>1. Before(handed[i], handed[j])
          BY <1>8, <2>6, <3>1
        <4> QED BY <1>3, <1>9, <2>1, <2>5, <4>1, BeforeAsymmetric
      <3> QED BY <3>1
    <2>9. j < i
      BY <1>3, <2>6, <2>7, <2>8
    <2> QED BY <2>5, <2>6, <2>9
  <1> QED BY <1>7, <1>8, <1>9

\* The type invariant of the device program: what may lie in the two mailboxes
\* and among the frames, for any number of messages read and connections lost.
THEOREM DeviceTypeCorrect == DeviceSpec => []DeviceTypeOK
  <1>1. DeviceInv => DeviceTypeOK
    BY DEF DeviceInv
  <1> QED BY <1>1, DeviceInitInv, DeviceNextInv, PTL DEF DeviceSpec

\* The device answers commands in the order it read them, passes none over,
\* answers none twice, and each with the status the commands before it left;
\* the notification of a switch stands between its answer and the next one.
THEOREM DeviceAnswersInOrder == DeviceSpec => []AnswersInOrder
  BY DeviceInitInv, DeviceNextInv, DeviceInvInOrder, PTL DEF DeviceSpec

-----------------------------------------------------------------------------
(* The tables of a program while it is put together *)

calls == program.calls

\* The names a call can put into a table or a message, and the sender of what
\* comes from outside.
Names ==
  {calls[i].name : i \in {j \in DOMAIN calls : calls[j].op \in {"service", "shared", "join", "add"}}}
  \cup {"provider"}

WireMessage ==
  [sender : Names, command : {"sync_contacts", "add_channel", "work", "other", "error"},
   body : Names]

\* Where the program is in its calls.
ProgressOK ==
  /\ program \in Scripts
  /\ at \in 1..(Len(calls) + 1)
  /\ phase \in {"wiring", "running", "down", "terminated"}
  /\ phase \in {"running", "down"} => at = Len(calls) + 1

\* Ids are positions of the table; a layer is sorted and shares no actor with
\* another layer.
TableOK ==
  /\ store \in Seq(Names) /\ edges \in Seq(Seq(Nat)) /\ Len(edges) = Len(store)
  /\ \A e \in DOMAIN edges : \A i \in DOMAIN edges[e] :
       /\ edges[e][i] \in 1..Len(store)
       /\ \A j \in DOMAIN edges[e] : i < j => edges[e][i] < edges[e][j]
  /\ \A e, f \in DOMAIN edges : \A i \in DOMAIN edges[e], j \in DOMAIN edges[f] :
       edges[e][i] = edges[f][j] => e = f

\* A group has the name of its entry point.
GroupsOK ==
  /\ group \in [DOMAIN group -> [entry : Nat, shared : Seq(Nat), cursor : Nat]]
  /\ \A g \in DOMAIN group :
       /\ group[g].entry \in 1..Len(store) /\ store[group[g].entry] = g
       /\ \A i \in DOMAIN group[g].shared : group[g].shared[i] \in 1..Len(store)

\* Every actor of a group has a mailbox.
BoxesOK ==
  /\ mailbox \in [DOMAIN mailbox -> Seq(WireMessage)]
  /\ contacts \in [DOMAIN mailbox -> SUBSET Names]
  /\ DOMAIN group \subseteq DOMAIN mailbox
  /\ \A e \in DOMAIN edges : \A i \in DOMAIN edges[e] : store[edges[e][i]] \in DOMAIN mailbox

\* The actors and the groups are those of the calls made.
NamesOK ==
  /\ \A a \in DOMAIN mailbox :
       \E i \in 1..(at - 1) : calls[i].op \in Spawns /\ calls[i].name = a
  /\ \A i \in 1..(at - 1) : calls[i].op = "service" => calls[i].name \in DOMAIN group

WiringTypeOK == ProgressOK /\ TableOK /\ GroupsOK /\ BoxesOK /\ NamesOK

----------------------------------------------------------------------------
(* Facts about the operators *)

LEMMA AppendIs ==
  ASSUME NEW S, NEW s \in Seq(S), NEW x \in S
  PROVE  Append(s, x) = [i \in 1..(Len(s) + 1) |-> IF i = Len(s) + 1 THEN x ELSE s[i]]
  <1> DEFINE t == [i \in 1..(Len(s) + 1) |-> IF i = Len(s) + 1 THEN x ELSE s[i]]
  <1>1. Append(s, x) \in Seq(S) /\ Len(Append(s, x)) = Len(s) + 1
    OBVIOUS
  <1>2. t \in Seq(S) /\ Len(t) = Len(s) + 1
    OBVIOUS
  <1>3. \A i \in 1..(Len(s) + 1) : Append(s, x)[i] = t[i]
    OBVIOUS
  <1> HIDE DEF t
  <1>4. Append(s, x) = t
    BY <1>1, <1>2, <1>3
  <1> QED BY <1>4 DEF t

LEMMA AppendGrows ==
  ASSUME NEW S, NEW s \in Seq(S), NEW x \in S
  PROVE  /\ DOMAIN Append(s, x) = DOMAIN s \cup {Len(s) + 1}
         /\ \A i \in DOMAIN s : Append(s, x)[i] = s[i] /\ i < Len(s) + 1 /\ i \in Nat
         /\ Append(s, x)[Len(s) + 1] = x
         /\ Len(s) + 1 \notin DOMAIN s /\ Len(s) \in Nat
  <1>1. Len(s) \in Nat /\ DOMAIN s = 1..Len(s) /\ DOMAIN Append(s, x) = 1..(Len(s) + 1)
    OBVIOUS
  <1>2. 1..(Len(s) + 1) = 1..Len(s) \cup {Len(s) + 1}
    BY <1>1
  <1>3. \A i \in DOMAIN s : Append(s, x)[i] = s[i]
    OBVIOUS
  <1>4. Append(s, x)[Len(s) + 1] = x
    OBVIOUS
  <1> QED BY <1>1, <1>2, <1>3, <1>4

\* The next id is above all others, so node::add puts it last.
LEMMA NodeAddAppends ==
  ASSUME NEW ids \in Seq(Nat), NEW id \in Nat, \A i \in DOMAIN ids : ids[i] < id
  PROVE  NodeAdd(ids, id) = Append(ids, id)
  <1>1. id \notin ToSet(ids)
    BY DEF ToSet
  <1> DEFINE P(n) == /\ \A i \in 1..n : ids[i] <= id
                     /\ \A i \in (n + 1)..Len(ids) : ids[i] > id
  <1>2. Len(ids) \in 0..Len(ids) /\ P(Len(ids))
    OBVIOUS
  <1>3. ASSUME NEW n \in 0..Len(ids), P(n) PROVE n = Len(ids)
    <2>1. ASSUME n # Len(ids) PROVE FALSE
      <3>1. Len(ids) \in (n + 1)..Len(ids) /\ Len(ids) \in DOMAIN ids
        BY <2>1
      <3>2. ids[Len(ids)] > id /\ ids[Len(ids)] < id /\ ids[Len(ids)] \in Nat
        BY <1>3, <3>1
      <3> QED BY <3>2
    <2> QED BY <2>1
  <1>4. UpperBound(ids, id) = Len(ids)
    <2>1. UpperBound(ids, id) = CHOOSE n \in 0..Len(ids) : P(n)
      BY DEF UpperBound
    <2> HIDE DEF P
    <2> QED BY <1>2, <1>3, <2>1
  <1>5. NodeAdd(ids, id) = [i \in 1..(Len(ids) + 1) |->
          IF i <= Len(ids) THEN ids[i] ELSE IF i = Len(ids) + 1 THEN id ELSE ids[i - 1]]
    BY <1>1, <1>4 DEF NodeAdd
  <1>6. Append(ids, id) = [i \in 1..(Len(ids) + 1) |-> IF i = Len(ids) + 1 THEN id ELSE ids[i]]
    BY AppendIs
  <1>7. \A i \in 1..(Len(ids) + 1) :
          (IF i <= Len(ids) THEN ids[i] ELSE IF i = Len(ids) + 1 THEN id ELSE ids[i - 1])
          = (IF i = Len(ids) + 1 THEN id ELSE ids[i])
    OBVIOUS
  <1> QED BY <1>5, <1>6, <1>7

LEMMA ScriptFacts ==
  ASSUME ProgressOK
  PROVE  /\ calls \in Seq(ToSet(calls)) /\ Len(calls) \in Nat /\ DOMAIN calls = 1..Len(calls)
         /\ at \in Nat /\ MaxWork \in Nat
         /\ WellFormed(calls)
         /\ \A i \in DOMAIN calls : calls[i].op \in Spawns => calls[i].name \in DOMAIN uses.names
         /\ \A i \in 1..(at - 1) : i \in DOMAIN calls
  <1>1. /\ WellFormed(calls) /\ MaxWork \in Nat
        /\ \A i \in DOMAIN calls : calls[i].op \in Spawns => calls[i].name \in DOMAIN uses.names
    BY WiringAssumption DEF ProgressOK, calls, uses
  <1>2. calls \in Seq(ToSet(calls))
    BY <1>1 DEF WellFormed
  <1>3. Len(calls) \in Nat /\ DOMAIN calls = 1..Len(calls)
    BY <1>2
  <1>4. at \in 1..(Len(calls) + 1)
    BY DEF ProgressOK
  <1> QED BY <1>1, <1>2, <1>3, <1>4

\* A call step: where it stands.
LEMMA CallFacts ==
  ASSUME ProgressOK, NEW op, Call(op)
  PROVE  /\ at \in DOMAIN calls /\ calls[at].op = op /\ TheCall = calls[at]
         /\ at' = at + 1 /\ program' = program /\ phase = "wiring" /\ phase' = "wiring"
         /\ calls' = calls /\ Names' = Names /\ ProgressOK'
         /\ 1..(at' - 1) = 1..(at - 1) \cup {at}
  <1>1. /\ Len(calls) \in Nat /\ DOMAIN calls = 1..Len(calls) /\ at \in Nat
        /\ at \in 1..(Len(calls) + 1)
    BY ScriptFacts DEF ProgressOK
  <1>2. /\ at <= Len(calls) /\ TheCall = calls[at] /\ calls[at].op = op
        /\ at' = at + 1 /\ program' = program /\ phase = "wiring" /\ phase' = "wiring"
    BY DEF Call, MoreCalls, TheCall, calls
  <1>3. at \in DOMAIN calls
    BY <1>1, <1>2
  <1>4. calls' = calls
    BY <1>2 DEF calls
  <1>5. Names' = Names
    BY <1>4 DEF Names
  <1>6. at' \in 1..(Len(calls) + 1)
    BY <1>1, <1>2
  <1>7. ProgressOK'
    BY <1>2, <1>4, <1>6 DEF ProgressOK
  <1>8. 1..(at' - 1) = 1..(at - 1) \cup {at}
    BY <1>1, <1>2
  <1> QED BY <1>2, <1>3, <1>4, <1>5, <1>7, <1>8

\* The group of a call is there, and a new actor has a new name.
LEMMA CallGroup ==
  ASSUME ProgressOK, NamesOK, at \in DOMAIN calls,
         calls[at].op \in {"shared", "join", "add"}
  PROVE  /\ calls[at].group \in DOMAIN group /\ calls[at].name \in Names
         /\ calls[at].op = "join" => calls[at].name \in DOMAIN group
  <1>1. WellFormed(calls)
    BY ScriptFacts
  <1>2. HasGroup(calls, at, calls[at].group)
        /\ (calls[at].op = "join" => HasGroup(calls, at, calls[at].name))
    BY <1>1 DEF WellFormed
  <1>3. calls[at].name \in Names
    BY DEF Names
  <1> QED BY <1>2, <1>3 DEF HasGroup, NamesOK

LEMMA CallSpawn ==
  ASSUME ProgressOK, NamesOK, at \in DOMAIN calls, calls[at].op \in Spawns
  PROVE  calls[at].name \notin DOMAIN mailbox /\ calls[at].name \in Names
  <1>1. WellFormed(calls)
    BY ScriptFacts
  <1>2. \A j \in 1..(at - 1) : calls[j].op \in Spawns => calls[j].name # calls[at].name
    BY <1>1 DEF WellFormed
  <1>3. calls[at].name \in Names
    BY DEF Names, Spawns
  <1> QED BY <1>2, <1>3 DEF NamesOK

LEMMA DeliverTypes ==
  ASSUME BoxesOK, NEW as, NEW m \in WireMessage
  PROVE  /\ DOMAIN Deliver(as, m) = DOMAIN mailbox
         /\ Deliver(as, m) \in [DOMAIN mailbox -> Seq(WireMessage)]
         /\ \A a \in DOMAIN mailbox :
              Deliver(as, m)[a] = IF a \in ToSet(as) THEN Append(mailbox[a], m) ELSE mailbox[a]
  <1>1. \A a \in DOMAIN mailbox : mailbox[a] \in Seq(WireMessage)
    BY DEF BoxesOK
  <1>2. \A a \in DOMAIN mailbox : Append(mailbox[a], m) \in Seq(WireMessage)
    BY <1>1
  <1> QED BY <1>1, <1>2 DEF Deliver

LEMMA MakeMessageType ==
  ASSUME NEW x \in Names, NEW y \in Names,
         NEW c \in {"sync_contacts", "add_channel", "work", "other", "error"}
  PROVE  /\ MakeMessage(x, c, y) \in WireMessage
         /\ MakeMessage(x, c, y).command = c /\ MakeMessage(x, c, y).body = y
         /\ MakeMessage(x, c, y).sender = x
  BY DEF MakeMessage, WireMessage

LEMMA ActorsAreNames ==
  ASSUME ProgressOK, NamesOK
  PROVE  DOMAIN mailbox \subseteq Names
  <1> SUFFICES ASSUME NEW a \in DOMAIN mailbox PROVE a \in Names
    OBVIOUS
  <1>1. PICK i \in 1..(at - 1) : calls[i].op \in Spawns /\ calls[i].name = a
    BY DEF NamesOK
  <1>2. i \in DOMAIN calls
    BY ScriptFacts
  <1> QED BY <1>1, <1>2 DEF Names, Spawns

\* A step that adds nothing to the tables: what mailboxes and contacts become.
LEMMA TypesQuiet ==
  ASSUME WiringTypeOK, UNCHANGED <<program, at, store, edges, group>>,
         phase' \in {"running", "down"} => at = Len(calls) + 1,
         phase' \in {"wiring", "running", "down", "terminated"},
         mailbox' \in [DOMAIN mailbox -> Seq(WireMessage)],
         contacts' \in [DOMAIN mailbox -> SUBSET Names]
  PROVE  WiringTypeOK'
  <1>1. calls' = calls
    BY DEF calls
  <1>2. Names' = Names
    BY <1>1 DEF Names
  <1>3. WireMessage' = WireMessage
    BY <1>2 DEF WireMessage
  <1>4. DOMAIN mailbox' = DOMAIN mailbox
    OBVIOUS
  <1>5. ProgressOK'
    BY <1>1 DEF WiringTypeOK, ProgressOK
  <1>6. TableOK'
    BY <1>2 DEF WiringTypeOK, TableOK
  <1>7. GroupsOK'
    BY DEF WiringTypeOK, GroupsOK
  <1>8. BoxesOK'
    <2>1. DOMAIN group \subseteq DOMAIN mailbox
          /\ \A e \in DOMAIN edges : \A i \in DOMAIN edges[e] : store[edges[e][i]] \in DOMAIN mailbox
      BY DEF WiringTypeOK, BoxesOK
    <2> QED BY <1>2, <1>3, <1>4, <2>1 DEF BoxesOK
  <1>9. NamesOK'
    BY <1>1, <1>4 DEF WiringTypeOK, NamesOK
  <1> QED BY <1>5, <1>6, <1>7, <1>8, <1>9 DEF WiringTypeOK

\* The same for a call: one more is made.
LEMMA TypesCall ==
  ASSUME WiringTypeOK, NEW op, Call(op), op \notin Spawns,
         UNCHANGED <<store, edges, group>>,
         mailbox' \in [DOMAIN mailbox -> Seq(WireMessage)],
         contacts' \in [DOMAIN mailbox -> SUBSET Names]
  PROVE  WiringTypeOK'
  <1>1. /\ calls' = calls /\ Names' = Names /\ ProgressOK' /\ calls[at].op = op
        /\ 1..(at' - 1) = 1..(at - 1) \cup {at}
    BY CallFacts DEF WiringTypeOK
  <1>2. WireMessage' = WireMessage
    BY <1>1 DEF WireMessage
  <1>3. DOMAIN mailbox' = DOMAIN mailbox
    OBVIOUS
  <1>4. TableOK' /\ GroupsOK'
    BY <1>1 DEF WiringTypeOK, TableOK, GroupsOK
  <1>5. BoxesOK'
    <2>1. DOMAIN group \subseteq DOMAIN mailbox
          /\ \A e \in DOMAIN edges : \A i \in DOMAIN edges[e] : store[edges[e][i]] \in DOMAIN mailbox
      BY DEF WiringTypeOK, BoxesOK
    <2> QED BY <1>1, <1>2, <1>3, <2>1 DEF BoxesOK
  <1>6. NamesOK'
    <2>1. NamesOK
      BY DEF WiringTypeOK
    <2> QED BY <1>1, <1>3, <2>1 DEF NamesOK, Spawns
  <1> QED BY <1>1, <1>4, <1>5, <1>6 DEF WiringTypeOK

\* storage_space::add.
LEMMA TableAdd ==
  ASSUME TableOK, NEW n \in Names, StorageAdd(n), Names' = Names
  PROVE  /\ TableOK' /\ Len(store') = Len(store) + 1 /\ Len(store) \in Nat
         /\ \A i \in 1..Len(store) : store'[i] = store[i] /\ edges'[i] = edges[i]
         /\ store'[Len(store) + 1] = n /\ edges'[Len(store) + 1] = <<>>
         /\ DOMAIN edges' = 1..(Len(store) + 1) /\ DOMAIN edges = 1..Len(store)
  <1> DEFINE L == Len(store)
  <1>1. /\ store \in Seq(Names) /\ edges \in Seq(Seq(Nat)) /\ Len(edges) = L /\ L \in Nat
        /\ store' = Append(store, n) /\ edges' = Append(edges, <<>>)
    BY DEF TableOK, StorageAdd, AddVertex, NewNode
  <1>2. <<>> \in Seq(Nat)
    OBVIOUS
  <1>3. /\ store' \in Seq(Names) /\ Len(store') = L + 1
        /\ \A i \in 1..L : store'[i] = store[i]
        /\ store'[L + 1] = n
    BY <1>1
  <1>4. /\ edges' \in Seq(Seq(Nat)) /\ Len(edges') = L + 1
        /\ \A i \in 1..L : edges'[i] = edges[i]
        /\ edges'[L + 1] = <<>>
        /\ DOMAIN edges' = 1..(L + 1) /\ DOMAIN edges = 1..L
    BY <1>1, <1>2
  <1>5. L \in Nat
    BY <1>1
  <1> HIDE DEF L
  <1>6. \A e \in 1..(L + 1) : e \in 1..L \/ e = L + 1
    BY <1>5
  <1>7. \A x \in 1..L : x \in 1..(L + 1)
    BY <1>5
  <1>8. DOMAIN <<>> = {}
    OBVIOUS
  <1>9. \A e \in DOMAIN edges : \A i \in DOMAIN edges[e] :
          /\ edges[e][i] \in 1..L
          /\ \A j \in DOMAIN edges[e] : i < j => edges[e][i] < edges[e][j]
    BY DEF TableOK, L
  <1>10. \A e, f \in DOMAIN edges : \A i \in DOMAIN edges[e], j \in DOMAIN edges[f] :
           edges[e][i] = edges[f][j] => e = f
    BY DEF TableOK
  <1>11. \A e \in DOMAIN edges' : \A i \in DOMAIN edges'[e] :
           e \in DOMAIN edges /\ edges'[e] = edges[e]
    BY <1>4, <1>6, <1>8
  <1>12. \A e \in DOMAIN edges' : \A i \in DOMAIN edges'[e] :
           /\ edges'[e][i] \in 1..(L + 1)
           /\ \A j \in DOMAIN edges'[e] : i < j => edges'[e][i] < edges'[e][j]
    BY <1>7, <1>9, <1>11
  <1>13. \A e, f \in DOMAIN edges' : \A i \in DOMAIN edges'[e], j \in DOMAIN edges'[f] :
           edges'[e][i] = edges'[f][j] => e = f
    BY <1>10, <1>11
  <1>14. TableOK'
    BY <1>3, <1>4, <1>12, <1>13 DEF TableOK, L
  <1> QED BY <1>3, <1>4, <1>5, <1>14 DEF L

\* storage_space::add and create_link.
LEMMA TableLink ==
  ASSUME TableOK, NEW n \in Names, NEW id \in DOMAIN edges, AddLink(id, n), Names' = Names
  PROVE  /\ TableOK' /\ Len(store') = Len(store) + 1 /\ Len(store) \in Nat
         /\ \A i \in 1..Len(store) : store'[i] = store[i]
         /\ store'[Len(store) + 1] = n
         /\ \A i \in 1..Len(store) : i # id => edges'[i] = edges[i]
         /\ edges'[id] = Append(edges[id], Len(store) + 1)
         /\ edges'[Len(store) + 1] = <<>> /\ edges[id] \in Seq(Nat)
         /\ DOMAIN edges' = 1..(Len(store) + 1) /\ DOMAIN edges = 1..Len(store)
  <1> DEFINE L == Len(store)
             x == Append(edges[id], L + 1)
             ed == [edges EXCEPT ![id] = x]
  <1>1. /\ store \in Seq(Names) /\ edges \in Seq(Seq(Nat)) /\ Len(edges) = L /\ L \in Nat
        /\ store' = Append(store, n) /\ DOMAIN edges = 1..L
    BY DEF TableOK, AddLink
  <1>2. <<>> \in Seq(Nat) /\ DOMAIN <<>> = {}
    OBVIOUS
  <1>3. \A e \in DOMAIN edges : \A i \in DOMAIN edges[e] :
          /\ edges[e][i] \in 1..L
          /\ \A j \in DOMAIN edges[e] : i < j => edges[e][i] < edges[e][j]
    BY DEF TableOK
  <1>4. \A e, f \in DOMAIN edges : \A i \in DOMAIN edges[e], j \in DOMAIN edges[f] :
          edges[e][i] = edges[f][j] => e = f
    BY DEF TableOK
  <1>5. edges[id] \in Seq(Nat) /\ \A i \in DOMAIN edges[id] : edges[id][i] < L + 1
    <2>1. edges[id] \in Seq(Nat)
      BY <1>1
    <2> QED BY <1>1, <1>3, <2>1
  <1>6. NodeAdd(edges[id], L + 1) = x
    BY <1>1, <1>5, NodeAddAppends
  <1>7. edges' = Append(ed, <<>>)
    BY <1>6 DEF AddLink, NewNode
  <1>8. x \in Seq(Nat)
    BY <1>1, <1>5
  <1>9. /\ DOMAIN x = DOMAIN edges[id] \cup {Len(edges[id]) + 1}
        /\ \A i \in DOMAIN edges[id] : x[i] = edges[id][i] /\ i < Len(edges[id]) + 1 /\ i \in Nat
        /\ x[Len(edges[id]) + 1] = L + 1
        /\ Len(edges[id]) + 1 \notin DOMAIN edges[id] /\ Len(edges[id]) \in Nat
    <2>1. L + 1 \in Nat
      BY <1>1
    <2> HIDE DEF L
    <2> QED BY <1>5, <2>1, AppendGrows
  <1>10. /\ store' \in Seq(Names) /\ Len(store') = L + 1
         /\ \A i \in 1..L : store'[i] = store[i]
         /\ store'[L + 1] = n
    BY <1>1
  <1> HIDE DEF x, L
  <1>11. /\ ed \in Seq(Seq(Nat)) /\ Len(ed) = L /\ ed[id] = x
         /\ \A i \in 1..L : i # id => ed[i] = edges[i]
    BY <1>1, <1>8
  <1> HIDE DEF ed
  <1>12. /\ edges' \in Seq(Seq(Nat)) /\ Len(edges') = L + 1
         /\ \A i \in 1..L : edges'[i] = ed[i]
         /\ edges'[L + 1] = <<>>
         /\ DOMAIN edges' = 1..(L + 1)
    BY <1>2, <1>7, <1>11
  <1>13. /\ edges'[id] = x /\ \A i \in 1..L : i # id => edges'[i] = edges[i]
    BY <1>1, <1>11, <1>12
  <1>14. \A e \in DOMAIN edges' : \A i \in DOMAIN edges'[e] : e \in DOMAIN edges
    <2>1. \A e \in 1..(L + 1) : e \in 1..L \/ e = L + 1
      BY <1>1
    <2> QED BY <1>1, <1>2, <1>12, <2>1
  <1>15. \A e \in DOMAIN edges' : \A i \in DOMAIN edges'[e] :
           \/ i \in DOMAIN edges[e] /\ edges'[e][i] = edges[e][i] /\ edges[e][i] \in 1..L
           \/ e = id /\ i = Len(edges[id]) + 1 /\ edges'[e][i] = L + 1
    <2> SUFFICES ASSUME NEW e \in DOMAIN edges', NEW i \in DOMAIN edges'[e]
                 PROVE  \/ i \in DOMAIN edges[e] /\ edges'[e][i] = edges[e][i]
                           /\ edges[e][i] \in 1..L
                        \/ e = id /\ i = Len(edges[id]) + 1 /\ edges'[e][i] = L + 1
      OBVIOUS
    <2>1. e \in DOMAIN edges /\ e \in 1..L
      BY <1>1, <1>14
    <2>2. CASE e # id
      BY <1>3, <1>13, <2>1, <2>2
    <2>3. CASE e = id
      BY <1>3, <1>9, <1>13, <2>1, <2>3
    <2> QED BY <2>2, <2>3
  <1>16. \A y \in 1..L : y \in 1..(L + 1) /\ y # L + 1 /\ y < L + 1 /\ L + 1 \in 1..(L + 1)
    BY <1>1
  <1>17. L + 1 \in 1..(L + 1)
    BY <1>1
  <1>18. ASSUME NEW e \in DOMAIN edges', NEW i \in DOMAIN edges'[e]
         PROVE  /\ edges'[e][i] \in 1..(L + 1)
                /\ \A j \in DOMAIN edges'[e] : i < j => edges'[e][i] < edges'[e][j]
    <2>1. edges'[e][i] \in 1..(L + 1)
      BY <1>15, <1>16, <1>17
    <2>2. ASSUME NEW j \in DOMAIN edges'[e], i < j PROVE edges'[e][i] < edges'[e][j]
      <3>1. i \in DOMAIN edges[e] /\ edges'[e][i] = edges[e][i] /\ edges[e][i] \in 1..L
        <4>1. ~(e = id /\ i = Len(edges[id]) + 1)
          <5>1. ASSUME e = id, i = Len(edges[id]) + 1 PROVE FALSE
            <6>1. j \in DOMAIN x
              BY <1>13, <5>1
            <6>2. j \in DOMAIN edges[id] \/ j = Len(edges[id]) + 1
              BY <1>9, <6>1
            <6> QED BY <1>9, <2>2, <5>1, <6>2
          <5> QED BY <5>1
        <4> QED BY <1>15, <4>1
      <3>2. CASE j \in DOMAIN edges[e] /\ edges'[e][j] = edges[e][j]
        BY <1>3, <1>14, <2>2, <3>1, <3>2
      <3>3. CASE edges'[e][j] = L + 1
        BY <1>16, <3>1, <3>3
      <3> QED BY <1>15, <3>2, <3>3
    <2> QED BY <2>1, <2>2
  <1>19. ASSUME NEW e \in DOMAIN edges', NEW f \in DOMAIN edges',
                NEW i \in DOMAIN edges'[e], NEW j \in DOMAIN edges'[f],
                edges'[e][i] = edges'[f][j]
         PROVE  e = f
    <2>1. \/ i \in DOMAIN edges[e] /\ edges'[e][i] = edges[e][i] /\ edges[e][i] \in 1..L
          \/ e = id /\ edges'[e][i] = L + 1
      BY <1>15
    <2>2. \/ j \in DOMAIN edges[f] /\ edges'[f][j] = edges[f][j] /\ edges[f][j] \in 1..L
          \/ f = id /\ edges'[f][j] = L + 1
      BY <1>15
    <2>3. e \in DOMAIN edges /\ f \in DOMAIN edges
      BY <1>14
    <2> QED BY <1>4, <1>16, <1>19, <2>1, <2>2, <2>3
  <1>20. TableOK'
    BY <1>10, <1>12, <1>18, <1>19 DEF TableOK, L
  <1> QED BY <1>1, <1>5, <1>10, <1>12, <1>13, <1>20 DEF L, x

LEMMA SpawnTypes ==
  ASSUME BoxesOK, NEW n, NEW box \in Seq(WireMessage), Spawn(n, box)
  PROVE  /\ DOMAIN mailbox' = DOMAIN mailbox \cup {n}
         /\ mailbox' \in [DOMAIN mailbox' -> Seq(WireMessage)]
         /\ contacts' \in [DOMAIN mailbox' -> SUBSET Names]
         /\ \A a \in DOMAIN mailbox : a # n => mailbox'[a] = mailbox[a] /\ contacts'[a] = contacts[a]
         /\ mailbox'[n] = box /\ contacts'[n] = {}
  <1>1. /\ mailbox \in [DOMAIN mailbox -> Seq(WireMessage)]
        /\ contacts \in [DOMAIN mailbox -> SUBSET Names] /\ DOMAIN contacts = DOMAIN mailbox
    BY DEF BoxesOK
  <1>2. /\ mailbox' = [a \in DOMAIN mailbox \cup {n} |-> IF a = n THEN box ELSE mailbox[a]]
        /\ contacts' = [a \in DOMAIN mailbox \cup {n} |-> IF a = n THEN {} ELSE contacts[a]]
    BY <1>1 DEF Spawn
  <1> QED BY <1>1, <1>2

\* A call that makes an actor.
LEMMA NamesSpawn ==
  ASSUME WiringTypeOK, NEW op \in Spawns, Call(op), NEW box, Spawn(TheCall.name, box),
         DOMAIN mailbox' = DOMAIN mailbox \cup {TheCall.name},
         DOMAIN group \subseteq DOMAIN group',
         op = "service" => TheCall.name \in DOMAIN group'
  PROVE  NamesOK'
  <1>1. /\ calls' = calls /\ calls[at].op = op /\ TheCall = calls[at]
        /\ 1..(at' - 1) = 1..(at - 1) \cup {at}
    BY CallFacts DEF WiringTypeOK
  <1>2. NamesOK
    BY DEF WiringTypeOK
  <1>3. \A a \in DOMAIN mailbox' : \E i \in 1..(at' - 1) : calls[i].op \in Spawns /\ calls[i].name = a
    BY <1>1, <1>2 DEF NamesOK
  <1>4. \A i \in 1..(at' - 1) : calls[i].op = "service" => calls[i].name \in DOMAIN group'
    BY <1>1, <1>2 DEF NamesOK
  <1> QED BY <1>1, <1>3, <1>4 DEF NamesOK

LEMMA AddServiceTypes ==
  ASSUME WiringTypeOK, AddService
  PROVE  /\ WiringTypeOK' /\ TheCall.name \notin DOMAIN mailbox
         /\ group'[TheCall.name] = NewGroup(Len(store) + 1)
         /\ \A g \in DOMAIN group : g # TheCall.name /\ group'[g] = group[g]
         /\ DOMAIN group' = DOMAIN group \cup {TheCall.name}
  <1> DEFINE n == TheCall.name
             box == <<MakeMessage(n, "add_channel", n)>>
             L == Len(store)
  <1>1. /\ Call("service") /\ Spawn(n, box) /\ CreatedGroup(n) /\ StorageAdd(n)
    BY DEF AddService
  <1>2. /\ at \in DOMAIN calls /\ calls[at].op = "service" /\ TheCall = calls[at]
        /\ calls' = calls /\ Names' = Names /\ ProgressOK'
    BY <1>1, CallFacts DEF WiringTypeOK
  <1>3. n \notin DOMAIN mailbox /\ n \in Names
    BY <1>2, CallSpawn DEF WiringTypeOK, Spawns
  <1> HIDE DEF n
  <1>4. MakeMessage(n, "add_channel", n) \in WireMessage
    BY <1>3, MakeMessageType
  <1>5. box \in Seq(WireMessage)
    BY <1>4
  <1> HIDE DEF box
  <1>6. /\ DOMAIN mailbox' = DOMAIN mailbox \cup {n}
        /\ mailbox' \in [DOMAIN mailbox' -> Seq(WireMessage)]
        /\ contacts' \in [DOMAIN mailbox' -> SUBSET Names]
    BY <1>1, <1>5, SpawnTypes DEF WiringTypeOK
  <1>7. /\ TableOK' /\ Len(store') = L + 1 /\ L \in Nat
        /\ \A i \in 1..L : store'[i] = store[i] /\ edges'[i] = edges[i]
        /\ store'[L + 1] = n /\ edges'[L + 1] = <<>>
        /\ DOMAIN edges' = 1..(L + 1) /\ DOMAIN edges = 1..L
    BY <1>1, <1>2, <1>3, TableAdd DEF WiringTypeOK
  <1> HIDE DEF L
  <1>8. WireMessage' = WireMessage
    BY <1>2 DEF WireMessage
  <1>9. /\ DOMAIN group' = DOMAIN group \cup {n} /\ n \notin DOMAIN group
        /\ group'[n] = NewGroup(L + 1)
        /\ \A g \in DOMAIN group : group'[g] = group[g]
    <2>1. n \notin DOMAIN group
      BY <1>3 DEF WiringTypeOK, BoxesOK
    <2>2. group' = [g \in DOMAIN group \cup {n} |-> IF g = n THEN NewGroup(L + 1) ELSE group[g]]
      BY <1>1 DEF CreatedGroup, L
    <2> QED BY <2>1, <2>2
  <1>10. /\ NewGroup(L + 1) \in [entry : Nat, shared : Seq(Nat), cursor : Nat]
         /\ NewGroup(L + 1).entry = L + 1 /\ NewGroup(L + 1).shared = <<>>
    <2>1. <<>> \in Seq(Nat) /\ L + 1 \in Nat
      BY <1>7
    <2> QED BY <2>1 DEF NewGroup
  <1>11. \A i \in 1..L : i \in 1..(L + 1)
    BY <1>7
  <1>12. GroupsOK'
    <2>1. group' \in [DOMAIN group' -> [entry : Nat, shared : Seq(Nat), cursor : Nat]]
      <3>1. \A g \in DOMAIN group : group[g] \in [entry : Nat, shared : Seq(Nat), cursor : Nat]
        BY DEF WiringTypeOK, GroupsOK
      <3>2. \A g \in DOMAIN group' : group'[g] \in [entry : Nat, shared : Seq(Nat), cursor : Nat]
        BY <1>9, <1>10, <3>1
      <3>3. group' = [g \in DOMAIN group' |-> group'[g]]
        BY <1>1 DEF CreatedGroup
      <3> QED BY <3>2, <3>3
    <2>2. ASSUME NEW g \in DOMAIN group
          PROVE  /\ group'[g].entry \in 1..(L + 1) /\ store'[group'[g].entry] = g
                 /\ \A i \in DOMAIN group'[g].shared : group'[g].shared[i] \in 1..(L + 1)
      <3>1. /\ group[g].entry \in 1..L /\ store[group[g].entry] = g
            /\ \A i \in DOMAIN group[g].shared : group[g].shared[i] \in 1..L
        BY DEF WiringTypeOK, GroupsOK, L
      <3> QED BY <1>7, <1>9, <1>11, <3>1
    <2>3. /\ group'[n].entry \in 1..(L + 1) /\ store'[group'[n].entry] = n
          /\ \A i \in DOMAIN group'[n].shared : group'[n].shared[i] \in 1..(L + 1)
      <3>1. L + 1 \in 1..(L + 1) /\ DOMAIN <<>> = {}
        BY <1>7
      <3> QED BY <1>7, <1>9, <1>10, <3>1
    <2> QED BY <1>7, <1>9, <2>1, <2>2, <2>3 DEF GroupsOK
  <1>13. BoxesOK'
    <2>1. DOMAIN group \subseteq DOMAIN mailbox
          /\ \A e \in DOMAIN edges : \A i \in DOMAIN edges[e] :
               edges[e][i] \in 1..L /\ store[edges[e][i]] \in DOMAIN mailbox
      BY DEF WiringTypeOK, BoxesOK, TableOK, L
    <2>2. \A e \in 1..(L + 1) : e \in 1..L \/ e = L + 1
      BY <1>7
    <2>3. \A e \in DOMAIN edges' : \A i \in DOMAIN edges'[e] : store'[edges'[e][i]] \in DOMAIN mailbox'
      <3>1. DOMAIN <<>> = {}
        OBVIOUS
      <3> QED BY <1>6, <1>7, <2>1, <2>2, <3>1
    <2> QED BY <1>2, <1>6, <1>8, <1>9, <2>1, <2>3 DEF BoxesOK
  <1>14. NamesOK'
    BY <1>1, <1>6, <1>9, NamesSpawn DEF n, Spawns
  <1> QED BY <1>2, <1>3, <1>7, <1>9, <1>12, <1>13, <1>14 DEF WiringTypeOK, n, L

LEMMA AddSharedTypes ==
  ASSUME WiringTypeOK, AddShared
  PROVE  /\ WiringTypeOK' /\ TheCall.group \in DOMAIN group /\ TheCall.name \in Names
         /\ DOMAIN group' = DOMAIN group
         /\ \A g \in DOMAIN group : g # TheCall.group => group'[g] = group[g]
         /\ group'[TheCall.group].shared = Append(group[TheCall.group].shared, Len(store) + 1)
         /\ group'[TheCall.group].entry = group[TheCall.group].entry
         /\ group'[TheCall.group].cursor = group[TheCall.group].cursor
  <1> DEFINE n == TheCall.name
             t == TheCall.group
             L == Len(store)
             m == MakeMessage(n, "sync_contacts", n)
             R == [entry : Nat, shared : Seq(Nat), cursor : Nat]
  <1>1. /\ Call("shared") /\ StorageAdd(n)
        /\ group' = [group EXCEPT ![t].shared = Append(@, L + 1)]
        /\ mailbox' = Deliver(<<EntryPoint(t)>> \o CurrentLayer(group[t].entry), m)
        /\ contacts' = contacts
    BY DEF AddShared
  <1>2. /\ at \in DOMAIN calls /\ calls[at].op = "shared" /\ TheCall = calls[at]
        /\ calls' = calls /\ Names' = Names /\ ProgressOK'
        /\ 1..(at' - 1) = 1..(at - 1) \cup {at}
    BY <1>1, CallFacts DEF WiringTypeOK
  <1>3. t \in DOMAIN group /\ n \in Names
    BY <1>2, CallGroup DEF WiringTypeOK
  <1> HIDE DEF n, t
  <1>4. m \in WireMessage
    BY <1>3, MakeMessageType
  <1> HIDE DEF m
  <1>5. mailbox' \in [DOMAIN mailbox -> Seq(WireMessage)] /\ DOMAIN mailbox' = DOMAIN mailbox
    BY <1>1, <1>4, DeliverTypes DEF WiringTypeOK
  <1>6. /\ TableOK' /\ Len(store') = L + 1 /\ L \in Nat
        /\ \A i \in 1..L : store'[i] = store[i] /\ edges'[i] = edges[i]
        /\ store'[L + 1] = n /\ edges'[L + 1] = <<>>
        /\ DOMAIN edges' = 1..(L + 1) /\ DOMAIN edges = 1..L
    BY <1>1, <1>2, <1>3, TableAdd DEF WiringTypeOK
  <1> HIDE DEF L
  <1>7. WireMessage' = WireMessage
    BY <1>2 DEF WireMessage
  <1>8. group \in [DOMAIN group -> R]
    BY DEF WiringTypeOK, GroupsOK
  <1>9. group[t] \in R /\ group[t].shared \in Seq(Nat)
    BY <1>3, <1>8
  <1>10. Append(group[t].shared, L + 1) \in Seq(Nat)
    BY <1>6, <1>9
  <1>11. /\ DOMAIN group' = DOMAIN group
         /\ \A g \in DOMAIN group : g # t => group'[g] = group[g]
         /\ group'[t] = [group[t] EXCEPT !.shared = Append(@, L + 1)]
    BY <1>1, <1>3, <1>8
  <1>12. /\ group'[t].shared = Append(group[t].shared, L + 1)
         /\ group'[t].entry = group[t].entry /\ group'[t].cursor = group[t].cursor
         /\ group'[t] \in R
    BY <1>9, <1>10, <1>11
  <1>13. \A i \in 1..L : i \in 1..(L + 1)
    BY <1>6
  <1>14. GroupsOK'
    <2>1. group' \in [DOMAIN group' -> R]
      <3>1. \A g \in DOMAIN group' : group'[g] \in R
        BY <1>8, <1>11, <1>12
      <3>2. group' = [g \in DOMAIN group' |-> group'[g]]
        BY <1>1, <1>8
      <3> QED BY <3>1, <3>2
    <2>2. ASSUME NEW g \in DOMAIN group
          PROVE  /\ group'[g].entry \in 1..(L + 1) /\ store'[group'[g].entry] = g
                 /\ \A i \in DOMAIN group'[g].shared : group'[g].shared[i] \in 1..(L + 1)
      <3>1. /\ group[g].entry \in 1..L /\ store[group[g].entry] = g
            /\ \A i \in DOMAIN group[g].shared : group[g].shared[i] \in 1..L
        BY DEF WiringTypeOK, GroupsOK, L
      <3>2. group'[g].entry \in 1..(L + 1) /\ store'[group'[g].entry] = g
        BY <1>6, <1>11, <1>12, <1>13, <3>1
      <3>3. \A i \in DOMAIN group'[g].shared : group'[g].shared[i] \in 1..(L + 1)
        <4>1. CASE g # t
          BY <1>11, <1>13, <3>1, <4>1
        <4>2. CASE g = t
          <5> DEFINE sh == group[t].shared
          <5>1. sh \in Seq(Nat) /\ L + 1 \in Nat /\ L + 1 \in 1..(L + 1)
            BY <1>6, <1>9
          <5> HIDE DEF sh
          <5>2. /\ DOMAIN Append(sh, L + 1) = DOMAIN sh \cup {Len(sh) + 1}
                /\ \A i \in DOMAIN sh : Append(sh, L + 1)[i] = sh[i]
                /\ Append(sh, L + 1)[Len(sh) + 1] = L + 1
            BY <5>1, AppendGrows
          <5>3. \A i \in DOMAIN sh : sh[i] \in 1..(L + 1)
            BY <1>13, <3>1, <4>2 DEF sh
          <5>4. group'[g].shared = Append(sh, L + 1)
            BY <1>12, <4>2 DEF sh
          <5> QED BY <5>1, <5>2, <5>3, <5>4
        <4> QED BY <4>1, <4>2
      <3> QED BY <3>2, <3>3
    <2> QED BY <1>6, <1>11, <2>1, <2>2 DEF GroupsOK
  <1>15. BoxesOK'
    <2>1. /\ DOMAIN group \subseteq DOMAIN mailbox
          /\ contacts \in [DOMAIN mailbox -> SUBSET Names]
          /\ \A e \in DOMAIN edges : \A i \in DOMAIN edges[e] :
               edges[e][i] \in 1..L /\ store[edges[e][i]] \in DOMAIN mailbox
      BY DEF WiringTypeOK, BoxesOK, TableOK, L
    <2>2. \A e \in 1..(L + 1) : e \in 1..L \/ e = L + 1
      BY <1>6
    <2>3. \A e \in DOMAIN edges' : \A i \in DOMAIN edges'[e] : store'[edges'[e][i]] \in DOMAIN mailbox'
      <3>1. DOMAIN <<>> = {}
        OBVIOUS
      <3> QED BY <1>5, <1>6, <2>1, <2>2, <3>1
    <2> QED BY <1>1, <1>2, <1>5, <1>7, <1>11, <2>1, <2>3 DEF BoxesOK
  <1>16. NamesOK'
    <2>1. NamesOK
      BY DEF WiringTypeOK
    <2> QED BY <1>2, <1>5, <1>11, <2>1 DEF NamesOK
  <1> QED BY <1>2, <1>3, <1>6, <1>11, <1>12, <1>14, <1>15, <1>16 DEF WiringTypeOK, n, t, L

\* What abstract_group::add tells the new actor n of group t.
Welcome(t, n) ==
  [i \in DOMAIN group[t].shared |-> MakeMessage(n, "sync_contacts", store[group[t].shared[i]])]

LEMMA WelcomeType ==
  ASSUME WiringTypeOK, NEW t \in DOMAIN group, NEW n \in Names
  PROVE  /\ Welcome(t, n) \in Seq(WireMessage)
         /\ DOMAIN Welcome(t, n) = DOMAIN group[t].shared
         /\ \A i \in DOMAIN group[t].shared :
              /\ Welcome(t, n)[i].command = "sync_contacts"
              /\ Welcome(t, n)[i].body = store[group[t].shared[i]]
  <1> DEFINE sh == group[t].shared
  <1>1. sh \in Seq(Nat) /\ \A i \in DOMAIN sh : sh[i] \in 1..Len(store)
    BY DEF WiringTypeOK, GroupsOK
  <1>2. store \in Seq(Names)
    BY DEF WiringTypeOK, TableOK
  <1> HIDE DEF sh
  <1>3. \A i \in DOMAIN sh : store[sh[i]] \in Names
    BY <1>1, <1>2
  <1>4. \A i \in DOMAIN sh :
          /\ MakeMessage(n, "sync_contacts", store[sh[i]]) \in WireMessage
          /\ MakeMessage(n, "sync_contacts", store[sh[i]]).command = "sync_contacts"
          /\ MakeMessage(n, "sync_contacts", store[sh[i]]).body = store[sh[i]]
    BY <1>3, MakeMessageType
  <1> DEFINE w == [i \in DOMAIN sh |-> MakeMessage(n, "sync_contacts", store[sh[i]])]
  <1>5. Len(sh) \in Nat /\ DOMAIN sh = 1..Len(sh)
    BY <1>1
  <1>6. w \in [1..Len(sh) -> WireMessage]
    BY <1>4, <1>5
  <1>7. /\ DOMAIN w = DOMAIN sh
        /\ \A i \in DOMAIN sh : w[i] = MakeMessage(n, "sync_contacts", store[sh[i]])
    OBVIOUS
  <1>8. Welcome(t, n) = w
    BY DEF Welcome, sh
  <1> HIDE DEF w
  <1>9. w \in Seq(WireMessage)
    BY <1>5, <1>6
  <1> QED BY <1>4, <1>7, <1>8, <1>9 DEF sh

LEMMA AddTypes ==
  ASSUME WiringTypeOK, Add
  PROVE  /\ WiringTypeOK' /\ TheCall.group \in DOMAIN group /\ TheCall.name \in Names
         /\ TheCall.name \notin DOMAIN mailbox
         /\ Spawn(TheCall.name, Welcome(TheCall.group, TheCall.name))
         /\ group[TheCall.group].entry \in DOMAIN edges
  <1> DEFINE n == TheCall.name
             t == TheCall.group
             L == Len(store)
             id == group[t].entry
             box == Welcome(t, n)
  <1>1. /\ Call("add") /\ Spawn(n, box) /\ AddLink(id, n) /\ group' = group
    BY DEF Add, Welcome
  <1>2. /\ at \in DOMAIN calls /\ calls[at].op = "add" /\ TheCall = calls[at]
        /\ calls' = calls /\ Names' = Names /\ ProgressOK'
    BY <1>1, CallFacts DEF WiringTypeOK
  <1>3. t \in DOMAIN group /\ n \in Names
    BY <1>2, CallGroup DEF WiringTypeOK
  <1>4. n \notin DOMAIN mailbox
    BY <1>2, CallSpawn DEF WiringTypeOK, Spawns
  <1>5. id \in DOMAIN edges
    BY <1>3 DEF WiringTypeOK, GroupsOK, TableOK
  <1> HIDE DEF n, t, id
  <1>6. box \in Seq(WireMessage)
    BY <1>3, WelcomeType
  <1> HIDE DEF box
  <1>7. /\ DOMAIN mailbox' = DOMAIN mailbox \cup {n}
        /\ mailbox' \in [DOMAIN mailbox' -> Seq(WireMessage)]
        /\ contacts' \in [DOMAIN mailbox' -> SUBSET Names]
    BY <1>1, <1>6, SpawnTypes DEF WiringTypeOK
  <1>8. /\ TableOK' /\ Len(store') = L + 1 /\ L \in Nat
        /\ \A i \in 1..L : store'[i] = store[i]
        /\ store'[L + 1] = n
        /\ \A i \in 1..L : i # id => edges'[i] = edges[i]
        /\ edges'[id] = Append(edges[id], L + 1)
        /\ edges'[L + 1] = <<>> /\ edges[id] \in Seq(Nat)
        /\ DOMAIN edges' = 1..(L + 1) /\ DOMAIN edges = 1..L
    BY <1>1, <1>2, <1>3, <1>5, TableLink DEF WiringTypeOK
  <1> HIDE DEF L
  <1>9. WireMessage' = WireMessage
    BY <1>2 DEF WireMessage
  <1>10. \A i \in 1..L : i \in 1..(L + 1)
    BY <1>8
  <1>11. GroupsOK'
    <2>1. /\ group' \in [DOMAIN group' -> [entry : Nat, shared : Seq(Nat), cursor : Nat]]
          /\ \A g \in DOMAIN group :
               /\ group[g].entry \in 1..L /\ store[group[g].entry] = g
               /\ \A i \in DOMAIN group[g].shared : group[g].shared[i] \in 1..L
      BY <1>1 DEF WiringTypeOK, GroupsOK, L
    <2> QED BY <1>1, <1>8, <1>10, <2>1 DEF GroupsOK
  <1>12. BoxesOK'
    <2>1. DOMAIN group \subseteq DOMAIN mailbox
          /\ \A e \in DOMAIN edges : \A i \in DOMAIN edges[e] :
               edges[e][i] \in 1..L /\ store[edges[e][i]] \in DOMAIN mailbox
      BY DEF WiringTypeOK, BoxesOK, TableOK, L
    <2>2. \A e \in 1..(L + 1) : e \in 1..L \/ e = L + 1
      BY <1>8
    <2>3. ASSUME NEW e \in DOMAIN edges', NEW i \in DOMAIN edges'[e]
          PROVE  store'[edges'[e][i]] \in DOMAIN mailbox'
      <3>1. DOMAIN <<>> = {}
        OBVIOUS
      <3>2. e \in 1..L
        BY <1>8, <2>2, <3>1
      <3>3. CASE e # id
        BY <1>7, <1>8, <2>1, <3>2, <3>3
      <3>4. CASE e = id
        <4> DEFINE ids == edges[id]
        <4>1. ids \in Seq(Nat) /\ L + 1 \in Nat /\ edges'[e] = Append(ids, L + 1)
          BY <1>8, <3>4
        <4> HIDE DEF ids
        <4>2. /\ DOMAIN Append(ids, L + 1) = DOMAIN ids \cup {Len(ids) + 1}
              /\ \A j \in DOMAIN ids : Append(ids, L + 1)[j] = ids[j]
              /\ Append(ids, L + 1)[Len(ids) + 1] = L + 1
          BY <4>1, AppendGrows
        <4>3. \A j \in DOMAIN ids : ids[j] \in 1..L /\ store[ids[j]] \in DOMAIN mailbox
          BY <1>5, <2>1 DEF ids
        <4>4. i \in DOMAIN ids \/ i = Len(ids) + 1
          BY <4>1, <4>2
        <4>5. CASE i \in DOMAIN ids
          <5>1. edges'[e][i] = ids[i]
            BY <4>1, <4>2, <4>5
          <5> QED BY <1>7, <1>8, <4>3, <4>5, <5>1
        <4>6. CASE i = Len(ids) + 1
          <5>1. edges'[e][i] = L + 1
            BY <4>1, <4>2, <4>6
          <5> QED BY <1>7, <1>8, <5>1
        <4> QED BY <4>4, <4>5, <4>6
      <3> QED BY <3>3, <3>4
    <2> QED BY <1>1, <1>2, <1>7, <1>9, <2>1, <2>3 DEF BoxesOK
  <1>13. NamesOK'
    BY <1>1, <1>7, NamesSpawn DEF n, Spawns
  <1> QED BY <1>1, <1>2, <1>3, <1>4, <1>5, <1>8, <1>11, <1>12, <1>13
          DEF WiringTypeOK, n, t, id, box

\* The actor a step takes a message from.
LEMMA BoxTypes ==
  ASSUME WiringTypeOK, NEW a \in DOMAIN mailbox
  PROVE  /\ mailbox[a] \in Seq(WireMessage) /\ contacts[a] \in SUBSET Names /\ a \in Names
         /\ mailbox \in [DOMAIN mailbox -> Seq(WireMessage)]
         /\ contacts \in [DOMAIN mailbox -> SUBSET Names]
         /\ \A b \in DOMAIN mailbox : mailbox[b] \in Seq(WireMessage)
         /\ "provider" \in Names
  <1>1. a \in Names
    BY ActorsAreNames DEF WiringTypeOK
  <1>2. "provider" \in Names
    BY DEF Names
  <1> QED BY <1>1, <1>2 DEF WiringTypeOK, BoxesOK

LEMMA LayerTypes ==
  ASSUME WiringTypeOK, NEW g \in DOMAIN group
  PROVE  /\ group[g].entry \in DOMAIN edges /\ EntryPoint(g) = g /\ g \in DOMAIN mailbox
         /\ FindingAdjacency(group[g].entry) \in Seq(Nat)
         /\ DOMAIN CurrentLayer(group[g].entry) = DOMAIN FindingAdjacency(group[g].entry)
         /\ \A i \in DOMAIN FindingAdjacency(group[g].entry) :
              /\ CurrentLayer(group[g].entry)[i] = store[FindingAdjacency(group[g].entry)[i]]
              /\ FindingAdjacency(group[g].entry)[i] \in 1..Len(store)
              /\ CurrentLayer(group[g].entry)[i] \in DOMAIN mailbox
  <1>1. group[g].entry \in 1..Len(store) /\ store[group[g].entry] = g /\ g \in DOMAIN mailbox
    BY DEF WiringTypeOK, GroupsOK, BoxesOK
  <1>2. edges \in Seq(Seq(Nat)) /\ Len(edges) = Len(store)
    BY DEF WiringTypeOK, TableOK
  <1> DEFINE e == group[g].entry
  <1>3. e \in DOMAIN edges /\ edges[e] \in Seq(Nat)
    BY <1>1, <1>2
  <1>4. \A i \in DOMAIN edges[e] : edges[e][i] \in 1..Len(store) /\ store[edges[e][i]] \in DOMAIN mailbox
    BY <1>3 DEF WiringTypeOK, TableOK, BoxesOK
  <1>5. CurrentLayer(e) = [i \in DOMAIN edges[e] |-> store[edges[e][i]]]
    BY DEF CurrentLayer, FindingAdjacency
  <1> HIDE DEF e
  <1> QED BY <1>1, <1>3, <1>4, <1>5 DEF EntryPoint, FindingAdjacency, e

LEMMA WiringInitTypes == WiringInit => WiringTypeOK
  <1> SUFFICES ASSUME WiringInit PROVE WiringTypeOK
    OBVIOUS
  <1>1. /\ program \in Scripts /\ at = 1 /\ phase = "wiring"
        /\ store = <<>> /\ edges = <<>> /\ group = <<>> /\ mailbox = <<>> /\ contacts = <<>>
    BY DEF WiringInit
  <1>2. ProgressOK
    <2>1. calls \in Seq(ToSet(calls))
      BY <1>1, WiringAssumption DEF calls, WellFormed
    <2>2. 1 \in 1..(Len(calls) + 1)
      BY <2>1
    <2> QED BY <1>1, <2>2 DEF ProgressOK
  <1>3. /\ \A S : <<>> \in Seq(S) /\ <<>> \in [DOMAIN <<>> -> S]
        /\ DOMAIN <<>> = {} /\ Len(<<>>) = 0
    OBVIOUS
  <1>4. TableOK
    BY <1>1, <1>3 DEF TableOK
  <1>5. GroupsOK
    BY <1>1, <1>3 DEF GroupsOK
  <1>6. BoxesOK
    BY <1>1, <1>3 DEF BoxesOK
  <1>7. NamesOK
    BY <1>1, <1>3 DEF NamesOK
  <1> QED BY <1>2, <1>4, <1>5, <1>6, <1>7 DEF WiringTypeOK

----------------------------------------------------------------------------
(* The inductive invariants *)

\* A broadcast serves a whole layer and a send the next actor of it: those at
\* or before the cursor have had one message more than those behind it.
Turns ==
  /\ served \in Seq(Nat) /\ Len(served) = Len(store)
  /\ phase = "wiring" =>
       /\ \A i \in DOMAIN served : served[i] = 0
       /\ \A g \in DOMAIN group : group[g].cursor = 0
  /\ \A g \in DOMAIN group :
       LET ids == edges[group[g].entry]
           c   == group[g].cursor
       IN  /\ c < Len(ids) \/ c = 0
           /\ \E b \in Nat : \A i \in DOMAIN ids :
                served[ids[i]] = IF i <= c THEN b + 1 ELSE b

Standard == {"sync_contacts", "add_channel"}

\* The name n is told before anything else in the mailbox is handled.
Tells(box, n) ==
  \E i \in DOMAIN box :
    /\ box[i].command = "sync_contacts" /\ box[i].body = n
    /\ \A j \in 1..i : box[j].command \in Standard

Aware(a, n) == n \in contacts[a] \/ Tells(mailbox[a], n)

\* The ids of the actors of a group.
Members(g) == {group[g].entry} \cup ToSet(edges[group[g].entry])

\* Nothing but introductions is in the mailboxes before the workers start.
OnlyIntroductions ==
  phase = "wiring" =>
    \A a \in DOMAIN mailbox : \A i \in DOMAIN mailbox[a] : mailbox[a][i].command \in Standard

\* An actor of a group is aware of what the group shares.
SharedKnown ==
  \A g \in DOMAIN group : \A m \in Members(g) : \A i \in DOMAIN group[g].shared :
    Aware(store[m], store[group[g].shared[i]])

\* What the calls made so far have left in the tables.
CallsDone ==
  /\ \A i \in 1..(at - 1) : calls[i].op = "add" =>
       \E m \in Members(calls[i].group) : store[m] = calls[i].name
  /\ \A i \in 1..(at - 1) : calls[i].op = "shared" =>
       \E k \in DOMAIN group[calls[i].group].shared :
         store[group[calls[i].group].shared[k]] = calls[i].name

\* What they have told.
CallsTold ==
  \A i \in 1..(at - 1) : calls[i].op \in {"shared", "join"} =>
    /\ Aware(calls[i].group, calls[i].name)
    /\ \A j \in 1..(at - 1) :
         /\ calls[j].op = "add" /\ calls[j].group = calls[i].group
         /\ calls[i].op = "join" => j < i
         => Aware(calls[j].name, calls[i].name)

Introduced ==
  /\ OnlyIntroductions /\ SharedKnown /\ CallsDone /\ CallsTold
  /\ AnnouncedIsFound

----------------------------------------------------------------------------
(* Every step keeps the types *)

LEMMA JoinTypes ==
  ASSUME WiringTypeOK, Join
  PROVE  WiringTypeOK'
  <1> DEFINE h == TheCall.name
             t == TheCall.group
             m == MakeMessage(EntryPoint(h), "sync_contacts", EntryPoint(h))
  <1>1. /\ Call("join") /\ mailbox' = Deliver(<<EntryPoint(t)>> \o CurrentLayer(group[t].entry), m)
        /\ UNCHANGED <<store, edges, group, contacts>>
    BY DEF Join
  <1>2. at \in DOMAIN calls /\ calls[at].op = "join" /\ TheCall = calls[at]
    BY <1>1, CallFacts DEF WiringTypeOK
  <1>3. h \in DOMAIN group /\ h \in Names
    BY <1>2, CallGroup DEF WiringTypeOK
  <1> HIDE DEF h, t
  <1>4. EntryPoint(h) = h
    BY <1>3, LayerTypes
  <1>5. m \in WireMessage
    BY <1>3, <1>4, MakeMessageType
  <1> HIDE DEF m
  <1>6. mailbox' \in [DOMAIN mailbox -> Seq(WireMessage)]
    BY <1>1, <1>5, DeliverTypes DEF WiringTypeOK
  <1>7. contacts \in [DOMAIN mailbox -> SUBSET Names]
    BY DEF WiringTypeOK, BoxesOK
  <1> QED BY <1>1, <1>6, <1>7, TypesCall DEF Spawns

\* Once the workers run, all calls have been made.
LEMMA RunningFacts ==
  ASSUME WiringTypeOK, phase = "running"
  PROVE  at = Len(calls) + 1
  BY DEF WiringTypeOK, ProgressOK

LEMMA FromOutsideTypes ==
  ASSUME WiringTypeOK, NEW a \in DOMAIN mailbox, FromOutside(a)
  PROVE  WiringTypeOK'
  <1>1. PICK command \in {"work", "other"} :
          mailbox' = Deliver(<<a>>, MakeMessage("provider", command, a))
    BY DEF FromOutside
  <1>2. MakeMessage("provider", command, a) \in WireMessage
    BY BoxTypes, MakeMessageType
  <1>3. mailbox' \in [DOMAIN mailbox -> Seq(WireMessage)]
    BY <1>1, <1>2, DeliverTypes DEF WiringTypeOK
  <1>4. contacts' \in [DOMAIN mailbox -> SUBSET Names]
    BY BoxTypes DEF FromOutside
  <1>5. /\ UNCHANGED <<program, at, store, edges, group>>
        /\ phase = "running" /\ phase' = "running"
    BY DEF FromOutside
  <1> QED BY <1>3, <1>4, <1>5, RunningFacts, TypesQuiet

\* The messages of one of the two kinds at the head of a mailbox.
HeadBodies(a, n, c) == {mailbox[a][i].body : i \in {j \in 1..n : mailbox[a][j].command = c}}

LEMMA IntroduceTypes ==
  ASSUME WiringTypeOK, NEW a \in DOMAIN mailbox, Introduce(a)
  PROVE  /\ WiringTypeOK'
         /\ \E n \in StandardRun(a) :
              /\ n \in 1..Len(mailbox[a])
              /\ contacts' = [contacts EXCEPT ![a] = @ \cup HeadBodies(a, n, "sync_contacts")]
              /\ mailbox' = [mailbox EXCEPT ![a] = SubSeq(@, n + 1, Len(@))]
  <1>1. PICK n \in StandardRun(a) :
          /\ contacts' = [contacts EXCEPT ![a] = @ \cup HeadBodies(a, n, "sync_contacts")]
          /\ mailbox' = [mailbox EXCEPT ![a] = SubSeq(@, n + 1, Len(@))]
          /\ UNCHANGED <<program, at, store, edges, group, phase>> /\ phase = "running"
    BY DEF Introduce, HeadBodies
  <1>2. n \in 1..Len(mailbox[a])
    BY DEF StandardRun
  <1>3. /\ mailbox[a] \in Seq(WireMessage) /\ contacts[a] \in SUBSET Names
        /\ mailbox \in [DOMAIN mailbox -> Seq(WireMessage)]
        /\ contacts \in [DOMAIN mailbox -> SUBSET Names]
    BY BoxTypes
  <1>4. \A i \in 1..n : mailbox[a][i] \in WireMessage
    BY <1>2, <1>3
  <1>5. HeadBodies(a, n, "sync_contacts") \in SUBSET Names
    BY <1>4 DEF HeadBodies, WireMessage
  <1>6. SubSeq(mailbox[a], n + 1, Len(mailbox[a])) \in Seq(WireMessage)
    BY <1>2, <1>3
  <1>7. mailbox' \in [DOMAIN mailbox -> Seq(WireMessage)]
    BY <1>1, <1>3, <1>6
  <1>8. contacts' \in [DOMAIN mailbox -> SUBSET Names]
    BY <1>1, <1>3, <1>5
  <1>9. WiringTypeOK'
    BY <1>1, <1>7, <1>8, RunningFacts, TypesQuiet
  <1> QED BY <1>1, <1>2, <1>9

LEMMA HandleWorkTypes ==
  ASSUME WiringTypeOK, NEW a \in DOMAIN mailbox, HandleWork(a)
  PROVE  /\ WiringTypeOK'
         /\ \A b \in DOMAIN mailbox :
              LET rest == IF b = a THEN Tail(mailbox[b]) ELSE mailbox[b]
              IN  /\ rest \in Seq(WireMessage)
                  /\ \/ mailbox'[b] = rest
                     \/ \E m \in WireMessage : mailbox'[b] = Append(rest, m)
  <1> DEFINE m == MakeMessage(a, "work", a)
             rest(b) == IF b = a THEN Tail(mailbox[b]) ELSE mailbox[b]
  <1>1. PICK n \in uses.names[a] :
          mailbox' = [b \in DOMAIN mailbox |->
             IF b = n /\ work < MaxWork THEN Append(rest(b), m) ELSE rest(b)]
    BY DEF HandleWork
  <1>2. mailbox[a] # <<>> /\ UNCHANGED <<program, at, store, edges, group, phase, contacts>>
        /\ phase = "running"
    BY DEF HandleWork
  <1>3. m \in WireMessage
    BY BoxTypes, MakeMessageType
  <1>4. /\ \A b \in DOMAIN mailbox : mailbox[b] \in Seq(WireMessage)
        /\ contacts \in [DOMAIN mailbox -> SUBSET Names]
    BY BoxTypes
  <1>5. Tail(mailbox[a]) \in Seq(WireMessage)
    BY <1>2, <1>4
  <1>6. \A b \in DOMAIN mailbox : rest(b) \in Seq(WireMessage)
    BY <1>4, <1>5
  <1> HIDE DEF m, rest
  <1>7. \A b \in DOMAIN mailbox : Append(rest(b), m) \in Seq(WireMessage)
    BY <1>3, <1>6
  <1>8. mailbox' \in [DOMAIN mailbox -> Seq(WireMessage)]
    BY <1>1, <1>6, <1>7
  <1>9. WiringTypeOK'
    BY <1>2, <1>4, <1>8, RunningFacts, TypesQuiet
  <1>10. \A b \in DOMAIN mailbox : mailbox'[b] = rest(b) \/ mailbox'[b] = Append(rest(b), m)
    BY <1>1
  <1> QED BY <1>3, <1>6, <1>9, <1>10 DEF rest

LEMMA SkipTypes ==
  ASSUME WiringTypeOK, NEW a \in DOMAIN mailbox, Skip(a)
  PROVE  /\ WiringTypeOK'
         /\ \A b \in DOMAIN mailbox :
              LET rest == IF b = a THEN Tail(mailbox[b]) ELSE mailbox[b]
              IN  /\ rest \in Seq(WireMessage)
                  /\ \/ mailbox'[b] = rest
                     \/ \E m \in WireMessage : mailbox'[b] = Append(rest, m)
  <1> DEFINE from == Message(a).sender
             m == MakeMessage(a, "error", from)
             after == [mailbox EXCEPT ![a] = Tail(@)]
             rest(b) == IF b = a THEN Tail(mailbox[b]) ELSE mailbox[b]
  <1>1. mailbox' = IF from \in DOMAIN mailbox /\ "error" \in Reactions(from)
                   THEN [after EXCEPT ![from] = Append(@, m)] ELSE after
    BY DEF Skip
  <1>2. mailbox[a] # <<>> /\ UNCHANGED <<program, at, store, edges, group, phase, contacts>>
        /\ phase = "running"
    BY DEF Skip
  <1>3. /\ \A b \in DOMAIN mailbox : mailbox[b] \in Seq(WireMessage)
        /\ contacts \in [DOMAIN mailbox -> SUBSET Names]
        /\ mailbox \in [DOMAIN mailbox -> Seq(WireMessage)]
    BY BoxTypes
  <1>4. Message(a) \in WireMessage /\ Tail(mailbox[a]) \in Seq(WireMessage)
    BY <1>2, <1>3 DEF Message
  <1>5. from \in Names
    BY <1>4 DEF WireMessage
  <1>6. m \in WireMessage
    BY <1>5, BoxTypes, MakeMessageType
  <1>7. after \in [DOMAIN mailbox -> Seq(WireMessage)]
        /\ \A b \in DOMAIN mailbox : after[b] = rest(b)
    BY <1>3, <1>4
  <1> HIDE DEF m, from, after, rest
  <1>8. \A b \in DOMAIN mailbox : rest(b) \in Seq(WireMessage) /\ Append(rest(b), m) \in Seq(WireMessage)
    BY <1>6, <1>7
  <1>9. CASE from \in DOMAIN mailbox /\ "error" \in Reactions(from)
    <2>1. mailbox' = [after EXCEPT ![from] = Append(@, m)]
      BY <1>1, <1>9
    <2>2. after[from] \in Seq(WireMessage) /\ Append(after[from], m) \in Seq(WireMessage)
      BY <1>7, <1>8, <1>9
    <2>3. mailbox' \in [DOMAIN mailbox -> Seq(WireMessage)]
      BY <1>7, <1>9, <2>1, <2>2
    <2>4. \A b \in DOMAIN mailbox : mailbox'[b] = rest(b) \/ mailbox'[b] = Append(rest(b), m)
      BY <1>7, <1>9, <2>1
    <2>5. WiringTypeOK'
      BY <1>2, <1>3, <2>3, RunningFacts, TypesQuiet
    <2> QED BY <1>6, <1>8, <2>4, <2>5 DEF rest
  <1>10. CASE ~(from \in DOMAIN mailbox /\ "error" \in Reactions(from))
    <2>1. mailbox' = after
      BY <1>1, <1>10
    <2>2. WiringTypeOK'
      BY <1>2, <1>3, <1>7, <2>1, RunningFacts, TypesQuiet
    <2> QED BY <1>7, <1>8, <2>1, <2>2 DEF rest
  <1> QED BY <1>9, <1>10

\* The turn of a group moves on, nothing else of it changes.
LEMMA GroupSendTypes ==
  ASSUME WiringTypeOK, NEW a \in DOMAIN group, GroupSend(a)
  PROVE  /\ WiringTypeOK' /\ DOMAIN group' = DOMAIN group
         /\ \A g \in DOMAIN group :
              /\ group'[g].entry = group[g].entry /\ group'[g].shared = group[g].shared
              /\ g # a => group'[g].cursor = group[g].cursor
         /\ group'[a].cursor =
              IF group[a].cursor + 1 >= Len(edges[group[a].entry]) THEN 0 ELSE group[a].cursor + 1
         /\ \E as, m : m \in WireMessage /\ mailbox' = Deliver(as, m)
  <1> DEFINE e == group[a].entry
             c == group[a].cursor
             to == CurrentLayer(e)[c + 1]
             c2 == IF c + 1 >= Len(CurrentLayer(e)) THEN 0 ELSE c + 1
             R == [entry : Nat, shared : Seq(Nat), cursor : Nat]
  <1>1. PICK command \in {"work", "other"} : mailbox' = Deliver(<<to>>, MakeMessage(a, command, a))
    BY DEF GroupSend
  <1>2. /\ group' = [group EXCEPT ![a].cursor = c2]
        /\ UNCHANGED <<program, at, store, edges, contacts, phase>> /\ phase = "running"
    BY DEF GroupSend
  <1>3. a \in DOMAIN mailbox
    BY LayerTypes
  <1>4. MakeMessage(a, command, a) \in WireMessage
    BY <1>3, BoxTypes, MakeMessageType
  <1>5. mailbox' \in [DOMAIN mailbox -> Seq(WireMessage)]
    BY <1>1, <1>4, DeliverTypes DEF WiringTypeOK
  <1>6. contacts \in [DOMAIN mailbox -> SUBSET Names]
    BY DEF WiringTypeOK, BoxesOK
  <1>7. group \in [DOMAIN group -> R] /\ \A g \in DOMAIN group : group[g] \in R
    BY DEF WiringTypeOK, GroupsOK
  <1>8. Len(CurrentLayer(e)) = Len(edges[e])
    <2>1. edges[e] \in Seq(Nat) /\ CurrentLayer(e) = [i \in DOMAIN edges[e] |-> store[edges[e][i]]]
      BY LayerTypes DEF FindingAdjacency, CurrentLayer
    <2> QED BY <2>1
  <1>9. c \in Nat /\ c2 \in Nat
    <2>1. c \in Nat
      BY <1>7
    <2> QED BY <2>1
  <1> HIDE DEF c2
  <1>10. /\ DOMAIN group' = DOMAIN group
         /\ \A g \in DOMAIN group : g # a => group'[g] = group[g]
         /\ group'[a] = [group[a] EXCEPT !.cursor = c2]
    BY <1>2, <1>7
  <1>11. /\ group'[a].entry = group[a].entry /\ group'[a].shared = group[a].shared
         /\ group'[a].cursor = c2 /\ group'[a] \in R
    BY <1>7, <1>9, <1>10
  <1>12. group' \in [DOMAIN group' -> R]
    <2>1. \A g \in DOMAIN group' : group'[g] \in R
      BY <1>7, <1>10, <1>11
    <2>2. group' = [g \in DOMAIN group' |-> group'[g]]
      BY <1>2, <1>7
    <2> QED BY <2>1, <2>2
  <1>13. calls' = calls
    BY <1>2 DEF calls
  <1>14. Names' = Names
    BY <1>13 DEF Names
  <1>15. WireMessage' = WireMessage
    BY <1>14 DEF WireMessage
  <1>16. ProgressOK'
    BY <1>2, <1>13 DEF WiringTypeOK, ProgressOK
  <1>17. TableOK'
    BY <1>2, <1>14 DEF WiringTypeOK, TableOK
  <1>18. GroupsOK'
    <2>1. \A g \in DOMAIN group :
            /\ group[g].entry \in 1..Len(store) /\ store[group[g].entry] = g
            /\ \A i \in DOMAIN group[g].shared : group[g].shared[i] \in 1..Len(store)
      BY DEF WiringTypeOK, GroupsOK
    <2>2. \A g \in DOMAIN group : group'[g].entry = group[g].entry /\ group'[g].shared = group[g].shared
      BY <1>10, <1>11
    <2> QED BY <1>2, <1>10, <1>12, <2>1, <2>2 DEF GroupsOK
  <1>19. DOMAIN mailbox' = DOMAIN mailbox
    BY <1>5
  <1>20. BoxesOK'
    <2>1. DOMAIN group \subseteq DOMAIN mailbox
          /\ \A f \in DOMAIN edges : \A i \in DOMAIN edges[f] : store[edges[f][i]] \in DOMAIN mailbox
      BY DEF WiringTypeOK, BoxesOK
    <2> QED BY <1>2, <1>5, <1>6, <1>10, <1>14, <1>15, <1>19, <2>1 DEF BoxesOK
  <1>21. NamesOK'
    BY <1>2, <1>10, <1>13, <1>19 DEF WiringTypeOK, NamesOK
  <1>22. WiringTypeOK'
    BY <1>16, <1>17, <1>18, <1>20, <1>21 DEF WiringTypeOK
  <1>23. \E as, m : m \in WireMessage /\ mailbox' = Deliver(as, m)
    BY <1>1, <1>4
  <1> QED BY <1>8, <1>10, <1>11, <1>22, <1>23 DEF c2

LEMMA GroupBroadcastTypes ==
  ASSUME WiringTypeOK, NEW a \in DOMAIN group, GroupBroadcast(a)
  PROVE  /\ WiringTypeOK' /\ \E as, m : m \in WireMessage /\ mailbox' = Deliver(as, m)
  <1> DEFINE m == MakeMessage(a, "work", a)
  <1>1. /\ mailbox' = Deliver(CurrentLayer(group[a].entry), m)
        /\ UNCHANGED <<program, at, store, edges, group, contacts, phase>> /\ phase = "running"
    BY DEF GroupBroadcast
  <1>2. a \in DOMAIN mailbox
    BY LayerTypes
  <1>3. m \in WireMessage
    BY <1>2, BoxTypes, MakeMessageType
  <1> HIDE DEF m
  <1>4. mailbox' \in [DOMAIN mailbox -> Seq(WireMessage)]
    BY <1>1, <1>3, DeliverTypes DEF WiringTypeOK
  <1>5. contacts \in [DOMAIN mailbox -> SUBSET Names]
    BY DEF WiringTypeOK, BoxesOK
  <1>6. WiringTypeOK'
    BY <1>1, <1>4, <1>5, RunningFacts, TypesQuiet
  <1> QED BY <1>1, <1>3, <1>6

\* The steps that touch neither a mailbox nor a table.
PhaseStep ==
  \/ ConstructorThrows \/ Startup \/ StartupThrows \/ Shutdown
  \/ \E a \in DOMAIN mailbox : LookupThrows(a)

LEMMA PhaseTypes ==
  ASSUME WiringTypeOK, PhaseStep
  PROVE  WiringTypeOK'
  <1>1. /\ UNCHANGED <<program, at, store, edges, group, mailbox, contacts>>
        /\ phase' \in {"running", "down", "terminated"}
    BY DEF PhaseStep, ConstructorThrows, Startup, StartupThrows, Shutdown, LookupThrows, Terminate
  <1>2. mailbox' \in [DOMAIN mailbox -> Seq(WireMessage)] /\ contacts' \in [DOMAIN mailbox -> SUBSET Names]
    BY <1>1 DEF WiringTypeOK, BoxesOK
  <1>3. phase' \in {"running", "down"} => at = Len(calls) + 1
    <2>1. phase' = "running" => ~MoreCalls
      BY DEF PhaseStep, ConstructorThrows, Startup, StartupThrows, Shutdown, LookupThrows, Terminate
    <2>2. phase' = "down" => phase = "running"
      BY DEF PhaseStep, ConstructorThrows, Startup, StartupThrows, Shutdown, LookupThrows, Terminate
    <2>3. at \in 1..(Len(calls) + 1) /\ Len(calls) \in Nat
      BY ScriptFacts DEF WiringTypeOK, ProgressOK
    <2>4. ~MoreCalls => at = Len(calls) + 1
      BY <2>3 DEF MoreCalls, calls
    <2> QED BY <2>1, <2>2, <2>4, RunningFacts
  <1> QED BY <1>1, <1>2, <1>3, TypesQuiet

LEMMA WiringTypeNext == WiringTypeOK /\ [WiringNext]_wiringVars => WiringTypeOK'
  <1> SUFFICES ASSUME WiringTypeOK, [WiringNext]_wiringVars PROVE WiringTypeOK'
    OBVIOUS
  <1>1. CASE CreateEnvironment \/ AddDataProvider
    <2>1. PICK op \in {"environment", "provider"} :
            /\ Call(op) /\ UNCHANGED <<store, edges, group, mailbox, contacts>>
      BY <1>1 DEF CreateEnvironment, AddDataProvider
    <2>2. mailbox' \in [DOMAIN mailbox -> Seq(WireMessage)] /\ contacts' \in [DOMAIN mailbox -> SUBSET Names]
      BY <2>1 DEF WiringTypeOK, BoxesOK
    <2> QED BY <2>1, <2>2, TypesCall DEF Spawns
  <1>2. CASE AddService
    BY <1>2, AddServiceTypes
  <1>3. CASE AddShared
    BY <1>3, AddSharedTypes
  <1>4. CASE Join
    BY <1>4, JoinTypes
  <1>5. CASE Add
    BY <1>5, AddTypes
  <1>6. CASE PhaseStep
    BY <1>6, PhaseTypes
  <1>7. ASSUME NEW a \in DOMAIN mailbox, FromOutside(a) PROVE WiringTypeOK'
    BY <1>7, FromOutsideTypes
  <1>8. ASSUME NEW a \in DOMAIN mailbox, Introduce(a) PROVE WiringTypeOK'
    BY <1>8, IntroduceTypes
  <1>9. ASSUME NEW a \in DOMAIN mailbox, HandleWork(a) PROVE WiringTypeOK'
    BY <1>9, HandleWorkTypes
  <1>10. ASSUME NEW a \in DOMAIN mailbox, Skip(a) PROVE WiringTypeOK'
    BY <1>10, SkipTypes
  <1>11. ASSUME NEW a \in DOMAIN group, GroupSend(a) PROVE WiringTypeOK'
    BY <1>11, GroupSendTypes
  <1>12. ASSUME NEW a \in DOMAIN group, GroupBroadcast(a) PROVE WiringTypeOK'
    BY <1>12, GroupBroadcastTypes
  <1>13. CASE UNCHANGED wiringVars
    <2>1. /\ UNCHANGED <<program, at, store, edges, group, mailbox, contacts, phase>>
      BY <1>13 DEF wiringVars
    <2>2. mailbox' \in [DOMAIN mailbox -> Seq(WireMessage)] /\ contacts' \in [DOMAIN mailbox -> SUBSET Names]
      BY <2>1 DEF WiringTypeOK, BoxesOK
    <2>3. /\ phase' \in {"running", "down"} => at = Len(calls) + 1
          /\ phase' \in {"wiring", "running", "down", "terminated"}
      BY <2>1 DEF WiringTypeOK, ProgressOK
    <2> QED BY <2>1, <2>2, <2>3, TypesQuiet
  <1> QED BY <1>1, <1>2, <1>3, <1>4, <1>5, <1>6, <1>7, <1>8, <1>9, <1>10, <1>11, <1>12, <1>13
          DEF WiringNext, PhaseStep

\* Whatever list of calls init_service is, every id in the table of the program,
\* in a layer and in a group is the id of an actor, layers are sorted and share
\* no actor, and every actor of a group has a mailbox: EntryPoint and
\* CurrentLayer never follow an id that is not there.
THEOREM WiringTypeCorrect == WiringSpec => []WiringTypeOK
  <1>1. WiringInit => WiringTypeOK
    BY WiringInitTypes
  <1>2. WiringTypeOK /\ [WiringNext]_wiringVars => WiringTypeOK'
    BY WiringTypeNext
  <1> QED BY <1>1, <1>2, PTL DEF WiringSpec

----------------------------------------------------------------------------
(* The turns of a group *)

\* How the messages of one group are spread over its layer.
Spread(ids, c, served_, b) ==
  \A i \in DOMAIN ids : served_[ids[i]] = IF i <= c THEN b + 1 ELSE b

\* Nothing has been sent to any group yet.
LEMMA TurnsFresh ==
  ASSUME WiringTypeOK', served' \in Seq(Nat), Len(served') = Len(store'),
         \A i \in DOMAIN served' : served'[i] = 0,
         \A g \in DOMAIN group' : group'[g].cursor = 0
  PROVE  Turns'
  <1>1. ASSUME NEW g \in DOMAIN group', NEW i \in DOMAIN edges'[group'[g].entry]
        PROVE  served'[edges'[group'[g].entry][i]] = IF i <= group'[g].cursor THEN 0 + 1 ELSE 0
    <2> DEFINE e == group'[g].entry
    <2>1. e \in DOMAIN edges' /\ edges' \in Seq(Seq(Nat)) /\ Len(edges') = Len(store')
      BY DEF WiringTypeOK, GroupsOK, TableOK
    <2>2. edges'[e][i] \in 1..Len(store')
      BY <2>1 DEF WiringTypeOK, TableOK
    <2>3. served'[edges'[e][i]] = 0
      BY <2>2
    <2>4. edges'[e] \in Seq(Nat)
      BY <2>1
    <2>5. ~(i <= group'[g].cursor)
      BY <2>4
    <2> QED BY <2>3, <2>5
  <1>2. 0 \in Nat
    OBVIOUS
  <1> QED BY <1>1, <1>2 DEF Turns

\* A step that sends to no group and starts none.
LEMMA TurnsQuiet ==
  ASSUME Turns, UNCHANGED <<store, edges, group, served>>, phase' = "wiring" => phase = "wiring"
  PROVE  Turns'
  <1>1. served' \in Seq(Nat) /\ Len(served') = Len(store')
    BY DEF Turns
  <1>2. phase' = "wiring" =>
          /\ \A i \in DOMAIN served' : served'[i] = 0
          /\ \A g \in DOMAIN group' : group'[g].cursor = 0
    BY DEF Turns
  <1>3. \A g \in DOMAIN group :
          /\ group[g].cursor < Len(edges[group[g].entry]) \/ group[g].cursor = 0
          /\ \E b \in Nat : Spread(edges[group[g].entry], group[g].cursor, served, b)
    BY DEF Turns, Spread
  <1>4. \A g \in DOMAIN group' :
          /\ group'[g].cursor < Len(edges'[group'[g].entry]) \/ group'[g].cursor = 0
          /\ \E b \in Nat : Spread(edges'[group'[g].entry], group'[g].cursor, served', b)
    BY <1>3
  <1> QED BY <1>1, <1>2, <1>4 DEF Turns, Spread

LEMMA TurnsAdd ==
  ASSUME WiringTypeOK, WiringTypeOK', Turns, phase = "wiring", phase' = "wiring",
         NEW n, StorageAdd(n), \A g \in DOMAIN group' : group'[g].cursor = 0
  PROVE  Turns'
  <1>1. /\ served \in Seq(Nat) /\ Len(served) = Len(store) /\ \A i \in DOMAIN served : served[i] = 0
        /\ served' = Append(served, 0) /\ store' = Append(store, n)
    BY DEF Turns, StorageAdd
  <1>2. store \in Seq(Names)
    BY DEF WiringTypeOK, TableOK
  <1>3. Len(store') = Len(store) + 1
    BY <1>1, <1>2
  <1>4. /\ DOMAIN served' = DOMAIN served \cup {Len(served) + 1}
        /\ \A i \in DOMAIN served : served'[i] = served[i]
        /\ served'[Len(served) + 1] = 0
    BY <1>1, AppendGrows
  <1>5. served' \in Seq(Nat) /\ Len(served') = Len(store')
    BY <1>1, <1>3
  <1>6. \A i \in DOMAIN served' : served'[i] = 0
    BY <1>1, <1>4
  <1> QED BY <1>5, <1>6, TurnsFresh

LEMMA TurnsLink ==
  ASSUME WiringTypeOK, WiringTypeOK', Turns, phase = "wiring", phase' = "wiring",
         NEW id, NEW n, AddLink(id, n), \A g \in DOMAIN group' : group'[g].cursor = 0
  PROVE  Turns'
  <1> DEFINE L == Len(store)
             S == ToSet(edges[id]) \cup {L + 1}
  <1>1. /\ served \in Seq(Nat) /\ Len(served) = L /\ \A i \in DOMAIN served : served[i] = 0
        /\ served' = [i \in 1..(L + 1) |-> IF i \in S THEN 0 ELSE served[i]]
        /\ store' = Append(store, n) /\ L + 1 \in S
    BY DEF Turns, AddLink
  <1>2. store \in Seq(Names)
    BY DEF WiringTypeOK, TableOK
  <1>3. Len(store') = L + 1 /\ L \in Nat
    BY <1>1, <1>2
  <1> HIDE DEF L, S
  <1>4. DOMAIN served' = 1..(L + 1) /\ \A i \in 1..(L + 1) : served'[i] = 0
    <2>1. \A i \in 1..(L + 1) : i \in DOMAIN served \/ i = L + 1
      BY <1>1, <1>3
    <2> QED BY <1>1, <2>1
  <1>5. served' \in [1..(L + 1) -> Nat]
    BY <1>1, <1>4
  <1>6. served' \in Seq(Nat) /\ Len(served') = L + 1
    BY <1>3, <1>4, <1>5
  <1> QED BY <1>3, <1>4, <1>6, TurnsFresh

\* Two groups have no actor in common.
LEMMA LayersDiffer ==
  ASSUME WiringTypeOK, NEW g \in DOMAIN group, NEW h \in DOMAIN group, g # h,
         NEW i \in DOMAIN edges[group[g].entry], NEW j \in DOMAIN edges[group[h].entry]
  PROVE  edges[group[g].entry][i] # edges[group[h].entry][j]
  <1>1. group[g].entry # group[h].entry
    BY DEF WiringTypeOK, GroupsOK
  <1>2. group[g].entry \in DOMAIN edges /\ group[h].entry \in DOMAIN edges
    BY LayerTypes
  <1> QED BY <1>1, <1>2 DEF WiringTypeOK, TableOK

\* The facts about one group that the two kinds of messages to it need.
LEMMA GroupTurn ==
  ASSUME WiringTypeOK, Turns, NEW g \in DOMAIN group
  PROVE  /\ edges[group[g].entry] \in Seq(Nat) /\ group[g].cursor \in Nat
         /\ \A i \in DOMAIN edges[group[g].entry] : edges[group[g].entry][i] \in DOMAIN served
         /\ \A i, j \in DOMAIN edges[group[g].entry] :
              i # j => edges[group[g].entry][i] # edges[group[g].entry][j]
         /\ group[g].cursor < Len(edges[group[g].entry]) \/ group[g].cursor = 0
         /\ \E b \in Nat : Spread(edges[group[g].entry], group[g].cursor, served, b)
  <1> DEFINE e == group[g].entry
             ids == edges[e]
  <1>1. ids \in Seq(Nat) /\ e \in DOMAIN edges
    BY LayerTypes DEF FindingAdjacency
  <1>2. group[g].cursor \in Nat
    BY DEF WiringTypeOK, GroupsOK
  <1>3. served \in Seq(Nat) /\ Len(served) = Len(store)
    BY DEF Turns
  <1>4. \A i \in DOMAIN ids :
          /\ ids[i] \in 1..Len(store)
          /\ \A j \in DOMAIN ids : i < j => ids[i] < ids[j]
    BY <1>1 DEF WiringTypeOK, TableOK
  <1>5. \A i \in DOMAIN ids : ids[i] \in DOMAIN served
    BY <1>3, <1>4
  <1>6. \A i, j \in DOMAIN ids : i # j => ids[i] # ids[j]
    BY <1>1, <1>4
  <1>7. group[g].cursor < Len(ids) \/ group[g].cursor = 0
    BY DEF Turns
  <1>8. \E b \in Nat : Spread(ids, group[g].cursor, served, b)
    BY DEF Turns, Spread
  <1> QED BY <1>1, <1>2, <1>5, <1>6, <1>7, <1>8

LEMMA TurnsSend ==
  ASSUME WiringTypeOK, Turns, NEW a \in DOMAIN group, GroupSend(a)
  PROVE  Turns'
  <1> DEFINE ids == edges[group[a].entry]
             c == group[a].cursor
             x == ids[c + 1]
  <1>1. /\ served' = [served EXCEPT ![x] = @ + 1]
        /\ UNCHANGED <<store, edges>> /\ phase' = "running"
        /\ CurrentLayer(group[a].entry) # <<>>
    BY DEF GroupSend, FindingAdjacency
  <1>2. /\ DOMAIN group' = DOMAIN group
        /\ \A g \in DOMAIN group :
             group'[g].entry = group[g].entry /\ (g # a => group'[g].cursor = group[g].cursor)
        /\ group'[a].cursor = IF c + 1 >= Len(ids) THEN 0 ELSE c + 1
    BY GroupSendTypes
  <1>3. /\ ids \in Seq(Nat) /\ c \in Nat
        /\ \A i \in DOMAIN ids : ids[i] \in DOMAIN served
        /\ \A i, j \in DOMAIN ids : i # j => ids[i] # ids[j]
        /\ c < Len(ids) \/ c = 0
    BY GroupTurn
  <1>4. PICK b \in Nat : Spread(ids, c, served, b)
    BY GroupTurn
  <1>5. Len(ids) > 0
    <2>1. CurrentLayer(group[a].entry) = [i \in DOMAIN ids |-> store[ids[i]]]
      BY DEF CurrentLayer, FindingAdjacency
    <2>2. Len(ids) = 0 => DOMAIN ids = {}
      BY <1>3
    <2>3. Len(ids) = 0 => CurrentLayer(group[a].entry) = <<>>
      BY <2>1, <2>2
    <2> QED BY <1>1, <1>3, <2>3
  <1>6. served \in Seq(Nat) /\ Len(served) = Len(store)
    BY DEF Turns
  <1> HIDE DEF ids, c
  <1>7. c + 1 \in DOMAIN ids /\ c < Len(ids)
    BY <1>3, <1>5
  <1>8. x \in DOMAIN served
    BY <1>3, <1>7
  <1> HIDE DEF x
  <1>9. /\ served' \in Seq(Nat) /\ Len(served') = Len(store')
        /\ \A k \in DOMAIN served : k # x => served'[k] = served[k]
        /\ served'[x] = served[x] + 1
    BY <1>1, <1>6, <1>8
  <1>10. ASSUME NEW i \in DOMAIN ids
         PROVE  served'[ids[i]] = IF i <= c + 1 THEN b + 1 ELSE b
    <2>1. served[ids[i]] = IF i <= c THEN b + 1 ELSE b
      BY <1>4 DEF Spread
    <2>2. i \in Nat
      BY <1>3
    <2>3. CASE i = c + 1
      <3>1. ids[i] = x /\ served[x] = b
        BY <1>3, <2>1, <2>3 DEF x
      <3>2. served'[ids[i]] = b + 1
        BY <1>9, <3>1
      <3> QED BY <1>3, <2>3, <3>2
    <2>4. CASE i # c + 1
      <3>1. ids[i] # x /\ ids[i] \in DOMAIN served
        BY <1>3, <1>7, <2>4 DEF x
      <3>2. served'[ids[i]] = served[ids[i]]
        BY <1>9, <3>1
      <3>3. i <= c <=> i <= c + 1
        BY <1>3, <2>2, <2>4
      <3> QED BY <2>1, <3>2, <3>3
    <2> QED BY <2>3, <2>4
  <1>11. /\ group'[a].cursor < Len(ids) \/ group'[a].cursor = 0
         /\ \E d \in Nat : Spread(ids, group'[a].cursor, served', d)
    <2>1. CASE c + 1 >= Len(ids)
      <3>1. group'[a].cursor = 0
        BY <1>2, <2>1 DEF c, ids
      <3>2. \A i \in DOMAIN ids : i <= c + 1 /\ ~(i <= 0)
        BY <1>3, <1>7, <2>1
      <3>3. \A i \in DOMAIN ids : served'[ids[i]] = b + 1
        BY <1>10, <3>2
      <3>4. Spread(ids, 0, served', b + 1) /\ b + 1 \in Nat
        BY <1>4, <3>2, <3>3 DEF Spread
      <3> QED BY <3>1, <3>4
    <2>2. CASE ~(c + 1 >= Len(ids))
      <3>1. group'[a].cursor = c + 1 /\ c + 1 < Len(ids)
        BY <1>2, <1>3, <2>2 DEF c, ids
      <3>2. Spread(ids, c + 1, served', b)
        BY <1>10 DEF Spread
      <3> QED BY <1>4, <3>1, <3>2
    <2> QED BY <2>1, <2>2
  <1>12. ASSUME NEW g \in DOMAIN group, g # a
         PROVE  /\ group'[g].cursor < Len(edges[group[g].entry]) \/ group'[g].cursor = 0
                /\ \E d \in Nat : Spread(edges[group[g].entry], group'[g].cursor, served', d)
    <2> DEFINE js == edges[group[g].entry]
    <2>1. group'[g].cursor = group[g].cursor
      BY <1>2, <1>12
    <2>2. /\ \A i \in DOMAIN js : js[i] \in DOMAIN served
          /\ group[g].cursor < Len(js) \/ group[g].cursor = 0
          /\ \E d \in Nat : Spread(js, group[g].cursor, served, d)
      BY GroupTurn
    <2>3. \A i \in DOMAIN js : js[i] # x
      BY <1>7, <1>12, LayersDiffer DEF x, ids
    <2> HIDE DEF js
    <2>4. \A i \in DOMAIN js : served'[js[i]] = served[js[i]]
      BY <1>9, <2>2, <2>3
    <2>5. \A d : Spread(js, group[g].cursor, served, d) => Spread(js, group[g].cursor, served', d)
      BY <2>4 DEF Spread
    <2>6. /\ group[g].cursor < Len(js) \/ group[g].cursor = 0
          /\ \E d \in Nat : Spread(js, group[g].cursor, served', d)
      BY <2>2, <2>5
    <2> QED BY <2>1, <2>6 DEF js
  <1>13. \A g \in DOMAIN group' :
           /\ group'[g].cursor < Len(edges'[group'[g].entry]) \/ group'[g].cursor = 0
           /\ \E d \in Nat : Spread(edges'[group'[g].entry], group'[g].cursor, served', d)
    BY <1>1, <1>2, <1>11, <1>12 DEF ids
  <1> QED BY <1>1, <1>9, <1>13 DEF Turns, Spread

LEMMA TurnsBroadcast ==
  ASSUME WiringTypeOK, Turns, NEW a \in DOMAIN group, GroupBroadcast(a)
  PROVE  Turns'
  <1> DEFINE all == ToSet(edges[group[a].entry])
  <1>1. /\ served' = [i \in DOMAIN served |-> IF i \in all THEN served[i] + 1 ELSE served[i]]
        /\ UNCHANGED <<store, edges, group>> /\ phase' = "running"
    BY DEF GroupBroadcast, FindingAdjacency
  <1>2. served \in Seq(Nat) /\ Len(served) = Len(store)
    BY DEF Turns
  <1>3. \A k : k \in all <=> \E i \in DOMAIN edges[group[a].entry] : edges[group[a].entry][i] = k
    BY DEF ToSet
  <1> HIDE DEF all
  <1>4. served' \in Seq(Nat) /\ Len(served') = Len(store')
    <2>1. served' \in [1..Len(served) -> Nat] /\ Len(served) \in Nat
      BY <1>1, <1>2
    <2> QED BY <1>1, <1>2, <2>1
  <1>5. ASSUME NEW g \in DOMAIN group
        PROVE  /\ group[g].cursor < Len(edges[group[g].entry]) \/ group[g].cursor = 0
               /\ \E d \in Nat : Spread(edges[group[g].entry], group[g].cursor, served', d)
    <2> DEFINE js == edges[group[g].entry]
               c == group[g].cursor
    <2>1. /\ \A i \in DOMAIN js : js[i] \in DOMAIN served
          /\ c < Len(js) \/ c = 0
      BY GroupTurn
    <2>2. PICK b \in Nat : Spread(js, c, served, b)
      BY GroupTurn
    <2>3. CASE g = a
      <3>1. \A i \in DOMAIN js : served'[js[i]] = served[js[i]] + 1
        BY <1>1, <1>3, <2>1, <2>3
      <3> HIDE DEF js, c
      <3>2. Spread(js, c, served', b + 1)
        BY <2>2, <3>1 DEF Spread
      <3>3. b + 1 \in Nat
        BY <2>2
      <3> QED BY <2>1, <3>2, <3>3 DEF js, c
    <2>4. CASE g # a
      <3>1. \A i \in DOMAIN js : js[i] \notin all
        BY <1>3, <2>4, LayersDiffer
      <3>2. \A i \in DOMAIN js : served'[js[i]] = served[js[i]]
        BY <1>1, <2>1, <3>1
      <3> HIDE DEF js, c
      <3>3. Spread(js, c, served', b)
        BY <2>2, <3>2 DEF Spread
      <3> QED BY <2>1, <2>2, <3>3 DEF js, c
    <2> QED BY <2>3, <2>4
  <1>6. \A g \in DOMAIN group' :
          /\ group'[g].cursor < Len(edges'[group'[g].entry]) \/ group'[g].cursor = 0
          /\ \E d \in Nat : Spread(edges'[group'[g].entry], group'[g].cursor, served', d)
    BY <1>1, <1>5
  <1>7. phase' # "wiring"
    BY <1>1
  <1> QED BY <1>4, <1>6, <1>7 DEF Turns, Spread

LEMMA TurnsNext == WiringTypeOK /\ Turns /\ [WiringNext]_wiringVars => Turns'
  <1> SUFFICES ASSUME WiringTypeOK, Turns, [WiringNext]_wiringVars PROVE Turns'
    OBVIOUS
  <1>0. WiringTypeOK'
    BY WiringTypeNext
  <1>1. CASE CreateEnvironment \/ AddDataProvider \/ Join
    <2>1. UNCHANGED <<store, edges, group, served, phase>>
      BY <1>1 DEF CreateEnvironment, AddDataProvider, Join, Call
    <2> QED BY <2>1, TurnsQuiet
  <1>2. CASE AddService
    <2>1. StorageAdd(TheCall.name) /\ phase = "wiring" /\ phase' = "wiring"
      BY <1>2 DEF AddService, Call
    <2>2. \A g \in DOMAIN group' : group'[g].cursor = 0
      <3>1. \A g \in DOMAIN group : group[g].cursor = 0
        BY <2>1 DEF Turns
      <3>2. NewGroup(Len(store) + 1).cursor = 0
        BY DEF NewGroup
      <3> QED BY <1>2, <3>1, <3>2, AddServiceTypes
    <2> QED BY <1>0, <2>1, <2>2, TurnsAdd
  <1>3. CASE AddShared
    <2>1. StorageAdd(TheCall.name) /\ phase = "wiring" /\ phase' = "wiring"
      BY <1>3 DEF AddShared, Call
    <2>2. \A g \in DOMAIN group' : group'[g].cursor = 0
      <3>1. \A g \in DOMAIN group : group[g].cursor = 0
        BY <2>1 DEF Turns
      <3> QED BY <1>3, <3>1, AddSharedTypes
    <2> QED BY <1>0, <2>1, <2>2, TurnsAdd
  <1>4. CASE Add
    <2>1. /\ AddLink(group[TheCall.group].entry, TheCall.name)
          /\ phase = "wiring" /\ phase' = "wiring" /\ group' = group
      BY <1>4 DEF Add, Call
    <2>2. \A g \in DOMAIN group' : group'[g].cursor = 0
      BY <2>1 DEF Turns
    <2> QED BY <1>0, <2>1, <2>2, TurnsLink
  <1>5. CASE PhaseStep
    <2>1. UNCHANGED <<store, edges, group, served>> /\ phase' # "wiring"
      BY <1>5 DEF PhaseStep, ConstructorThrows, Startup, StartupThrows, Shutdown,
         LookupThrows, Terminate
    <2> QED BY <2>1, TurnsQuiet
  <1>6. ASSUME NEW a \in DOMAIN mailbox, FromOutside(a) \/ Introduce(a) \/ HandleWork(a) \/ Skip(a)
        PROVE  Turns'
    <2>1. UNCHANGED <<store, edges, group, served, phase>>
      BY <1>6 DEF FromOutside, Introduce, HandleWork, Skip
    <2> QED BY <2>1, TurnsQuiet
  <1>7. ASSUME NEW a \in DOMAIN group, GroupSend(a) PROVE Turns'
    BY <1>7, TurnsSend
  <1>8. ASSUME NEW a \in DOMAIN group, GroupBroadcast(a) PROVE Turns'
    BY <1>8, TurnsBroadcast
  <1>9. CASE UNCHANGED wiringVars
    <2>1. UNCHANGED <<store, edges, group, served, phase>>
      BY <1>9 DEF wiringVars
    <2> QED BY <2>1, TurnsQuiet
  <1> QED BY <1>1, <1>2, <1>3, <1>4, <1>5, <1>6, <1>7, <1>8, <1>9 DEF WiringNext, PhaseStep

LEMMA TurnsInit == WiringInit => Turns
  <1> SUFFICES ASSUME WiringInit PROVE Turns
    OBVIOUS
  <1>1. store = <<>> /\ group = <<>> /\ served = <<>>
    BY DEF WiringInit
  <1>2. <<>> \in Seq(Nat) /\ DOMAIN <<>> = {} /\ Len(<<>>) = 0
    OBVIOUS
  <1> QED BY <1>1, <1>2 DEF Turns

LEMMA TurnsImplyEven == WiringTypeOK /\ Turns => TurnsAreEven
  <1> SUFFICES ASSUME WiringTypeOK, Turns, NEW g \in DOMAIN group,
                      NEW i \in ToSet(FindingAdjacency(group[g].entry)),
                      NEW j \in ToSet(FindingAdjacency(group[g].entry))
               PROVE  served[i] <= served[j] + 1
    BY DEF TurnsAreEven
  <1> DEFINE ids == edges[group[g].entry]
  <1>1. PICK b \in Nat : Spread(ids, group[g].cursor, served, b)
    BY GroupTurn
  <1>2. PICK k \in DOMAIN ids : ids[k] = i
    BY DEF ToSet, FindingAdjacency
  <1>3. PICK l \in DOMAIN ids : ids[l] = j
    BY DEF ToSet, FindingAdjacency
  <1>4. served[i] \in {b, b + 1} /\ served[j] \in {b, b + 1}
    BY <1>1, <1>2, <1>3 DEF Spread
  <1> QED BY <1>1, <1>4

\* abstract_group::send passes the turn on and broadcast serves all: whatever a
\* program does, no actor of a layer gets two messages more than another one.
THEOREM GroupsServeEvenly == WiringSpec => []TurnsAreEven
  <1>1. WiringInit => WiringTypeOK /\ Turns
    BY WiringInitTypes, TurnsInit
  <1>2. WiringTypeOK /\ Turns /\ [WiringNext]_wiringVars => (WiringTypeOK /\ Turns)'
    BY WiringTypeNext, TurnsNext
  <1>3. WiringTypeOK /\ Turns => TurnsAreEven
    BY TurnsImplyEven
  <1> QED BY <1>1, <1>2, <1>3, PTL DEF WiringSpec

----------------------------------------------------------------------------
(* What an actor is told stays told *)

LEMMA TellsAppend ==
  ASSUME NEW box \in Seq(WireMessage), NEW m \in WireMessage, NEW n, Tells(box, n)
  PROVE  Tells(Append(box, m), n)
  <1>1. PICK i \in DOMAIN box :
          /\ box[i].command = "sync_contacts" /\ box[i].body = n
          /\ \A j \in 1..i : box[j].command \in Standard
    BY DEF Tells
  <1>2. i \in DOMAIN Append(box, m) /\ \A j \in 1..i : j \in DOMAIN box /\ Append(box, m)[j] = box[j]
    OBVIOUS
  <1>3. Append(box, m)[i] = box[i]
    OBVIOUS
  <1> QED BY <1>1, <1>2, <1>3 DEF Tells

\* A name told to an actor that has had nothing but introductions.
LEMMA TellsLast ==
  ASSUME NEW box \in Seq(WireMessage), NEW m \in WireMessage,
         \A i \in DOMAIN box : box[i].command \in Standard, m.command = "sync_contacts"
  PROVE  /\ Tells(Append(box, m), m.body)
         /\ \A i \in DOMAIN Append(box, m) : Append(box, m)[i].command \in Standard
  <1> DEFINE k == Len(box) + 1
  <1>1. /\ DOMAIN Append(box, m) = DOMAIN box \cup {k}
        /\ \A i \in DOMAIN box : Append(box, m)[i] = box[i]
        /\ Append(box, m)[k] = m
    BY AppendGrows
  <1>2. 1..k = DOMAIN box \cup {k}
    OBVIOUS
  <1> HIDE DEF k
  <1>3. \A i \in DOMAIN Append(box, m) : Append(box, m)[i].command \in Standard
    BY <1>1 DEF Standard
  <1>4. k \in DOMAIN Append(box, m) /\ \A j \in 1..k : Append(box, m)[j].command \in Standard
    BY <1>1, <1>2, <1>3
  <1> QED BY <1>1, <1>3, <1>4 DEF Tells

\* Whoever handles anything else has handled the introductions before it.
LEMMA TellsNothing ==
  ASSUME NEW box \in Seq(WireMessage), box # <<>>, Head(box).command \notin Standard, NEW n
  PROVE  ~Tells(box, n)
  <1> SUFFICES ASSUME Tells(box, n) PROVE FALSE
    OBVIOUS
  <1>1. PICK i \in DOMAIN box : \A j \in 1..i : box[j].command \in Standard
    BY DEF Tells
  <1>2. 1 \in 1..i /\ Head(box) = box[1]
    OBVIOUS
  <1> QED BY <1>1, <1>2

\* Handling the first messages moves what they tell into the contacts.
LEMMA TellsRest ==
  ASSUME NEW box \in Seq(WireMessage), NEW k \in 1..Len(box), NEW n, Tells(box, n)
  PROVE  \/ \E i \in 1..k : box[i].command = "sync_contacts" /\ box[i].body = n
         \/ Tells(SubSeq(box, k + 1, Len(box)), n)
  <1>1. PICK i \in DOMAIN box :
          /\ box[i].command = "sync_contacts" /\ box[i].body = n
          /\ \A j \in 1..i : box[j].command \in Standard
    BY DEF Tells
  <1>2. CASE i <= k
    <2>1. i \in 1..k
      BY <1>2
    <2> QED BY <1>1, <2>1
  <1>3. CASE ~(i <= k)
    <2> DEFINE rest == SubSeq(box, k + 1, Len(box))
    <2>1. Len(rest) = Len(box) - k /\ DOMAIN rest = 1..(Len(box) - k)
      OBVIOUS
    <2>2. \A j \in 1..(Len(box) - k) : rest[j] = box[k + j]
      OBVIOUS
    <2> HIDE DEF rest
    <2>3. i - k \in DOMAIN rest /\ k + (i - k) = i
      BY <1>3, <2>1
    <2>4. rest[i - k] = box[i]
      BY <2>1, <2>2, <2>3
    <2>5. \A j \in 1..(i - k) : rest[j].command \in Standard
      <3>1. \A j \in 1..(i - k) : j \in DOMAIN rest /\ k + j \in 1..i
        BY <1>3, <2>1
      <3> QED BY <1>1, <2>1, <2>2, <3>1
    <2> QED BY <1>1, <2>3, <2>4, <2>5 DEF Tells, rest
  <1> QED BY <1>2, <1>3

AwareKept == \A a \in DOMAIN mailbox : \A n : Aware(a, n) => Aware(a, n)'

LEMMA AwareDeliver ==
  ASSUME WiringTypeOK, NEW as, NEW m \in WireMessage,
         mailbox' = Deliver(as, m), contacts' = contacts
  PROVE  AwareKept
  <1> SUFFICES ASSUME NEW a \in DOMAIN mailbox, NEW n, Aware(a, n) PROVE Aware(a, n)'
    BY DEF AwareKept
  <1>1. mailbox[a] \in Seq(WireMessage)
    BY BoxTypes
  <1>2. mailbox'[a] = mailbox[a] \/ mailbox'[a] = Append(mailbox[a], m)
    BY DeliverTypes DEF WiringTypeOK
  <1>3. Tells(mailbox[a], n) => Tells(mailbox'[a], n)
    BY <1>1, <1>2, TellsAppend
  <1> QED BY <1>3 DEF Aware

LEMMA AwareIntroduce ==
  ASSUME WiringTypeOK, NEW a \in DOMAIN mailbox, Introduce(a)
  PROVE  AwareKept
  <1> SUFFICES ASSUME NEW b \in DOMAIN mailbox, NEW n, Aware(b, n) PROVE Aware(b, n)'
    BY DEF AwareKept
  <1>1. PICK k \in 1..Len(mailbox[a]) :
          /\ contacts' = [contacts EXCEPT ![a] = @ \cup HeadBodies(a, k, "sync_contacts")]
          /\ mailbox' = [mailbox EXCEPT ![a] = SubSeq(@, k + 1, Len(@))]
    BY IntroduceTypes
  <1>2. /\ mailbox[a] \in Seq(WireMessage) /\ DOMAIN contacts = DOMAIN mailbox
    BY BoxTypes
  <1>3. CASE b # a
    <2>1. contacts'[b] = contacts[b] /\ mailbox'[b] = mailbox[b]
      BY <1>1, <1>2, <1>3
    <2> QED BY <2>1 DEF Aware
  <1>4. CASE b = a
    <2>1. /\ contacts'[a] = contacts[a] \cup HeadBodies(a, k, "sync_contacts")
          /\ mailbox'[a] = SubSeq(mailbox[a], k + 1, Len(mailbox[a]))
      BY <1>1, <1>2
    <2>2. CASE n \in contacts[a]
      BY <1>4, <2>1, <2>2 DEF Aware
    <2>3. CASE Tells(mailbox[a], n)
      <3>1. \/ \E i \in 1..k : mailbox[a][i].command = "sync_contacts" /\ mailbox[a][i].body = n
            \/ Tells(mailbox'[a], n)
        BY <1>2, <2>1, <2>3, TellsRest
      <3>2. (\E i \in 1..k : mailbox[a][i].command = "sync_contacts" /\ mailbox[a][i].body = n)
            => n \in HeadBodies(a, k, "sync_contacts")
        BY DEF HeadBodies
      <3> QED BY <1>4, <2>1, <3>1, <3>2 DEF Aware
    <2> QED BY <1>4, <2>2, <2>3 DEF Aware
  <1> QED BY <1>3, <1>4

\* A message that is not an introduction is taken out.
LEMMA AwareHandle ==
  ASSUME WiringTypeOK, NEW a \in DOMAIN mailbox, mailbox[a] # <<>>,
         Message(a).command \notin Standard, contacts' = contacts,
         \A b \in DOMAIN mailbox :
           LET rest == IF b = a THEN Tail(mailbox[b]) ELSE mailbox[b]
           IN  /\ rest \in Seq(WireMessage)
               /\ \/ mailbox'[b] = rest
                  \/ \E m \in WireMessage : mailbox'[b] = Append(rest, m)
  PROVE  AwareKept
  <1> SUFFICES ASSUME NEW b \in DOMAIN mailbox, NEW n, Aware(b, n) PROVE Aware(b, n)'
    BY DEF AwareKept
  <1>1. CASE b = a
    <2>1. mailbox[a] \in Seq(WireMessage)
      BY BoxTypes
    <2>2. ~Tells(mailbox[a], n)
      BY <2>1, TellsNothing DEF Message
    <2> QED BY <1>1, <2>2 DEF Aware
  <1>2. CASE b # a
    <2>1. mailbox[b] \in Seq(WireMessage)
      BY BoxTypes
    <2>2. mailbox'[b] = mailbox[b] \/ \E m \in WireMessage : mailbox'[b] = Append(mailbox[b], m)
      BY <1>2
    <2>3. Tells(mailbox[b], n) => Tells(mailbox'[b], n)
      BY <2>1, <2>2, TellsAppend
    <2> QED BY <2>3 DEF Aware
  <1> QED BY <1>1, <1>2

\* reactions::execute gives the standard messages to their own handlers.
LEMMA HandlerKinds ==
  ASSUME NEW a, NEW c \in {"sync_contacts", "add_channel", "work", "other", "error"},
         Handler(a, c) \in {"work", "skip"}
  PROVE  c \notin Standard
  <1> SUFFICES ASSUME c \in Standard PROVE FALSE
    OBVIOUS
  <1>1. c \in Reactions(a) /\ c # "error"
    BY DEF Standard, Reactions
  <1>2. Handler(a, c) = c
    BY <1>1 DEF Handler
  <1> QED BY <1>2 DEF Standard

----------------------------------------------------------------------------
(* What the calls of init_service tell *)

LEMMA MembersTypes ==
  ASSUME WiringTypeOK, NEW g \in DOMAIN group, NEW m \in Members(g)
  PROVE  m \in 1..Len(store) /\ store[m] \in DOMAIN mailbox
  <1>1. group[g].entry \in 1..Len(store) /\ store[group[g].entry] = g /\ g \in DOMAIN mailbox
    BY DEF WiringTypeOK, GroupsOK, BoxesOK
  <1>2. \A i \in DOMAIN edges[group[g].entry] :
          edges[group[g].entry][i] \in 1..Len(store) /\ store[edges[group[g].entry][i]] \in DOMAIN mailbox
    BY LayerTypes DEF FindingAdjacency
  <1> QED BY <1>1, <1>2 DEF Members, ToSet

\* The group of a call that has been made, and its actor, are there.
LEMMA DoneTypes ==
  ASSUME WiringTypeOK, NEW i \in 1..(at - 1)
  PROVE  /\ i \in DOMAIN calls
         /\ calls[i].op \in {"shared", "join", "add"} => calls[i].group \in DOMAIN group
  <1>1. i \in DOMAIN calls /\ WellFormed(calls) /\ at \in Nat
    BY ScriptFacts DEF WiringTypeOK
  <1>2. calls[i].op \in {"shared", "join", "add"} =>
          \E j \in 1..(i - 1) : calls[j].op = "service" /\ calls[j].name = calls[i].group
    BY <1>1 DEF WellFormed, HasGroup
  <1>3. \A j \in 1..(i - 1) : j \in 1..(at - 1)
    BY <1>1
  <1> QED BY <1>1, <1>2, <1>3 DEF WiringTypeOK, NamesOK

LEMMA DoneActor ==
  ASSUME WiringTypeOK, CallsDone, NEW j \in 1..(at - 1), calls[j].op = "add"
  PROVE  calls[j].name \in DOMAIN mailbox
  <1>1. calls[j].group \in DOMAIN group
    BY DoneTypes
  <1>2. PICK m \in Members(calls[j].group) : store[m] = calls[j].name
    BY DEF CallsDone
  <1> QED BY <1>1, <1>2, MembersTypes

\* The steps in which no lookup throws.
LEMMA FoundKept ==
  ASSUME AnnouncedIsFound, UNCHANGED <<program, failed>>
  PROVE  AnnouncedIsFound'
  BY DEF AnnouncedIsFound

\* A step of the running program.
LEMMA IntroducedKept ==
  ASSUME WiringTypeOK, Introduced, AwareKept, AnnouncedIsFound',
         UNCHANGED <<program, at, store, edges>>,
         phase' = "wiring" => phase = "wiring" /\ mailbox' = mailbox,
         DOMAIN group' = DOMAIN group,
         \A g \in DOMAIN group : group'[g].entry = group[g].entry /\ group'[g].shared = group[g].shared
  PROVE  Introduced'
  <1>1. calls' = calls
    BY DEF calls
  <1>2. \A g \in DOMAIN group : Members(g)' = Members(g)
    BY DEF Members
  <1>3. OnlyIntroductions'
    BY DEF Introduced, OnlyIntroductions
  <1>4. SharedKnown'
    <2> SUFFICES ASSUME NEW g \in DOMAIN group, NEW m \in Members(g), NEW i \in DOMAIN group[g].shared
                 PROVE  Aware(store[m], store[group[g].shared[i]])'
      BY <1>2 DEF SharedKnown
    <2>1. Aware(store[m], store[group[g].shared[i]])
      BY DEF Introduced, SharedKnown
    <2>2. store[m] \in DOMAIN mailbox
      BY MembersTypes
    <2>3. Aware(store[m], store[group[g].shared[i]]) => \A x, y : x = store[m] /\ y = store[group[g].shared[i]] => Aware(x, y)'
      BY <2>2 DEF AwareKept
    <2>4. store' = store /\ group'[g].shared = group[g].shared
      OBVIOUS
    <2> QED BY <2>1, <2>3, <2>4 DEF Aware
  <1>5. CallsDone'
    <2>1. ASSUME NEW i \in 1..(at - 1), calls[i].op = "add"
          PROVE  \E m \in Members(calls[i].group)' : store[m] = calls[i].name
      <3>1. calls[i].group \in DOMAIN group
        BY <2>1, DoneTypes
      <3>2. Members(calls[i].group)' = Members(calls[i].group)
        BY <1>1, <3>1 DEF Members
      <3> QED BY <2>1, <3>2 DEF Introduced, CallsDone
    <2>2. ASSUME NEW i \in 1..(at - 1), calls[i].op = "shared"
          PROVE  \E k \in DOMAIN group'[calls[i].group].shared :
                   store[group'[calls[i].group].shared[k]] = calls[i].name
      <3>1. calls[i].group \in DOMAIN group
        BY <2>2, DoneTypes
      <3> QED BY <2>2, <3>1 DEF Introduced, CallsDone
    <2> QED BY <1>1, <2>1, <2>2 DEF CallsDone
  <1>6. CallsTold'
    <2>1. ASSUME NEW i \in 1..(at - 1), calls[i].op \in {"shared", "join"}
          PROVE  /\ Aware(calls[i].group, calls[i].name)'
                 /\ \A j \in 1..(at - 1) :
                      /\ calls[j].op = "add" /\ calls[j].group = calls[i].group
                      /\ calls[i].op = "join" => j < i
                      => Aware(calls[j].name, calls[i].name)'
      <3>1. calls[i].group \in DOMAIN mailbox
        BY <2>1, DoneTypes DEF WiringTypeOK, BoxesOK
      <3>2. Aware(calls[i].group, calls[i].name)'
        <4>1. Aware(calls[i].group, calls[i].name)
          BY <2>1 DEF Introduced, CallsTold
        <4>2. \A x, y : x = calls[i].group /\ y = calls[i].name => Aware(x, y)'
          BY <3>1, <4>1 DEF AwareKept
        <4> QED BY <1>1, <4>2 DEF Aware
      <3>3. ASSUME NEW j \in 1..(at - 1), calls[j].op = "add", calls[j].group = calls[i].group,
                   calls[i].op = "join" => j < i
            PROVE  Aware(calls[j].name, calls[i].name)'
        <4>1. Aware(calls[j].name, calls[i].name)
          BY <2>1, <3>3 DEF Introduced, CallsTold
        <4>2. calls[j].name \in DOMAIN mailbox
          BY <3>3, DoneActor DEF Introduced
        <4>3. \A x, y : x = calls[j].name /\ y = calls[i].name => Aware(x, y)'
          BY <4>1, <4>2 DEF AwareKept
        <4> QED BY <1>1, <4>3 DEF Aware
      <3> QED BY <3>2, <3>3
    <2> QED BY <1>1, <2>1 DEF CallsTold
  <1> QED BY <1>3, <1>4, <1>5, <1>6 DEF Introduced

\* Aware(a, n)' for an actor and a name of the state before the step.
AwareNext(a, n) == n \in contacts'[a] \/ Tells(mailbox'[a], n)

\* The actors of the group after the step.
MembersNext(g) == {group'[g].entry} \cup ToSet(edges'[group'[g].entry])

\* The tables only grow.
TablesGrow ==
  /\ \A i \in 1..Len(store) : store'[i] = store[i]
  /\ \A g \in DOMAIN group :
       /\ Members(g) \subseteq MembersNext(g)
       /\ \A k \in DOMAIN group[g].shared :
            k \in DOMAIN group'[g].shared /\ group'[g].shared[k] = group[g].shared[k]

\* One more call: what the earlier ones have left and told is still there.
LEMMA CallsKept ==
  ASSUME WiringTypeOK, Introduced, AwareKept, TablesGrow, NEW op, Call(op),
         op = "add" => \E m \in MembersNext(TheCall.group) : store'[m] = TheCall.name,
         op = "shared" => \E k \in DOMAIN group'[TheCall.group].shared :
                            store'[group'[TheCall.group].shared[k]] = TheCall.name,
         op \in {"shared", "join"} =>
           \A m \in Members(TheCall.group) : AwareNext(store[m], TheCall.name),
         op = "add" =>
           \A k \in DOMAIN group[TheCall.group].shared :
             AwareNext(TheCall.name, store[group[TheCall.group].shared[k]])
  PROVE  CallsDone' /\ CallsTold'
  <1> DEFINE c == calls[at]
             B == 1..(at - 1)
  <1>1. /\ at \in DOMAIN calls /\ calls[at].op = op /\ TheCall = calls[at]
        /\ calls' = calls /\ 1..(at' - 1) = B \cup {at}
    BY CallFacts DEF WiringTypeOK
  <1>2. at \in Nat /\ Len(store) \in Nat
    BY ScriptFacts DEF WiringTypeOK, TableOK
  <1>3. ASSUME NEW i \in B, calls[i].op = "add"
        PROVE  \E m \in MembersNext(calls[i].group) : store'[m] = calls[i].name
    <2>1. calls[i].group \in DOMAIN group
      BY <1>3, DoneTypes
    <2>2. PICK m \in Members(calls[i].group) : store[m] = calls[i].name
      BY <1>3 DEF Introduced, CallsDone
    <2>3. m \in 1..Len(store)
      BY <2>1, <2>2, MembersTypes
    <2> QED BY <2>1, <2>2, <2>3 DEF TablesGrow
  <1>4. ASSUME NEW i \in B, calls[i].op = "shared"
        PROVE  \E k \in DOMAIN group'[calls[i].group].shared :
                 store'[group'[calls[i].group].shared[k]] = calls[i].name
    <2>1. calls[i].group \in DOMAIN group
      BY <1>4, DoneTypes
    <2>2. PICK k \in DOMAIN group[calls[i].group].shared :
            store[group[calls[i].group].shared[k]] = calls[i].name
      BY <1>4 DEF Introduced, CallsDone
    <2>3. group[calls[i].group].shared[k] \in 1..Len(store)
      BY <2>1 DEF WiringTypeOK, GroupsOK
    <2> QED BY <2>1, <2>2, <2>3 DEF TablesGrow
  <1>5. CallsDone'
    <2>1. \A i \in B \cup {at} : calls[i].op = "add" =>
            \E m \in MembersNext(calls[i].group) : store'[m] = calls[i].name
      BY <1>1, <1>3
    <2>2. \A i \in B \cup {at} : calls[i].op = "shared" =>
            \E k \in DOMAIN group'[calls[i].group].shared :
              store'[group'[calls[i].group].shared[k]] = calls[i].name
      BY <1>1, <1>4
    <2> QED BY <1>1, <2>1, <2>2 DEF CallsDone, Members, MembersNext
  <1>6. ASSUME NEW i \in B, calls[i].op \in {"shared", "join"}
        PROVE  AwareNext(calls[i].group, calls[i].name)
    <2>1. calls[i].group \in DOMAIN mailbox
      BY <1>6, DoneTypes DEF WiringTypeOK, BoxesOK
    <2>2. Aware(calls[i].group, calls[i].name)
      BY <1>6 DEF Introduced, CallsTold
    <2> QED BY <2>1, <2>2 DEF AwareKept, Aware, AwareNext
  <1>7. ASSUME NEW i \in B, calls[i].op \in {"shared", "join"},
               NEW j \in B, calls[j].op = "add", calls[j].group = calls[i].group,
               calls[i].op = "join" => j < i
        PROVE  AwareNext(calls[j].name, calls[i].name)
    <2>1. calls[j].name \in DOMAIN mailbox
      BY <1>7, DoneActor DEF Introduced
    <2>2. Aware(calls[j].name, calls[i].name)
      BY <1>7 DEF Introduced, CallsTold
    <2> QED BY <2>1, <2>2 DEF AwareKept, Aware, AwareNext
  <1>8. ASSUME op \in {"shared", "join"}
        PROVE  /\ AwareNext(c.group, c.name)
               /\ \A j \in B : calls[j].op = "add" /\ calls[j].group = c.group
                               => AwareNext(calls[j].name, c.name)
    <2>1. c.group \in DOMAIN group
      BY <1>1, <1>8, CallGroup DEF WiringTypeOK
    <2>2. group[c.group].entry \in Members(c.group) /\ store[group[c.group].entry] = c.group
      BY <2>1 DEF Members, WiringTypeOK, GroupsOK
    <2>3. \A m \in Members(c.group) : AwareNext(store[m], c.name)
      BY <1>1, <1>8
    <2>4. AwareNext(c.group, c.name)
      BY <2>2, <2>3
    <2> QED BY <2>3, <2>4 DEF Introduced, CallsDone
  <1>9. ASSUME op = "add", NEW i \in B, calls[i].op = "shared", calls[i].group = c.group
        PROVE  AwareNext(c.name, calls[i].name)
    <2>1. PICK k \in DOMAIN group[c.group].shared : store[group[c.group].shared[k]] = calls[i].name
      BY <1>9 DEF Introduced, CallsDone
    <2> QED BY <1>1, <1>9, <2>1
  <1>10. \A i \in B \cup {at} : calls[i].op \in {"shared", "join"} =>
           /\ AwareNext(calls[i].group, calls[i].name)
           /\ \A j \in B \cup {at} :
                /\ calls[j].op = "add" /\ calls[j].group = calls[i].group
                /\ calls[i].op = "join" => j < i
                => AwareNext(calls[j].name, calls[i].name)
    <2> SUFFICES ASSUME NEW i \in B \cup {at}, calls[i].op \in {"shared", "join"}
                 PROVE  /\ AwareNext(calls[i].group, calls[i].name)
                        /\ \A j \in B \cup {at} :
                             /\ calls[j].op = "add" /\ calls[j].group = calls[i].group
                             /\ calls[i].op = "join" => j < i
                             => AwareNext(calls[j].name, calls[i].name)
      OBVIOUS
    <2>1. CASE i = at
      BY <1>1, <1>8, <2>1
    <2>2. CASE i \in B
      <3>1. ~(at < i)
        BY <1>2, <2>2
      <3> QED BY <1>1, <1>6, <1>7, <1>9, <2>2, <3>1
    <2> QED BY <2>1, <2>2
  <1>11. CallsTold'
    BY <1>1, <1>10 DEF CallsTold, Aware, AwareNext
  <1> QED BY <1>5, <1>11

\* A name told to all actors of a group while nobody reads yet.
LEMMA DeliverTells ==
  ASSUME WiringTypeOK, OnlyIntroductions, phase = "wiring",
         NEW t \in DOMAIN group, NEW m \in WireMessage, m.command = "sync_contacts",
         mailbox' = Deliver(<<EntryPoint(t)>> \o CurrentLayer(group[t].entry), m),
         contacts' = contacts
  PROVE  /\ AwareKept /\ OnlyIntroductions'
         /\ \A k \in Members(t) : AwareNext(store[k], m.body)
  <1> DEFINE e == group[t].entry
             ids == edges[e]
             to == <<EntryPoint(t)>> \o CurrentLayer(e)
  <1>1. AwareKept
    BY AwareDeliver
  <1>2. /\ DOMAIN mailbox' = DOMAIN mailbox
        /\ \A a \in DOMAIN mailbox :
             mailbox'[a] = IF a \in ToSet(to) THEN Append(mailbox[a], m) ELSE mailbox[a]
    BY DeliverTypes DEF WiringTypeOK
  <1>3. \A a \in DOMAIN mailbox :
          /\ mailbox[a] \in Seq(WireMessage)
          /\ \A i \in DOMAIN mailbox[a] : mailbox[a][i].command \in Standard
    BY BoxTypes DEF OnlyIntroductions
  <1>4. \A a \in DOMAIN mailbox :
          /\ Tells(Append(mailbox[a], m), m.body)
          /\ \A i \in DOMAIN Append(mailbox[a], m) : Append(mailbox[a], m)[i].command \in Standard
    BY <1>3, TellsLast
  <1>5. OnlyIntroductions'
    <2>1. \A a \in DOMAIN mailbox : \A i \in DOMAIN mailbox'[a] : mailbox'[a][i].command \in Standard
      BY <1>2, <1>3, <1>4
    <2> QED BY <1>2, <2>1 DEF OnlyIntroductions
  <1>6. /\ EntryPoint(t) = t /\ store[e] = t
        /\ ids \in Seq(Nat) /\ CurrentLayer(e) = [i \in DOMAIN ids |-> store[ids[i]]]
        /\ \A i \in DOMAIN ids : ids[i] \in 1..Len(store)
    BY LayerTypes DEF FindingAdjacency, CurrentLayer, EntryPoint
  <1>7. ASSUME NEW k \in Members(t) PROVE store[k] \in ToSet(to)
    <2>1. CurrentLayer(e) \in Seq(Names \cup {t}) /\ Len(CurrentLayer(e)) = Len(ids)
      <3>1. store \in Seq(Names)
        BY DEF WiringTypeOK, TableOK
      <3>2. \A i \in DOMAIN ids : store[ids[i]] \in Names
        BY <1>6, <3>1
      <3> HIDE DEF ids
      <3> QED BY <1>6, <3>2
    <2>2. <<EntryPoint(t)>> \in Seq(Names \cup {t})
      BY <1>6
    <2> DEFINE cl == CurrentLayer(e)
    <2>3. /\ 1 \in DOMAIN to /\ to[1] = EntryPoint(t)
          /\ \A i \in DOMAIN cl : i + 1 \in DOMAIN to /\ to[i + 1] = cl[i]
      BY <2>1, <2>2
    <2>4. k = e \/ \E i \in DOMAIN ids : ids[i] = k
      BY DEF Members, ToSet
    <2>5. \A i \in DOMAIN ids : i \in DOMAIN cl /\ cl[i] = store[ids[i]]
      BY <1>6
    <2> HIDE DEF to, cl, ids, e
    <2>6. \E i \in DOMAIN to : to[i] = store[k]
      BY <1>6, <2>3, <2>4, <2>5
    <2> QED BY <2>6 DEF ToSet
  <1>8. \A k \in Members(t) : AwareNext(store[k], m.body)
    <2>1. \A k \in Members(t) : store[k] \in DOMAIN mailbox
      BY MembersTypes
    <2> QED BY <1>2, <1>4, <1>7, <2>1 DEF AwareNext
  <1> QED BY <1>1, <1>5, <1>8

\* A new actor: nothing of the others changes.
LEMMA SpawnTells ==
  ASSUME WiringTypeOK, OnlyIntroductions, phase = "wiring", NEW n, n \notin DOMAIN mailbox,
         NEW box \in Seq(WireMessage), Spawn(n, box),
         \A i \in DOMAIN box : box[i].command \in Standard
  PROVE  AwareKept /\ OnlyIntroductions'
  <1>1. /\ DOMAIN mailbox' = DOMAIN mailbox \cup {n} /\ mailbox'[n] = box
        /\ \A a \in DOMAIN mailbox : mailbox'[a] = mailbox[a] /\ contacts'[a] = contacts[a]
    BY SpawnTypes DEF WiringTypeOK
  <1>2. AwareKept
    BY <1>1 DEF AwareKept, Aware
  <1>3. \A a \in DOMAIN mailbox : \A i \in DOMAIN mailbox[a] : mailbox[a][i].command \in Standard
    BY DEF OnlyIntroductions
  <1>4. \A a \in DOMAIN mailbox' : \A i \in DOMAIN mailbox'[a] : mailbox'[a][i].command \in Standard
    BY <1>1, <1>3
  <1> QED BY <1>2, <1>4 DEF OnlyIntroductions

\* What the earlier groups share is still known to the actors they had.
LEMMA SharedStays ==
  ASSUME WiringTypeOK, SharedKnown, AwareKept, TablesGrow,
         NEW g \in DOMAIN group, NEW m \in Members(g), NEW k \in DOMAIN group[g].shared
  PROVE  AwareNext(store'[m], store'[group'[g].shared[k]])
  <1>1. m \in 1..Len(store) /\ store[m] \in DOMAIN mailbox
    BY MembersTypes
  <1>2. group[g].shared[k] \in 1..Len(store)
    BY DEF WiringTypeOK, GroupsOK
  <1>3. store'[m] = store[m] /\ store'[group'[g].shared[k]] = store[group[g].shared[k]]
    BY <1>1, <1>2 DEF TablesGrow
  <1>4. Aware(store[m], store[group[g].shared[k]])
    BY DEF SharedKnown
  <1>5. AwareNext(store[m], store[group[g].shared[k]])
    BY <1>1, <1>4 DEF AwareKept, Aware, AwareNext
  <1> QED BY <1>3, <1>5

LEMMA SharedNext ==
  ASSUME \A g \in DOMAIN group' : \A m \in MembersNext(g) : \A k \in DOMAIN group'[g].shared :
           AwareNext(store'[m], store'[group'[g].shared[k]])
  PROVE  SharedKnown'
  BY DEF SharedKnown, Aware, AwareNext, Members, MembersNext

LEMMA IntroducedService ==
  ASSUME WiringTypeOK, Introduced, AddService
  PROVE  Introduced'
  <1> DEFINE n == TheCall.name
             L == Len(store)
             box == <<MakeMessage(n, "add_channel", n)>>
  <1>1. /\ Call("service") /\ Spawn(n, box) /\ StorageAdd(n)
    BY DEF AddService
  <1>2. /\ at \in DOMAIN calls /\ calls[at].op = "service" /\ TheCall = calls[at]
        /\ Names' = Names /\ phase = "wiring"
    BY <1>1, CallFacts DEF WiringTypeOK
  <1>3. n \notin DOMAIN mailbox /\ n \in Names
    BY <1>2, CallSpawn DEF WiringTypeOK, Spawns
  <1>4. /\ WiringTypeOK' /\ group'[n] = NewGroup(L + 1)
        /\ \A g \in DOMAIN group : g # n /\ group'[g] = group[g]
        /\ DOMAIN group' = DOMAIN group \cup {n}
    BY AddServiceTypes
  <1> HIDE DEF n
  <1>5. /\ \A i \in 1..L : store'[i] = store[i] /\ edges'[i] = edges[i]
    BY <1>1, <1>2, <1>3, TableAdd DEF WiringTypeOK
  <1>6. \A g \in DOMAIN group : MembersNext(g) = Members(g)
    <2>1. \A g \in DOMAIN group : group[g].entry \in 1..L
      BY DEF WiringTypeOK, GroupsOK
    <2> QED BY <1>4, <1>5, <2>1 DEF Members, MembersNext
  <1>7. TablesGrow
    BY <1>4, <1>5, <1>6 DEF TablesGrow
  <1>8. box \in Seq(WireMessage) /\ \A i \in DOMAIN box : box[i].command \in Standard
    <2> DEFINE m == MakeMessage(n, "add_channel", n)
    <2>1. m \in WireMessage /\ m.command = "add_channel"
      BY <1>3, MakeMessageType
    <2> HIDE DEF m
    <2>2. <<m>> \in Seq(WireMessage) /\ \A i \in DOMAIN <<m>> : <<m>>[i] = m
      BY <2>1
    <2> QED BY <2>1, <2>2 DEF m, Standard
  <1> HIDE DEF box
  <1>9. AwareKept /\ OnlyIntroductions'
    BY <1>1, <1>2, <1>3, <1>8, SpawnTells DEF Introduced
  <1>10. SharedKnown'
    <2>1. ASSUME NEW g \in DOMAIN group', NEW m \in MembersNext(g), NEW k \in DOMAIN group'[g].shared
          PROVE  AwareNext(store'[m], store'[group'[g].shared[k]])
      <3>1. group'[n].shared = <<>>
        BY <1>4 DEF NewGroup
      <3>2. g # n
        BY <3>1
      <3>3. g \in DOMAIN group /\ m \in Members(g) /\ k \in DOMAIN group[g].shared
        BY <1>4, <1>6, <3>2
      <3> QED BY <1>7, <1>9, <3>3, SharedStays DEF Introduced
    <2> QED BY <2>1, SharedNext
  <1>11. CallsDone' /\ CallsTold'
    BY <1>1, <1>7, <1>9, CallsKept
  <1>12. AnnouncedIsFound'
    BY <1>1, FoundKept DEF Call, Introduced
  <1> QED BY <1>9, <1>10, <1>11, <1>12 DEF Introduced

LEMMA IntroducedShared ==
  ASSUME WiringTypeOK, Introduced, AddShared
  PROVE  Introduced'
  <1> DEFINE n == TheCall.name
             t == TheCall.group
             L == Len(store)
             sh == group[t].shared
             m == MakeMessage(n, "sync_contacts", n)
  <1>1. /\ Call("shared") /\ StorageAdd(n) /\ contacts' = contacts
        /\ mailbox' = Deliver(<<EntryPoint(t)>> \o CurrentLayer(group[t].entry), m)
    BY DEF AddShared
  <1>2. Names' = Names /\ phase = "wiring"
    BY <1>1, CallFacts DEF WiringTypeOK
  <1>3. /\ t \in DOMAIN group /\ n \in Names /\ DOMAIN group' = DOMAIN group
        /\ \A g \in DOMAIN group : g # t => group'[g] = group[g]
        /\ group'[t].shared = Append(sh, L + 1)
        /\ group'[t].entry = group[t].entry
    BY AddSharedTypes
  <1>4. m \in WireMessage /\ m.command = "sync_contacts" /\ m.body = n
    BY <1>3, MakeMessageType
  <1> HIDE DEF n, t, m
  <1>5. /\ AwareKept /\ OnlyIntroductions'
        /\ \A x \in Members(t) : AwareNext(store[x], n)
    BY <1>1, <1>2, <1>3, <1>4, DeliverTells DEF Introduced
  <1>6. /\ \A i \in 1..L : store'[i] = store[i] /\ edges'[i] = edges[i]
        /\ store'[L + 1] = n /\ L \in Nat
    BY <1>1, <1>2, <1>3, TableAdd DEF WiringTypeOK
  <1>7. \A g \in DOMAIN group : MembersNext(g) = Members(g)
    <2>1. \A g \in DOMAIN group : group[g].entry \in 1..L /\ group'[g].entry = group[g].entry
      BY <1>3 DEF WiringTypeOK, GroupsOK
    <2> QED BY <1>6, <2>1 DEF Members, MembersNext
  <1>8. sh \in Seq(Nat)
    BY <1>3 DEF WiringTypeOK, GroupsOK
  <1>9. /\ DOMAIN group'[t].shared = DOMAIN sh \cup {Len(sh) + 1}
        /\ \A k \in DOMAIN sh : group'[t].shared[k] = sh[k]
        /\ group'[t].shared[Len(sh) + 1] = L + 1
    <2> HIDE DEF sh
    <2> QED BY <1>3, <1>6, <1>8, AppendGrows
  <1>10. TablesGrow
    <2>1. ASSUME NEW g \in DOMAIN group, NEW k \in DOMAIN group[g].shared
          PROVE  k \in DOMAIN group'[g].shared /\ group'[g].shared[k] = group[g].shared[k]
      <3>1. CASE g = t
        BY <1>9, <3>1
      <3>2. CASE g # t
        BY <1>3, <3>2
      <3> QED BY <3>1, <3>2
    <2> QED BY <1>6, <1>7, <2>1 DEF TablesGrow
  <1>11. SharedKnown'
    <2>1. ASSUME NEW g \in DOMAIN group', NEW x \in MembersNext(g), NEW k \in DOMAIN group'[g].shared
          PROVE  AwareNext(store'[x], store'[group'[g].shared[k]])
      <3>1. g \in DOMAIN group /\ x \in Members(g)
        BY <1>3, <1>7
      <3>2. CASE k \in DOMAIN group[g].shared
        BY <1>5, <1>10, <3>1, <3>2, SharedStays DEF Introduced
      <3>3. CASE k \notin DOMAIN group[g].shared
        <4>1. g = t /\ k = Len(sh) + 1
          BY <1>3, <1>9, <3>1, <3>3
        <4>2. group'[g].shared[k] = L + 1
          BY <1>9, <4>1
        <4>3. x \in 1..L
          BY <3>1, MembersTypes
        <4>4. store'[x] = store[x] /\ store'[group'[g].shared[k]] = n
          BY <1>6, <4>2, <4>3
        <4> QED BY <1>5, <3>1, <4>1, <4>4
      <3> QED BY <3>2, <3>3
    <2> QED BY <2>1, SharedNext
  <1>12. \E k \in DOMAIN group'[t].shared : store'[group'[t].shared[k]] = n
    BY <1>6, <1>9
  <1>13. CallsDone' /\ CallsTold'
    BY <1>1, <1>5, <1>10, <1>12, CallsKept DEF n, t
  <1>14. AnnouncedIsFound'
    BY <1>1, FoundKept DEF Call, Introduced
  <1> QED BY <1>5, <1>11, <1>13, <1>14 DEF Introduced

LEMMA IntroducedJoin ==
  ASSUME WiringTypeOK, Introduced, Join
  PROVE  Introduced'
  <1> DEFINE h == TheCall.name
             t == TheCall.group
             m == MakeMessage(EntryPoint(h), "sync_contacts", EntryPoint(h))
  <1>1. /\ Call("join") /\ mailbox' = Deliver(<<EntryPoint(t)>> \o CurrentLayer(group[t].entry), m)
        /\ UNCHANGED <<store, edges, group, contacts>>
    BY DEF Join
  <1>2. at \in DOMAIN calls /\ calls[at].op = "join" /\ TheCall = calls[at] /\ phase = "wiring"
    BY <1>1, CallFacts DEF WiringTypeOK
  <1>3. t \in DOMAIN group /\ h \in DOMAIN group /\ h \in Names
    BY <1>2, CallGroup DEF WiringTypeOK
  <1> HIDE DEF h, t
  <1>4. EntryPoint(h) = h
    BY <1>3, LayerTypes
  <1>5. m \in WireMessage /\ m.command = "sync_contacts" /\ m.body = h
    BY <1>3, <1>4, MakeMessageType
  <1> HIDE DEF m
  <1>6. /\ AwareKept /\ OnlyIntroductions'
        /\ \A x \in Members(t) : AwareNext(store[x], h)
    BY <1>1, <1>2, <1>3, <1>5, DeliverTells DEF Introduced
  <1>7. TablesGrow /\ \A g : MembersNext(g) = Members(g)
    BY <1>1 DEF TablesGrow, Members, MembersNext
  <1>8. SharedKnown'
    <2>1. ASSUME NEW g \in DOMAIN group', NEW x \in MembersNext(g), NEW k \in DOMAIN group'[g].shared
          PROVE  AwareNext(store'[x], store'[group'[g].shared[k]])
      BY <1>1, <1>6, <1>7, SharedStays DEF Introduced
    <2> QED BY <2>1, SharedNext
  <1>9. CallsDone' /\ CallsTold'
    BY <1>1, <1>6, <1>7, CallsKept DEF h, t
  <1>10. AnnouncedIsFound'
    BY <1>1, FoundKept DEF Call, Introduced
  <1> QED BY <1>6, <1>8, <1>9, <1>10 DEF Introduced

LEMMA IntroducedAdd ==
  ASSUME WiringTypeOK, Introduced, Add
  PROVE  Introduced'
  <1> DEFINE n == TheCall.name
             t == TheCall.group
             L == Len(store)
             e == group[t].entry
             box == Welcome(t, n)
  <1>1. /\ Call("add") /\ AddLink(e, n) /\ group' = group
    BY DEF Add
  <1>2. /\ t \in DOMAIN group /\ n \in Names /\ n \notin DOMAIN mailbox /\ Spawn(n, box)
        /\ e \in DOMAIN edges
    BY AddTypes
  <1>3. Names' = Names /\ phase = "wiring"
    BY <1>1, CallFacts DEF WiringTypeOK
  <1> HIDE DEF n, t
  <1>4. /\ L \in Nat
        /\ \A i \in 1..L : store'[i] = store[i]
        /\ store'[L + 1] = n
        /\ \A i \in 1..L : i # e => edges'[i] = edges[i]
        /\ edges'[e] = Append(edges[e], L + 1) /\ edges[e] \in Seq(Nat)
    BY <1>1, <1>2, <1>3, TableLink DEF WiringTypeOK
  <1>5. /\ box \in Seq(WireMessage) /\ DOMAIN box = DOMAIN group[t].shared
        /\ \A k \in DOMAIN group[t].shared :
             box[k].command = "sync_contacts" /\ box[k].body = store[group[t].shared[k]]
    BY <1>2, WelcomeType
  <1> HIDE DEF box
  <1>6. \A i \in DOMAIN box : box[i].command \in Standard
    BY <1>5 DEF Standard
  <1>7. AwareKept /\ OnlyIntroductions'
    BY <1>2, <1>3, <1>5, <1>6, SpawnTells DEF Introduced
  <1>8. \A k \in DOMAIN group[t].shared : AwareNext(n, store[group[t].shared[k]])
    <2>1. mailbox'[n] = box
      BY <1>2, <1>5, SpawnTypes DEF WiringTypeOK
    <2>2. \A k \in DOMAIN box : \A j \in 1..k : j \in DOMAIN box
      BY <1>5
    <2>3. \A k \in DOMAIN group[t].shared : Tells(box, store[group[t].shared[k]])
      BY <1>5, <1>6, <2>2 DEF Tells
    <2> QED BY <2>1, <2>3 DEF AwareNext
  <1>9. MembersNext(t) = Members(t) \cup {L + 1}
    <2> DEFINE ids == edges[e]
    <2>1. ids \in Seq(Nat) /\ L + 1 \in Nat /\ edges'[e] = Append(ids, L + 1)
      BY <1>4
    <2> HIDE DEF ids
    <2>2. /\ DOMAIN Append(ids, L + 1) = DOMAIN ids \cup {Len(ids) + 1}
          /\ \A j \in DOMAIN ids : Append(ids, L + 1)[j] = ids[j]
          /\ Append(ids, L + 1)[Len(ids) + 1] = L + 1
      BY <2>1, AppendGrows
    <2>3. ToSet(edges'[e]) = ToSet(ids) \cup {L + 1}
      BY <2>1, <2>2 DEF ToSet
    <2> QED BY <1>1, <2>3 DEF Members, MembersNext, ids
  <1>10. \A g \in DOMAIN group : g # t => MembersNext(g) = Members(g)
    <2>1. \A g \in DOMAIN group : g # t => group[g].entry # e /\ group[g].entry \in 1..L
      BY <1>2 DEF WiringTypeOK, GroupsOK
    <2> QED BY <1>1, <1>4, <2>1 DEF Members, MembersNext
  <1> HIDE DEF e
  <1>11. TablesGrow
    BY <1>1, <1>4, <1>9, <1>10 DEF TablesGrow
  <1>12. SharedKnown'
    <2>1. ASSUME NEW g \in DOMAIN group', NEW x \in MembersNext(g), NEW k \in DOMAIN group'[g].shared
          PROVE  AwareNext(store'[x], store'[group'[g].shared[k]])
      <3>1. g \in DOMAIN group /\ k \in DOMAIN group[g].shared /\ group'[g].shared = group[g].shared
        BY <1>1
      <3>2. CASE x \in Members(g)
        BY <1>7, <1>11, <3>1, <3>2, SharedStays DEF Introduced
      <3>3. CASE x \notin Members(g)
        <4>1. g = t /\ x = L + 1
          BY <1>9, <1>10, <3>1, <3>3
        <4>2. group[g].shared[k] \in 1..L
          BY <3>1 DEF WiringTypeOK, GroupsOK
        <4>3. store'[x] = n /\ store'[group'[g].shared[k]] = store[group[g].shared[k]]
          BY <1>4, <3>1, <4>1, <4>2
        <4> QED BY <1>8, <3>1, <4>1, <4>3
      <3> QED BY <3>2, <3>3
    <2> QED BY <2>1, SharedNext
  <1>13. \E x \in MembersNext(t) : store'[x] = n
    BY <1>4, <1>9
  <1>14. CallsDone' /\ CallsTold'
    BY <1>1, <1>7, <1>8, <1>11, <1>13, CallsKept DEF n, t
  <1>15. AnnouncedIsFound'
    BY <1>1, FoundKept DEF Call, Introduced
  <1> QED BY <1>7, <1>12, <1>14, <1>15 DEF Introduced

\* When the workers run, every actor is aware of every name announced to it.
LEMMA AllAware ==
  ASSUME WiringTypeOK, Introduced, phase = "running", NEW a, NEW n, Announces(calls, a, n)
  PROVE  Aware(a, n)
  <1>1. at = Len(calls) + 1
    BY RunningFacts
  <1>2. Len(calls) \in Nat /\ DOMAIN calls = 1..Len(calls)
    BY ScriptFacts DEF WiringTypeOK
  <1>3. 1..(at - 1) = DOMAIN calls
    BY <1>1, <1>2
  <1>4. PICK i \in DOMAIN calls :
          /\ calls[i].op \in {"shared", "join"} /\ calls[i].name = n
          /\ \/ calls[i].group = a
             \/ \E j \in DOMAIN calls :
                  /\ calls[j].op = "add" /\ calls[j].name = a
                  /\ calls[j].group = calls[i].group
                  /\ calls[i].op = "join" => j < i
    BY DEF Announces
  <1> QED BY <1>3, <1>4 DEF Introduced, CallsTold

\* A handler that runs has the introductions behind it.
LEMMA WorkFinds ==
  ASSUME WiringTypeOK, Introduced, phase = "running",
         NEW a \in DOMAIN mailbox, mailbox[a] # <<>>, Handler(a, Message(a).command) = "work"
  PROVE  /\ Message(a).command \notin Standard
         /\ \A n : Announces(calls, a, n) => Lookup(a, n)
  <1>1. mailbox[a] \in Seq(WireMessage)
    BY BoxTypes
  <1>2. Message(a) \in WireMessage
    BY <1>1 DEF Message
  <1>3. Message(a).command \notin Standard
    <2>1. Message(a).command \in {"sync_contacts", "add_channel", "work", "other", "error"}
      BY <1>2 DEF WireMessage
    <2> QED BY <2>1, HandlerKinds
  <1>4. ASSUME NEW n, Announces(calls, a, n)
        PROVE  Lookup(a, n)
    <2>1. Aware(a, n)
      BY <1>4, AllAware
    <2>2. ~Tells(mailbox[a], n)
      BY <1>1, <1>3, TellsNothing DEF Message
    <2> QED BY <2>1, <2>2 DEF Aware, Lookup
  <1> QED BY <1>3, <1>4

LEMMA IntroducedWork ==
  ASSUME WiringTypeOK, Introduced, NEW a \in DOMAIN mailbox, HandleWork(a)
  PROVE  Introduced'
  <1>1. /\ phase = "running" /\ mailbox[a] # <<>> /\ Handler(a, Message(a).command) = "work"
        /\ UNCHANGED <<program, at, store, edges, group, phase, contacts, failed>>
    BY DEF HandleWork
  <1>2. Message(a).command \notin Standard
    BY <1>1, WorkFinds
  <1>3. AwareKept
    BY <1>1, <1>2, HandleWorkTypes, AwareHandle
  <1>4. AnnouncedIsFound'
    BY <1>1, FoundKept DEF Introduced
  <1> QED BY <1>1, <1>3, <1>4, IntroducedKept

\* So what it does not find has not been announced.
LEMMA IntroducedThrow ==
  ASSUME WiringTypeOK, Introduced, NEW a \in DOMAIN mailbox, LookupThrows(a)
  PROVE  Introduced'
  <1>1. /\ phase = "running" /\ mailbox[a] # <<>> /\ Handler(a, Message(a).command) = "work"
        /\ UNCHANGED <<program, at, store, edges, group, mailbox, contacts>>
        /\ phase' = "terminated"
    BY DEF LookupThrows, Terminate
  <1>2. PICK n : ~Lookup(a, n) /\ failed' = failed \cup {<<a, n>>}
    BY DEF LookupThrows
  <1>3. AnnouncedIsFound'
    <2> SUFFICES ASSUME NEW f \in failed'
                 PROVE  ~Announces(calls, f[1], f[2])
      BY <1>1 DEF AnnouncedIsFound, calls
    <2>1. CASE f \in failed
      BY <2>1 DEF Introduced, AnnouncedIsFound, calls
    <2>2. CASE f = <<a, n>>
      BY <1>1, <1>2, <2>2, WorkFinds
    <2> QED BY <1>2, <2>1, <2>2
  <1>4. AwareKept
    BY <1>1 DEF AwareKept, Aware
  <1> QED BY <1>1, <1>3, <1>4, IntroducedKept

LEMMA IntroducedSkip ==
  ASSUME WiringTypeOK, Introduced, NEW a \in DOMAIN mailbox, Skip(a)
  PROVE  Introduced'
  <1>1. /\ phase = "running" /\ mailbox[a] # <<>> /\ Handler(a, Message(a).command) = "skip"
        /\ UNCHANGED <<program, at, store, edges, group, phase, contacts, failed>>
    BY DEF Skip
  <1>2. mailbox[a] \in Seq(WireMessage)
    BY BoxTypes
  <1>3. Message(a) \in WireMessage
    BY <1>1, <1>2 DEF Message
  <1>4. Message(a).command \notin Standard
    <2>1. Message(a).command \in {"sync_contacts", "add_channel", "work", "other", "error"}
      BY <1>3 DEF WireMessage
    <2> QED BY <1>1, <2>1, HandlerKinds
  <1>5. AwareKept
    BY <1>1, <1>4, SkipTypes, AwareHandle
  <1>6. AnnouncedIsFound'
    BY <1>1, FoundKept DEF Introduced
  <1> QED BY <1>1, <1>5, <1>6, IntroducedKept

LEMMA IntroducedNext == WiringTypeOK /\ Introduced /\ [WiringNext]_wiringVars => Introduced'
  <1> SUFFICES ASSUME WiringTypeOK, Introduced, [WiringNext]_wiringVars PROVE Introduced'
    OBVIOUS
  <1>0. AnnouncedIsFound
    BY DEF Introduced
  <1>1. CASE CreateEnvironment \/ AddDataProvider
    <2>1. PICK op \in {"environment", "provider"} :
            Call(op) /\ UNCHANGED <<store, edges, group, mailbox, contacts>>
      BY <1>1 DEF CreateEnvironment, AddDataProvider
    <2>2. AwareKept
      BY <2>1 DEF AwareKept, Aware
    <2>3. TablesGrow
      BY <2>1 DEF TablesGrow, Members, MembersNext
    <2>4. CallsDone' /\ CallsTold'
      BY <2>1, <2>2, <2>3, CallsKept
    <2>5. OnlyIntroductions' /\ SharedKnown'
      BY <2>1 DEF Introduced, OnlyIntroductions, SharedKnown, Aware, Members, Call
    <2>6. AnnouncedIsFound'
      BY <2>1, FoundKept DEF Introduced, Call
    <2> QED BY <2>4, <2>5, <2>6 DEF Introduced
  <1>2. CASE AddService
    BY <1>2, IntroducedService
  <1>3. CASE AddShared
    BY <1>3, IntroducedShared
  <1>4. CASE Join
    BY <1>4, IntroducedJoin
  <1>5. CASE Add
    BY <1>5, IntroducedAdd
  <1>6. CASE ConstructorThrows \/ Startup \/ StartupThrows \/ Shutdown
    <2>1. /\ UNCHANGED <<program, at, store, edges, group, mailbox, contacts, failed>>
          /\ phase' # "wiring"
      BY <1>6 DEF ConstructorThrows, Startup, StartupThrows, Shutdown, Terminate
    <2>2. AwareKept
      BY <2>1 DEF AwareKept, Aware
    <2> QED BY <1>0, <2>1, <2>2, FoundKept, IntroducedKept
  <1>7. ASSUME NEW a \in DOMAIN mailbox, FromOutside(a) PROVE Introduced'
    <2>1. PICK command \in {"work", "other"} :
            mailbox' = Deliver(<<a>>, MakeMessage("provider", command, a))
      BY <1>7 DEF FromOutside
    <2>2. MakeMessage("provider", command, a) \in WireMessage
      BY BoxTypes, MakeMessageType
    <2>3. /\ UNCHANGED <<program, at, store, edges, group, contacts, failed>> /\ phase' = "running"
      BY <1>7 DEF FromOutside
    <2>4. AwareKept
      BY <2>1, <2>2, <2>3, AwareDeliver
    <2> QED BY <1>0, <2>3, <2>4, FoundKept, IntroducedKept
  <1>8. ASSUME NEW a \in DOMAIN mailbox, Introduce(a) PROVE Introduced'
    <2>1. /\ UNCHANGED <<program, at, store, edges, group, failed>> /\ phase' = "running"
      BY <1>8 DEF Introduce
    <2>2. AwareKept
      BY <1>8, AwareIntroduce
    <2> QED BY <1>0, <2>1, <2>2, FoundKept, IntroducedKept
  <1>9. ASSUME NEW a \in DOMAIN mailbox, HandleWork(a) \/ LookupThrows(a) PROVE Introduced'
    BY <1>9, IntroducedWork, IntroducedThrow
  <1>10. ASSUME NEW a \in DOMAIN mailbox, Skip(a) PROVE Introduced'
    BY <1>10, IntroducedSkip
  <1>11. ASSUME NEW a \in DOMAIN group, GroupSend(a) PROVE Introduced'
    <2>1. /\ UNCHANGED <<program, at, store, edges, contacts, failed>> /\ phase' = "running"
      BY <1>11 DEF GroupSend
    <2>2. PICK as, m : m \in WireMessage /\ mailbox' = Deliver(as, m)
      BY <1>11, GroupSendTypes
    <2>3. AwareKept
      BY <2>1, <2>2, AwareDeliver
    <2>4. /\ DOMAIN group' = DOMAIN group
          /\ \A g \in DOMAIN group :
               group'[g].entry = group[g].entry /\ group'[g].shared = group[g].shared
      BY <1>11, GroupSendTypes
    <2> QED BY <1>0, <2>1, <2>3, <2>4, FoundKept, IntroducedKept
  <1>12. ASSUME NEW a \in DOMAIN group, GroupBroadcast(a) PROVE Introduced'
    <2>1. /\ UNCHANGED <<program, at, store, edges, group, contacts, failed>> /\ phase' = "running"
      BY <1>12 DEF GroupBroadcast
    <2>2. PICK as, m : m \in WireMessage /\ mailbox' = Deliver(as, m)
      BY <1>12, GroupBroadcastTypes
    <2>3. AwareKept
      BY <2>1, <2>2, AwareDeliver
    <2> QED BY <1>0, <2>1, <2>3, FoundKept, IntroducedKept
  <1>13. CASE UNCHANGED wiringVars
    <2>1. UNCHANGED <<program, at, store, edges, group, mailbox, contacts, failed, phase>>
      BY <1>13 DEF wiringVars
    <2>2. AwareKept
      BY <2>1 DEF AwareKept, Aware
    <2> QED BY <1>0, <2>1, <2>2, FoundKept, IntroducedKept
  <1> QED BY <1>1, <1>2, <1>3, <1>4, <1>5, <1>6, <1>7, <1>8, <1>9, <1>10, <1>11, <1>12, <1>13
          DEF WiringNext

LEMMA IntroducedInit == WiringInit => Introduced
  <1> SUFFICES ASSUME WiringInit PROVE Introduced
    OBVIOUS
  <1>1. at = 1 /\ group = <<>> /\ mailbox = <<>> /\ failed = {}
    BY DEF WiringInit
  <1>2. DOMAIN <<>> = {} /\ 1..(1 - 1) = {}
    OBVIOUS
  <1> QED BY <1>1, <1>2 DEF Introduced, OnlyIntroductions, SharedKnown, CallsDone, CallsTold, AnnouncedIsFound

LEMMA IntroducedKnows == WiringTypeOK /\ Introduced => LayerKnowsShared
  <1> SUFFICES ASSUME WiringTypeOK, Introduced, NEW g \in DOMAIN group,
                      NEW a \in {EntryPoint(g)} \cup ToSet(CurrentLayer(group[g].entry)),
                      NEW i \in DOMAIN group[g].shared
               PROVE  store[group[g].shared[i]] \in Told(a)
    BY DEF LayerKnowsShared
  <1> DEFINE e == group[g].entry
             ids == edges[e]
             x == store[group[g].shared[i]]
  <1>1. \E m \in Members(g) : store[m] = a
    <2>1. CASE a = EntryPoint(g)
      BY <2>1 DEF EntryPoint, Members
    <2>2. CASE a \in ToSet(CurrentLayer(e))
      <3>1. CurrentLayer(e) = [k \in DOMAIN ids |-> store[ids[k]]]
        BY DEF CurrentLayer, FindingAdjacency
      <3>2. \E k \in DOMAIN ids : store[ids[k]] = a
        BY <2>2, <3>1 DEF ToSet
      <3>3. \A k \in DOMAIN ids : ids[k] \in Members(g)
        BY DEF Members, ToSet
      <3> QED BY <3>2, <3>3
    <2> QED BY <2>1, <2>2
  <1>2. Aware(a, x)
    BY <1>1 DEF Introduced, SharedKnown
  <1> QED BY <1>2 DEF Aware, Tells, Told

\* Every actor of a group is told of everything abstract_group::add_shared put
\* into the group, whatever the order of add and add_shared was.
THEOREM SharedIsToldToAll == WiringSpec => []LayerKnowsShared
  <1>1. WiringInit => WiringTypeOK /\ Introduced
    BY WiringInitTypes, IntroducedInit
  <1>2. WiringTypeOK /\ Introduced /\ [WiringNext]_wiringVars => (WiringTypeOK /\ Introduced)'
    BY WiringTypeNext, IntroducedNext
  <1>3. WiringTypeOK /\ Introduced => LayerKnowsShared
    BY IntroducedKnows
  <1> QED BY <1>1, <1>2, <1>3, PTL DEF WiringSpec

\* A lookup throws only for a name that init_service does not announce to the
\* actor, whatever its calls and their order: the mailboxes hold the introductions
\* before the workers start and an actor handles its messages in order, so the
\* introductions come first.
THEOREM NoAnnouncedLookupThrows == WiringSpec => []AnnouncedIsFound
  <1>1. WiringInit => WiringTypeOK /\ Introduced
    BY WiringInitTypes, IntroducedInit
  <1>2. WiringTypeOK /\ Introduced /\ [WiringNext]_wiringVars => (WiringTypeOK /\ Introduced)'
    BY WiringTypeNext, IntroducedNext
  <1>3. Introduced => AnnouncedIsFound
    BY DEF Introduced
  <1> QED BY <1>1, <1>2, <1>3, PTL DEF WiringSpec
=============================================================================
