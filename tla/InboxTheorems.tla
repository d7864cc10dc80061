--------------------------- MODULE InboxTheorems ---------------------------
(***************************************************************************)
(* Facts about the inboxes of services, which ManagerServices and          *)
(* PlatformServices have in common: box[s] is the FIFO queue of service s, *)
(* a message m carries the number m.r of its request (0: none), a handler  *)
(* takes the head of its own inbox and may append to another one.          *)
(***************************************************************************)
EXTENDS Naturals, Sequences, TLAPS

\* Message m waits in the inbox of s.
Waits(box, s, m) == \E i \in DOMAIN box[s] : box[s][i] = m

\* The places of the messages of request r.
PlacesIn(box, S, r) ==
  UNION {{<<s, i>> : i \in {j \in DOMAIN box[s] : box[s][j].r = r}} : s \in S}

\* The messages of request r are in one place, or nowhere.
InOnePlace(box, S, r) == \E p \in PlacesIn(box, S, r) : PlacesIn(box, S, r) = {p}
Nowhere(box, S, r) == PlacesIn(box, S, r) = {}

Take(box, s) == [box EXCEPT ![s] = Tail(@)]
Put(box, to, m) == [box EXCEPT ![to] = Append(@, m)]

LEMMA PlacesMember ==
  ASSUME NEW box, NEW S, NEW r, NEW p
  PROVE  p \in PlacesIn(box, S, r) <=>
           \E s \in S : \E i \in DOMAIN box[s] : box[s][i].r = r /\ p = <<s, i>>
  BY DEF PlacesIn

\* InOnePlace without sets of places.
LEMMA OnePlaceElim ==
  ASSUME NEW box, NEW S, NEW r
  PROVE  InOnePlace(box, S, r) <=>
           \E s \in S : \E i \in DOMAIN box[s] :
             /\ box[s][i].r = r
             /\ \A t \in S : \A j \in DOMAIN box[t] :
                  box[t][j].r = r => t = s /\ j = i
  <1>1. ASSUME InOnePlace(box, S, r)
        PROVE  \E s \in S : \E i \in DOMAIN box[s] :
                 /\ box[s][i].r = r
                 /\ \A t \in S : \A j \in DOMAIN box[t] :
                      box[t][j].r = r => t = s /\ j = i
    <2>1. PICK p \in PlacesIn(box, S, r) : PlacesIn(box, S, r) = {p}
      BY <1>1 DEF InOnePlace
    <2>2. PICK s \in S : \E i \in DOMAIN box[s] : box[s][i].r = r /\ p = <<s, i>>
      BY PlacesMember
    <2>3. PICK i \in DOMAIN box[s] : box[s][i].r = r /\ p = <<s, i>>
      BY <2>2
    <2>4. ASSUME NEW t \in S, NEW j \in DOMAIN box[t], box[t][j].r = r
          PROVE  t = s /\ j = i
      <3>1. <<t, j>> \in PlacesIn(box, S, r)
        BY <2>4, PlacesMember
      <3> QED BY <2>1, <2>3, <3>1
    <2> QED BY <2>3, <2>4
  <1>2. ASSUME NEW s \in S, NEW i \in DOMAIN box[s], box[s][i].r = r,
               \A t \in S : \A j \in DOMAIN box[t] :
                 box[t][j].r = r => t = s /\ j = i
        PROVE  InOnePlace(box, S, r)
    <2>1. <<s, i>> \in PlacesIn(box, S, r)
      BY <1>2, PlacesMember
    <2>2. ASSUME NEW p \in PlacesIn(box, S, r) PROVE p = <<s, i>>
      BY <1>2, PlacesMember
    <2> QED BY <2>1, <2>2 DEF InOnePlace
  <1> QED BY <1>1, <1>2

LEMMA NowhereElim ==
  ASSUME NEW box, NEW S, NEW r
  PROVE  Nowhere(box, S, r) <=>
           \A s \in S : \A i \in DOMAIN box[s] : box[s][i].r # r
  <1>1. ASSUME Nowhere(box, S, r), NEW s \in S, NEW i \in DOMAIN box[s], box[s][i].r = r
        PROVE  FALSE
    <2>1. <<s, i>> \in PlacesIn(box, S, r)
      BY <1>1, PlacesMember
    <2> QED BY <1>1, <2>1 DEF Nowhere
  <1>2. ASSUME \A s \in S : \A i \in DOMAIN box[s] : box[s][i].r # r
        PROVE  Nowhere(box, S, r)
    <2>1. ASSUME NEW p \in PlacesIn(box, S, r) PROVE FALSE
      BY <1>2, PlacesMember
    <2> QED BY <2>1 DEF Nowhere
  <1> QED BY <1>1, <1>2

-----------------------------------------------------------------------------
(* A handler takes the head of its inbox. *)

LEMMA TakeShape ==
  ASSUME NEW S, NEW M, NEW box \in [S -> Seq(M)], NEW s \in S, box[s] # <<>>
  PROVE  /\ Take(box, s) \in [S -> Seq(M)]
         /\ \A t \in S \ {s} : Take(box, s)[t] = box[t]
         /\ Len(Take(box, s)[s]) = Len(box[s]) - 1
         /\ \A i \in DOMAIN Take(box, s)[s] :
              /\ i + 1 \in DOMAIN box[s] /\ i + 1 # 1
              /\ Take(box, s)[s][i] = box[s][i + 1]
         /\ \A i \in DOMAIN box[s] :
              i # 1 => /\ i - 1 \in DOMAIN Take(box, s)[s]
                       /\ Take(box, s)[s][i - 1] = box[s][i]
         /\ 1 \in DOMAIN box[s] /\ box[s][1] = Head(box[s])
         /\ Head(box[s]) \in M
  <1>1. box[s] \in Seq(M) /\ Take(box, s)[s] = Tail(box[s])
    BY DEF Take
  <1>2. \A t \in S \ {s} : Take(box, s)[t] = box[t]
    BY DEF Take
  <1>3. /\ Tail(box[s]) \in Seq(M)
        /\ Len(Tail(box[s])) = Len(box[s]) - 1
        /\ \A i \in 1..Len(Tail(box[s])) : Tail(box[s])[i] = box[s][i + 1]
        /\ Len(box[s]) \in Nat \ {0}
        /\ DOMAIN box[s] = 1..Len(box[s])
        /\ DOMAIN Tail(box[s]) = 1..Len(Tail(box[s]))
        /\ Head(box[s]) = box[s][1]
        /\ Head(box[s]) \in M
    BY <1>1
  <1>4. Take(box, s) \in [S -> Seq(M)]
    BY <1>3 DEF Take
  <1> HIDE DEF Take
  <1>5. \A i \in DOMAIN Take(box, s)[s] :
              /\ i + 1 \in DOMAIN box[s] /\ i + 1 # 1
              /\ Take(box, s)[s][i] = box[s][i + 1]
    BY <1>1, <1>3
  <1>6. \A i \in DOMAIN box[s] :
              i # 1 => /\ i - 1 \in DOMAIN Take(box, s)[s]
                       /\ Take(box, s)[s][i - 1] = box[s][i]
    BY <1>1, <1>3
  <1> QED BY <1>1, <1>2, <1>3, <1>4, <1>5, <1>6

LEMMA TakeWaits ==
  ASSUME NEW S, NEW M, NEW box \in [S -> Seq(M)], NEW s \in S, box[s] # <<>>
  PROVE  /\ Waits(box, s, Head(box[s]))
         /\ \A t \in S : \A m : Waits(Take(box, s), t, m) => Waits(box, t, m)
  <1>1. Waits(box, s, Head(box[s]))
    BY TakeShape DEF Waits
  <1>2. ASSUME NEW t \in S, NEW m, Waits(Take(box, s), t, m)
        PROVE  Waits(box, t, m)
    <2>1. PICK i \in DOMAIN Take(box, s)[t] : Take(box, s)[t][i] = m
      BY <1>2 DEF Waits
    <2>2. CASE t = s
      BY <2>1, <2>2, TakeShape DEF Waits
    <2>3. CASE t # s
      BY <2>1, <2>3, TakeShape DEF Waits
    <2> QED BY <2>2, <2>3
  <1> QED BY <1>1, <1>2

LEMMA TakePlaces ==
  ASSUME NEW S, NEW M, NEW box \in [S -> Seq(M)], NEW s \in S, box[s] # <<>>
  PROVE  /\ \A r : Nowhere(box, S, r) => Nowhere(Take(box, s), S, r)
         /\ \A r : r # Head(box[s]).r /\ InOnePlace(box, S, r)
                     => InOnePlace(Take(box, s), S, r)
         /\ InOnePlace(box, S, Head(box[s]).r)
              => Nowhere(Take(box, s), S, Head(box[s]).r)
  <1> DEFINE new == Take(box, s)
  <1> HIDE DEF new
  <1>1. /\ \A t \in S \ {s} : new[t] = box[t]
        /\ \A i \in DOMAIN new[s] : i + 1 \in DOMAIN box[s] /\ i + 1 # 1 /\ new[s][i] = box[s][i + 1]
        /\ \A i \in DOMAIN box[s] : i # 1 => i - 1 \in DOMAIN new[s] /\ new[s][i - 1] = box[s][i]
        /\ 1 \in DOMAIN box[s] /\ box[s][1] = Head(box[s])
        /\ DOMAIN box[s] \subseteq Nat /\ DOMAIN new[s] \subseteq Nat
    <2>1. new \in [S -> Seq(M)]
      BY TakeShape DEF new
    <2>2. DOMAIN box[s] \subseteq Nat /\ DOMAIN new[s] \subseteq Nat
      BY <2>1
    <2> QED BY <2>2, TakeShape DEF new
  <1>2. ASSUME NEW r, Nowhere(box, S, r) PROVE Nowhere(new, S, r)
    <2>1. \A t \in S : \A i \in DOMAIN box[t] : box[t][i].r # r
      BY <1>2, NowhereElim
    <2>2. ASSUME NEW t \in S, NEW i \in DOMAIN new[t] PROVE new[t][i].r # r
      <3>1. CASE t = s
        BY <1>1, <2>1, <3>1
      <3>2. CASE t # s
        BY <1>1, <2>1, <3>2
      <3> QED BY <3>1, <3>2
    <2> QED BY <2>2, NowhereElim
  <1>3. ASSUME NEW r, r # Head(box[s]).r, InOnePlace(box, S, r)
        PROVE  InOnePlace(new, S, r)
    <2>1. PICK t \in S : \E i \in DOMAIN box[t] :
             /\ box[t][i].r = r
             /\ \A u \in S : \A j \in DOMAIN box[u] :
                  box[u][j].r = r => u = t /\ j = i
      BY <1>3, OnePlaceElim
    <2>2. PICK i \in DOMAIN box[t] :
             /\ box[t][i].r = r
             /\ \A u \in S : \A j \in DOMAIN box[u] :
                  box[u][j].r = r => u = t /\ j = i
      BY <2>1
    <2>3. CASE t # s
      <3>1. i \in DOMAIN new[t] /\ new[t][i].r = r
        BY <1>1, <2>2, <2>3
      <3>2. ASSUME NEW u \in S, NEW j \in DOMAIN new[u], new[u][j].r = r
            PROVE  u = t /\ j = i
        <4>1. CASE u = s
          BY <1>1, <2>2, <2>3, <3>2, <4>1
        <4>2. CASE u # s
          BY <1>1, <2>2, <3>2, <4>2
        <4> QED BY <4>1, <4>2
      <3> QED BY <3>1, <3>2, OnePlaceElim
    <2>4. CASE t = s
      <3>1. i # 1
        BY <1>1, <1>3, <2>2, <2>4
      <3>2. i - 1 \in DOMAIN new[t] /\ new[t][i - 1].r = r
        BY <1>1, <2>2, <2>4, <3>1
      <3>3. ASSUME NEW u \in S, NEW j \in DOMAIN new[u], new[u][j].r = r
            PROVE  u = t /\ j = i - 1
        <4>1. CASE u = s
          <5>1. j + 1 \in DOMAIN box[s] /\ box[s][j + 1].r = r /\ j \in Nat
            BY <1>1, <3>3, <4>1
          <5>2. j + 1 = i
            BY <2>2, <5>1
          <5> QED BY <5>1, <5>2, <4>1, <2>4
        <4>2. CASE u # s
          BY <1>1, <2>2, <2>4, <3>3, <4>2
        <4> QED BY <4>1, <4>2
      <3> QED BY <3>2, <3>3, OnePlaceElim
    <2> QED BY <2>3, <2>4
  <1>4. ASSUME InOnePlace(box, S, Head(box[s]).r)
        PROVE  Nowhere(new, S, Head(box[s]).r)
    <2>1. \A u \in S : \A j \in DOMAIN box[u] :
            box[u][j].r = Head(box[s]).r => u = s /\ j = 1
      BY <1>1, <1>4, OnePlaceElim
    <2>2. ASSUME NEW u \in S, NEW j \in DOMAIN new[u] PROVE new[u][j].r # Head(box[s]).r
      <3>1. CASE u = s
        BY <1>1, <2>1, <3>1
      <3>2. CASE u # s
        BY <1>1, <2>1, <3>2
      <3> QED BY <3>1, <3>2
    <2> QED BY <2>2, NowhereElim
  <1> QED BY <1>2, <1>3, <1>4 DEF new

-----------------------------------------------------------------------------
(* A message is appended to an inbox. *)

LEMMA PutShape ==
  ASSUME NEW S, NEW M, NEW box \in [S -> Seq(M)], NEW to \in S, NEW m \in M
  PROVE  /\ Put(box, to, m) \in [S -> Seq(M)]
         /\ \A t \in S \ {to} : Put(box, to, m)[t] = box[t]
         /\ Len(box[to]) \in Nat
         /\ DOMAIN box[to] = 1..Len(box[to])
         /\ DOMAIN Put(box, to, m)[to] = 1..(Len(box[to]) + 1)
         /\ \A i \in DOMAIN box[to] : Put(box, to, m)[to][i] = box[to][i]
         /\ Put(box, to, m)[to][Len(box[to]) + 1] = m
  BY DEF Put

LEMMA PutWaits ==
  ASSUME NEW S, NEW M, NEW box \in [S -> Seq(M)], NEW to \in S, NEW m \in M
  PROVE  \A t \in S : \A n : Waits(Put(box, to, m), t, n)
                           => Waits(box, t, n) \/ (t = to /\ n = m)
  <1> SUFFICES ASSUME NEW t \in S, NEW n, Waits(Put(box, to, m), t, n)
               PROVE  Waits(box, t, n) \/ (t = to /\ n = m)
    OBVIOUS
  <1>1. PICK i \in DOMAIN Put(box, to, m)[t] : Put(box, to, m)[t][i] = n
    BY DEF Waits
  <1>2. CASE t # to
    BY <1>1, <1>2, PutShape DEF Waits
  <1>3. CASE t = to
    <2>1. i \in DOMAIN box[to] \/ i = Len(box[to]) + 1
      <3>1. /\ Len(box[to]) \in Nat /\ DOMAIN box[to] = 1..Len(box[to])
            /\ i \in 1..(Len(box[to]) + 1)
        BY <1>1, <1>3, PutShape
      <3> QED BY <3>1
    <2> QED BY <1>1, <1>3, <2>1, PutShape DEF Waits
  <1> QED BY <1>2, <1>3

LEMMA PutPlaces ==
  ASSUME NEW S, NEW M, NEW box \in [S -> Seq(M)], NEW to \in S, NEW m \in M
  PROVE  /\ \A r : r # m.r /\ Nowhere(box, S, r) => Nowhere(Put(box, to, m), S, r)
         /\ \A r : r # m.r /\ InOnePlace(box, S, r)
                     => InOnePlace(Put(box, to, m), S, r)
         /\ Nowhere(box, S, m.r) => InOnePlace(Put(box, to, m), S, m.r)
  <1> DEFINE new == Put(box, to, m)
             last == Len(box[to]) + 1
  <1> HIDE DEF new, last
  <1>1. /\ \A t \in S \ {to} : new[t] = box[t]
        /\ \A i \in DOMAIN box[to] : i \in DOMAIN new[to] /\ new[to][i] = box[to][i]
        /\ \A i \in DOMAIN new[to] : i \in DOMAIN box[to] \/ i = last
        /\ last \in DOMAIN new[to] /\ new[to][last] = m
    <2>1. /\ Len(box[to]) \in Nat /\ DOMAIN box[to] = 1..Len(box[to])
          /\ DOMAIN new[to] = 1..(Len(box[to]) + 1)
          /\ \A i \in DOMAIN box[to] : new[to][i] = box[to][i]
          /\ \A t \in S \ {to} : new[t] = box[t]
          /\ new[to][last] = m
      BY PutShape DEF new, last
    <2> QED BY <2>1 DEF last
  <1>2. \A t \in S : \A i \in DOMAIN box[t] : i \in DOMAIN new[t] /\ new[t][i] = box[t][i]
    BY <1>1
  <1>3. \A t \in S : \A i \in DOMAIN new[t] :
          i \in DOMAIN box[t] \/ (t = to /\ i = last /\ new[t][i] = m)
    BY <1>1
  <1>4. ASSUME NEW r, r # m.r, Nowhere(box, S, r) PROVE Nowhere(new, S, r)
    <2>1. \A t \in S : \A i \in DOMAIN box[t] : box[t][i].r # r
      BY <1>4, NowhereElim
    <2>2. \A t \in S : \A i \in DOMAIN new[t] : new[t][i].r # r
      BY <1>2, <1>3, <1>4, <2>1
    <2> QED BY <2>2, NowhereElim
  <1>5. ASSUME NEW r, r # m.r, InOnePlace(box, S, r) PROVE InOnePlace(new, S, r)
    <2>1. PICK t \in S : \E i \in DOMAIN box[t] :
             /\ box[t][i].r = r
             /\ \A u \in S : \A j \in DOMAIN box[u] :
                  box[u][j].r = r => u = t /\ j = i
      BY <1>5, OnePlaceElim
    <2>2. PICK i \in DOMAIN box[t] :
             /\ box[t][i].r = r
             /\ \A u \in S : \A j \in DOMAIN box[u] :
                  box[u][j].r = r => u = t /\ j = i
      BY <2>1
    <2>3. i \in DOMAIN new[t] /\ new[t][i].r = r
      BY <1>2, <2>2
    <2>4. ASSUME NEW u \in S, NEW j \in DOMAIN new[u], new[u][j].r = r
          PROVE  u = t /\ j = i
      <3>1. j \in DOMAIN box[u]
        BY <1>3, <1>5, <2>4
      <3> QED BY <1>2, <2>2, <2>4, <3>1
    <2> QED BY <2>3, <2>4, OnePlaceElim
  <1>6. ASSUME Nowhere(box, S, m.r) PROVE InOnePlace(new, S, m.r)
    <2>1. ASSUME NEW u \in S, NEW j \in DOMAIN new[u], new[u][j].r = m.r
          PROVE  u = to /\ j = last
      <3>1. \A t \in S : \A i \in DOMAIN box[t] : box[t][i].r # m.r
        BY <1>6, NowhereElim
      <3> QED BY <1>2, <1>3, <2>1, <3>1
    <2> QED BY <1>1, <2>1, OnePlaceElim
  <1> QED BY <1>4, <1>5, <1>6 DEF new
=============================================================================
