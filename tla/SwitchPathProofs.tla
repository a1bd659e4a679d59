-------------------------- MODULE SwitchPathProofs --------------------------
(***************************************************************************)
(* What becomes of a packet in LearningSwitch, when one lcore polls all the *)
(* ports: who owns its buffer, what each stage of the pipeline knows of it, *)
(* what leaves on which port and in which order.  For any number of ports,  *)
(* hosts, buffers and frames.                                               *)
(***************************************************************************)
EXTENDS LearningSwitchProofs

(* How often m is in a place f: never, once, or more often. *)
Zero(f, m) == \A k \in DOMAIN f : f[k] # m
One(f, m) == \E j \in DOMAIN f : \A k \in DOMAIN f : f[k] = m <=> k = j
Num(f, m) == IF Zero(f, m) THEN 0 ELSE IF One(f, m) THEN 1 ELSE 2
Held == [x \in Places |-> Contents(x)]
Absence(C, m) == \A x \in Places : Num(C[x], m) = 0
Once(C, m) == \E x \in Places : Num(C[x], m) = 1 /\ \A y \in Places \ {x} : Num(C[y], m) = 0

(* The mbufs that have one owner: packets are freed twice when they are     *)
(* flooded.  No chain leads to one of them.                                 *)
Tracked == IF Floods THEN HeaderMbufs ELSE Mbufs
Pooled(m) == heap.free[m] = 1 /\ heap.refcnt[m] = 0 /\ Absence(Held, m)
Used(m) == heap.free[m] = 0 /\ heap.refcnt[m] = 1 /\ Once(Held, m)
Owned == LonePath => \A m \in Tracked : Pooled(m) \/ Used(m)
Chains == LonePath => \A m \in Mbufs : heap.next[m] \notin Tracked

LEMMA SameTracked ==
  ASSUME UNCHANGED conf
  PROVE  LonePath' = LonePath /\ Tracked' = Tracked
BY SamePath DEF Tracked

-----------------------------------------------------------------------------
(* How often an mbuf is in a place, when the place changes.                 *)
LEMMA NumIs ==
  ASSUME NEW f, NEW m
  PROVE  /\ Num(f, m) \in {0, 1, 2}
         /\ Num(f, m) = 0 <=> \A k \in DOMAIN f : f[k] # m
         /\ Num(f, m) = 1 <=> \E j \in DOMAIN f : \A k \in DOMAIN f : f[k] = m <=> k = j
<1>1. ~(Zero(f, m) /\ One(f, m))
  BY DEF Zero, One
<1>. QED BY <1>1 DEF Num, Zero, One

LEMMA NumEmpty ==
  ASSUME NEW m
  PROVE  Num(<<>>, m) = 0
<1>1. DOMAIN <<>> = {}
  OBVIOUS
<1>. QED BY <1>1, NumIs

LEMMA NumSingle ==
  ASSUME NEW S, NEW n \in S, NEW m
  PROVE  Num(<<n>>, m) = IF m = n THEN 1 ELSE 0
<1>1. DOMAIN <<n>> = {1} /\ <<n>>[1] = n
  OBVIOUS
<1>. DEFINE s == <<n>>
<1>. HIDE DEF s
<1>2. DOMAIN s = {1} /\ s[1] = n
  BY <1>1 DEF s
<1>3. Num(s, m) = IF m = n THEN 1 ELSE 0
  BY <1>2, NumIs
<1>. QED BY <1>3 DEF s

LEMMA NumAppend ==
  ASSUME NEW S, NEW s \in Seq(S), NEW n \in S, NEW m
  PROVE  /\ m # n => Num(Append(s, n), m) = Num(s, m)
         /\ Num(s, n) = 0 => Num(Append(s, n), n) = 1
<1>. DEFINE t == Append(s, n)
            e == Len(s) + 1
<1>1. /\ DOMAIN t = 1 .. e /\ DOMAIN s = 1 .. Len(s) /\ Len(s) \in Nat
      /\ \A k \in 1 .. Len(s) : t[k] = s[k]
      /\ t[e] = n
  BY Appended
<1>2. /\ e \in DOMAIN t /\ e \notin DOMAIN s
      /\ \A k \in DOMAIN t : k # e => k \in DOMAIN s /\ t[k] = s[k]
      /\ \A k \in DOMAIN s : k \in DOMAIN t /\ t[k] = s[k]
  BY <1>1
<1>. HIDE DEF t, e
<1>3. ASSUME m # n PROVE Num(t, m) = Num(s, m)
  <2>1. Num(t, m) = 0 <=> Num(s, m) = 0
    BY <1>1, <1>2, <1>3, NumIs
  <2>2. ASSUME Num(s, m) = 1 PROVE Num(t, m) = 1
    <3>1. PICK j \in DOMAIN s : \A k \in DOMAIN s : s[k] = m <=> k = j
      BY <2>2, NumIs
    <3>2. j \in DOMAIN t /\ \A k \in DOMAIN t : t[k] = m <=> k = j
      BY <1>1, <1>2, <1>3, <3>1
    <3>. QED BY <3>2, NumIs
  <2>3. ASSUME Num(t, m) = 1 PROVE Num(s, m) = 1
    <3>1. PICK j \in DOMAIN t : \A k \in DOMAIN t : t[k] = m <=> k = j
      BY <2>3, NumIs
    <3>2. j \in DOMAIN s /\ \A k \in DOMAIN s : s[k] = m <=> k = j
      BY <1>1, <1>2, <1>3, <3>1
    <3>. QED BY <3>2, NumIs
  <2>. QED BY <2>1, <2>2, <2>3, NumIs
<1>4. ASSUME Num(s, n) = 0 PROVE Num(t, n) = 1
  <2>1. \A k \in DOMAIN s : s[k] # n
    BY <1>4, NumIs
  <2>2. \A k \in DOMAIN t : t[k] = n <=> k = e
    BY <1>1, <1>2, <2>1
  <2>. QED BY <1>2, <2>2, NumIs
<1>. QED BY <1>3, <1>4 DEF t

LEMMA NumTail ==
  ASSUME NEW S, NEW s \in Seq(S), s # <<>>, NEW m
  PROVE  /\ m # Head(s) => Num(Tail(s), m) = Num(s, m)
         /\ m = Head(s) => Num(s, m) # 0
         /\ m = Head(s) /\ Num(s, m) = 1 => Num(Tail(s), m) = 0
<1>. DEFINE t == Tail(s)
            n == Len(s)
<1>1. /\ n \in Nat \ {0} /\ DOMAIN s = 1 .. n /\ Head(s) = s[1]
      /\ DOMAIN t = 1 .. n - 1
      /\ \A k \in 1 .. n - 1 : t[k] = s[k + 1]
  BY HeadTail
<1>. HIDE DEF t, n
<1>2. /\ 1 \in DOMAIN s
      /\ \A k \in DOMAIN t : k + 1 \in DOMAIN s /\ t[k] = s[k + 1] /\ k + 1 # 1 /\ k = (k + 1) - 1
      /\ \A k \in DOMAIN s : k # 1 => k - 1 \in DOMAIN t /\ t[k - 1] = s[k] /\ k = (k - 1) + 1
  <2>1. \A k \in DOMAIN t : k + 1 \in DOMAIN s /\ t[k] = s[k + 1] /\ k + 1 # 1 /\ k = (k + 1) - 1
    BY <1>1
  <2>2. ASSUME NEW k \in DOMAIN s, k # 1
        PROVE  k - 1 \in DOMAIN t /\ t[k - 1] = s[k] /\ k = (k - 1) + 1
    <3>1. k - 1 \in 1 .. n - 1 /\ k = (k - 1) + 1
      BY <1>1, <2>2
    <3>. QED BY <1>1, <3>1
  <2>. QED BY <1>1, <2>1, <2>2
<1>3. ASSUME m # Head(s) PROVE Num(t, m) = Num(s, m)
  <2>1. Num(t, m) = 0 <=> Num(s, m) = 0
    <3>1. ASSUME \A k \in DOMAIN s : s[k] # m PROVE \A k \in DOMAIN t : t[k] # m
      BY <1>2, <3>1
    <3>2. ASSUME \A k \in DOMAIN t : t[k] # m, NEW k \in DOMAIN s PROVE s[k] # m
      <4>1. CASE k = 1
        BY <1>1, <1>3, <4>1
      <4>2. CASE k # 1
        BY <1>2, <3>2, <4>2
      <4>. QED BY <4>1, <4>2
    <3>. QED BY <3>1, <3>2, NumIs
  <2>2. ASSUME Num(s, m) = 1 PROVE Num(t, m) = 1
    <3>1. PICK j \in DOMAIN s : \A k \in DOMAIN s : s[k] = m <=> k = j
      BY <2>2, NumIs
    <3>2. j # 1
      BY <1>1, <1>3, <3>1
    <3>3. j - 1 \in DOMAIN t /\ j = (j - 1) + 1
      BY <1>2, <3>1, <3>2
    <3>4. ASSUME NEW k \in DOMAIN t PROVE t[k] = m <=> k = j - 1
      <4>1. k + 1 \in DOMAIN s /\ t[k] = s[k + 1] /\ k \in Int /\ j \in Int
        BY <1>1, <1>2
      <4>2. k + 1 = j <=> k = j - 1
        BY <4>1
      <4>. QED BY <3>1, <4>1, <4>2
    <3>. QED BY <3>3, <3>4, NumIs
  <2>3. ASSUME Num(t, m) = 1 PROVE Num(s, m) = 1
    <3>1. PICK j \in DOMAIN t : \A k \in DOMAIN t : t[k] = m <=> k = j
      BY <2>3, NumIs
    <3>2. j + 1 \in DOMAIN s /\ j \in Int
      BY <1>1, <1>2
    <3>3. ASSUME NEW k \in DOMAIN s PROVE s[k] = m <=> k = j + 1
      <4>1. CASE k = 1
        <5>1. k # j + 1
          BY <1>2, <4>1
        <5>. QED BY <1>1, <1>3, <4>1, <5>1
      <4>2. CASE k # 1
        <5>1. k - 1 \in DOMAIN t /\ t[k - 1] = s[k] /\ k \in Int
          BY <1>1, <1>2, <4>2
        <5>2. k - 1 = j <=> k = j + 1
          BY <3>2, <5>1
        <5>. QED BY <3>1, <5>1, <5>2
      <4>. QED BY <4>1, <4>2
    <3>. QED BY <3>2, <3>3, NumIs
  <2>. QED BY <2>1, <2>2, <2>3, NumIs
<1>4. ASSUME m = Head(s) PROVE Num(s, m) # 0 /\ (Num(s, m) = 1 => Num(t, m) = 0)
  <2>1. Num(s, m) # 0
    BY <1>1, <1>2, <1>4, NumIs
  <2>2. ASSUME Num(s, m) = 1 PROVE Num(t, m) = 0
    <3>1. PICK j \in DOMAIN s : \A k \in DOMAIN s : s[k] = m <=> k = j
      BY <2>2, NumIs
    <3>2. j = 1
      BY <1>1, <1>2, <1>4, <3>1
    <3>3. \A k \in DOMAIN t : t[k] # m
      BY <1>2, <3>1, <3>2
    <3>. QED BY <3>3, NumIs
  <2>. QED BY <2>1, <2>2
<1>. QED BY <1>3, <1>4 DEF t

LEMMA PutIs ==
  ASSUME NEW f \in [Descs -> Mbufs \cup {Null}], NEW d \in Descs, NEW v \in Mbufs \cup {Null}
  PROVE  /\ Put(f, d, v) \in [Descs -> Mbufs \cup {Null}]
         /\ Put(f, d, v)[d] = v /\ \A e \in Descs \ {d} : Put(f, d, v)[e] = f[e]
BY DEF Put

LEMMA NumPut ==
  ASSUME NEW f \in [Descs -> Mbufs \cup {Null}], NEW d \in Descs, NEW v \in Mbufs \cup {Null},
         NEW m
  PROVE  /\ m # v /\ m # f[d] => Num(Put(f, d, v), m) = Num(f, m)
         /\ m = v /\ Num(f, m) = 0 => Num(Put(f, d, v), m) = 1
         /\ m = f[d] => Num(f, m) # 0
         /\ m = f[d] /\ m # v /\ Num(f, m) = 1 => Num(Put(f, d, v), m) = 0
<1>. DEFINE g == Put(f, d, v)
<1>1. /\ DOMAIN g = Descs /\ DOMAIN f = Descs
      /\ g[d] = v /\ \A k \in Descs \ {d} : g[k] = f[k]
  BY DEF Put
<1>. HIDE DEF g
<1>2. ASSUME m # v, m # f[d] PROVE Num(g, m) = Num(f, m)
  <2>1. \A k \in Descs : g[k] = m <=> f[k] = m
    BY <1>1, <1>2
  <2>. QED BY <1>1, <2>1, NumIs
<1>3. ASSUME m = v, Num(f, m) = 0 PROVE Num(g, m) = 1
  <2>1. \A k \in Descs : g[k] = m <=> k = d
    BY <1>1, <1>3, NumIs
  <2>. QED BY <1>1, <2>1, NumIs
<1>4. m = f[d] => Num(f, m) # 0
  BY <1>1, NumIs
<1>5. ASSUME m = f[d], m # v, Num(f, m) = 1 PROVE Num(g, m) = 0
  <2>1. PICK j \in Descs : \A k \in Descs : f[k] = m <=> k = j
    BY <1>1, <1>5, NumIs
  <2>2. j = d
    BY <1>5, <2>1
  <2>3. \A k \in Descs : g[k] # m
    BY <1>1, <1>5, <2>1, <2>2
  <2>. QED BY <1>1, <2>3, NumIs
<1>. QED BY <1>2, <1>3, <1>4, <1>5 DEF g

(* Only places x and y change: what m has lost in one it has in the other,   *)
(* or it comes from its pool, or it goes there.                             *)
Total(C, x, y, m) == Num(C[x], m) + Num(C[y], m)
LEMMA TwoPlaces ==
  ASSUME NEW x \in Places, NEW y \in Places, x # y, NEW m,
         \A z \in Places \ {x, y} : Held'[z] = Held[z]
  PROVE  /\ Absence(Held, m) => Total(Held, x, y, m) = 0
         /\ Once(Held, m) => Total(Held, x, y, m) \in {0, 1}
         /\ Absence(Held, m) /\ Total(Held', x, y, m) = 0 => Absence(Held', m)
         /\ Absence(Held, m) /\ Total(Held', x, y, m) = 1 => Once(Held', m)
         /\ Once(Held, m) /\ Total(Held', x, y, m) = Total(Held, x, y, m) => Once(Held', m)
         /\ Once(Held, m) /\ Total(Held, x, y, m) = 1 /\ Total(Held', x, y, m) = 0
              => Absence(Held', m)
<1>. DEFINE a == Num(Held[x], m)
            b == Num(Held[y], m)
            c == Num(Held'[x], m)
            d == Num(Held'[y], m)
<1>1. a \in {0, 1, 2} /\ b \in {0, 1, 2} /\ c \in {0, 1, 2} /\ d \in {0, 1, 2}
  BY NumIs
<1>2. Total(Held, x, y, m) = a + b /\ Total(Held', x, y, m) = c + d
  BY DEF Total
<1>3. \A z \in Places \ {x, y} : Num(Held'[z], m) = Num(Held[z], m)
  OBVIOUS
<1>4. ASSUME Absence(Held, m)
      PROVE  a = 0 /\ b = 0 /\ \A z \in Places \ {x, y} : Num(Held'[z], m) = 0
  BY <1>3, <1>4 DEF Absence
<1>5. ASSUME Once(Held, m)
      PROVE  \/ /\ a + b = 1 /\ \A z \in Places \ {x, y} : Num(Held'[z], m) = 0
             \/ /\ a = 0 /\ b = 0
                /\ \E w \in Places \ {x, y} :
                     /\ Num(Held'[w], m) = 1
                     /\ \A z \in Places \ {x, y} : z # w => Num(Held'[z], m) = 0
  <2>1. PICK w \in Places : Num(Held[w], m) = 1 /\ \A z \in Places \ {w} : Num(Held[z], m) = 0
    BY <1>5 DEF Once
  <2>2. CASE w = x
    BY <1>3, <2>1, <2>2
  <2>3. CASE w = y
    BY <1>3, <2>1, <2>3
  <2>4. CASE w \notin {x, y}
    BY <1>3, <2>1, <2>4
  <2>. QED BY <2>2, <2>3, <2>4
<1>6. ASSUME c = 0, d = 0, \A z \in Places \ {x, y} : Num(Held'[z], m) = 0
      PROVE  Absence(Held', m)
  BY <1>6 DEF Absence
<1>7. ASSUME c + d = 1, \A z \in Places \ {x, y} : Num(Held'[z], m) = 0
      PROVE  Once(Held', m)
  <2>1. \/ c = 1 /\ d = 0
        \/ c = 0 /\ d = 1
    BY <1>1, <1>7
  <2>2. CASE c = 1 /\ d = 0
    <3>1. \A z \in Places \ {x} : Num(Held'[z], m) = 0
      BY <1>7, <2>2
    <3>. QED BY <2>2, <3>1 DEF Once
  <2>3. CASE c = 0 /\ d = 1
    <3>1. \A z \in Places \ {y} : Num(Held'[z], m) = 0
      BY <1>7, <2>3
    <3>. QED BY <2>3, <3>1 DEF Once
  <2>. QED BY <2>1, <2>2, <2>3
<1>8. ASSUME c = 0, d = 0, NEW w \in Places \ {x, y}, Num(Held'[w], m) = 1,
             \A z \in Places \ {x, y} : z # w => Num(Held'[z], m) = 0
      PROVE  Once(Held', m)
  <2>1. \A z \in Places \ {w} : Num(Held'[z], m) = 0
    BY <1>8
  <2>. QED BY <1>8, <2>1 DEF Once
<1>9. c + d = 0 => c = 0 /\ d = 0
  BY <1>1
<1>. HIDE DEF a, b, c, d
<1>10. Absence(Held, m) => a + b = 0
  BY <1>4
<1>11. Once(Held, m) => a + b \in {0, 1}
  BY <1>5
<1>12. Absence(Held, m) /\ c + d = 0 => Absence(Held', m)
  BY <1>4, <1>6, <1>9
<1>13. Absence(Held, m) /\ c + d = 1 => Once(Held', m)
  BY <1>4, <1>7
<1>14. ASSUME Once(Held, m), c + d = a + b PROVE Once(Held', m)
  <2>1. CASE a + b = 1 /\ \A z \in Places \ {x, y} : Num(Held'[z], m) = 0
    BY <1>7, <1>14, <2>1
  <2>2. CASE /\ a = 0 /\ b = 0
             /\ \E w \in Places \ {x, y} :
                  /\ Num(Held'[w], m) = 1
                  /\ \A z \in Places \ {x, y} : z # w => Num(Held'[z], m) = 0
    <3>1. c = 0 /\ d = 0
      BY <1>9, <1>14, <2>2
    <3>. QED BY <1>8, <2>2, <3>1
  <2>. QED BY <1>5, <1>14, <2>1, <2>2
<1>15. ASSUME Once(Held, m), a + b = 1, c + d = 0 PROVE Absence(Held', m)
  <2>1. \A z \in Places \ {x, y} : Num(Held'[z], m) = 0
    BY <1>5, <1>15
  <2>. QED BY <1>6, <1>9, <1>15, <2>1
<1>. QED BY <1>2, <1>10, <1>11, <1>12, <1>13, <1>14, <1>15

(* What is in each place. *)
LEMMA PlaceKinds ==
  /\ \A p \in Ports : /\ <<"rxq", p>> \in Places /\ <<"sw_ring", p>> \in Places
                      /\ \A l \in Lcores : <<"tx_mbufs", <<l, p>>>> \in Places
  /\ \A l \in Lcores : <<"pkts_burst", l>> \in Places
  /\ \A z \in Places : \/ \E p \in Ports : z = <<"rxq", p>> \/ z = <<"sw_ring", p>>
                       \/ \E l \in Lcores : z = <<"pkts_burst", l>>
                       \/ \E l \in Lcores, p \in Ports : z = <<"tx_mbufs", <<l, p>>>>
BY DEF Places

LEMMA PlaceValues ==
  /\ \A p \in Ports : /\ Held[<<"rxq", p>>] = rxq[p] /\ Held[<<"sw_ring", p>>] = txq[p].sw_ring
                      /\ \A l \in Lcores : Held[<<"tx_mbufs", <<l, p>>>>] = tx_mbufs[l][p]
  /\ \A l \in Lcores : Held[<<"pkts_burst", l>>] = pkts_burst[l]
<1>1. ASSUME NEW p \in Ports
      PROVE  /\ Contents(<<"rxq", p>>) = rxq[p] /\ Contents(<<"sw_ring", p>>) = txq[p].sw_ring
             /\ \A l \in Lcores : Contents(<<"tx_mbufs", <<l, p>>>>) = tx_mbufs[l][p]
  BY DEF Contents
<1>2. ASSUME NEW l \in Lcores PROVE Contents(<<"pkts_burst", l>>) = pkts_burst[l]
  BY DEF Contents
<1>. QED BY <1>1, <1>2, PlaceKinds DEF Held

LEMMA PlaceValuesNext ==
  /\ \A p \in Ports : /\ Held'[<<"rxq", p>>] = rxq'[p] /\ Held'[<<"sw_ring", p>>] = txq'[p].sw_ring
                      /\ \A l \in Lcores : Held'[<<"tx_mbufs", <<l, p>>>>] = tx_mbufs'[l][p]
  /\ \A l \in Lcores : Held'[<<"pkts_burst", l>>] = pkts_burst'[l]
<1>1. ASSUME NEW p \in Ports
      PROVE  /\ Contents(<<"rxq", p>>)' = rxq'[p] /\ Contents(<<"sw_ring", p>>)' = txq'[p].sw_ring
             /\ \A l \in Lcores : Contents(<<"tx_mbufs", <<l, p>>>>)' = tx_mbufs'[l][p]
  BY DEF Contents
<1>2. ASSUME NEW l \in Lcores PROVE Contents(<<"pkts_burst", l>>)' = pkts_burst'[l]
  BY DEF Contents
<1>3. ASSUME NEW z \in Places PROVE Held'[z] = Contents(z)'
  BY DEF Held, Places
<1>. QED BY <1>1, <1>2, <1>3, PlaceKinds

(* All places but x and y stay as they are if each kind does. *)
LEMMA OtherPlaces ==
  ASSUME NEW x \in Places, NEW y \in Places,
         \A p \in Ports : <<"rxq", p>> \notin {x, y} => rxq'[p] = rxq[p],
         \A p \in Ports : <<"sw_ring", p>> \notin {x, y} => txq'[p].sw_ring = txq[p].sw_ring,
         \A l \in Lcores : <<"pkts_burst", l>> \notin {x, y} => pkts_burst'[l] = pkts_burst[l],
         \A l \in Lcores, p \in Ports :
           <<"tx_mbufs", <<l, p>>>> \notin {x, y} => tx_mbufs'[l][p] = tx_mbufs[l][p]
  PROVE  \A z \in Places \ {x, y} : Held'[z] = Held[z]
<1>. SUFFICES ASSUME NEW z \in Places \ {x, y} PROVE Held'[z] = Held[z]
  OBVIOUS
<1>1. ASSUME NEW p \in Ports, z = <<"rxq", p>> PROVE Held'[z] = Held[z]
  <2>1. rxq'[p] = rxq[p]
    BY <1>1
  <2>. QED BY <1>1, <2>1, PlaceValues, PlaceValuesNext
<1>4. ASSUME NEW p \in Ports, z = <<"sw_ring", p>> PROVE Held'[z] = Held[z]
  <2>1. txq'[p].sw_ring = txq[p].sw_ring
    BY <1>4
  <2>. QED BY <1>4, <2>1, PlaceValues, PlaceValuesNext
<1>2. ASSUME NEW l \in Lcores, z = <<"pkts_burst", l>> PROVE Held'[z] = Held[z]
  BY <1>2, PlaceValues, PlaceValuesNext
<1>3. ASSUME NEW l \in Lcores, NEW p \in Ports, z = <<"tx_mbufs", <<l, p>>>> PROVE Held'[z] = Held[z]
  <2>1. tx_mbufs'[l][p] = tx_mbufs[l][p]
    BY <1>3
  <2>. QED BY <1>3, <2>1, PlaceValues, PlaceValuesNext
<1>. QED BY <1>1, <1>2, <1>3, <1>4, PlaceKinds

(* A tracked mbuf keeps its owner, is freed by its owner, or is allocated.  *)
LEMMA OwnerKept ==
  ASSUME NEW x \in Places, NEW y \in Places, x # y, NEW m, Pooled(m) \/ Used(m),
         \A z \in Places \ {x, y} : Held'[z] = Held[z],
         Num(Held'[x], m) + Num(Held'[y], m) = Num(Held[x], m) + Num(Held[y], m),
         heap'.free[m] = heap.free[m], heap'.refcnt[m] = heap.refcnt[m]
  PROVE  Pooled(m)' \/ Used(m)'
<1>1. Total(Held', x, y, m) = Total(Held, x, y, m)
  BY DEF Total
<1>2. Absence(Held, m)' = Absence(Held', m) /\ Once(Held, m)' = Once(Held', m)
  BY DEF Absence, Once, Num, Zero, One, Places
<1>. QED BY <1>1, <1>2, TwoPlaces DEF Pooled, Used

LEMMA OwnerFrees ==
  ASSUME NEW x \in Places, NEW y \in Places, x # y, NEW m, Pooled(m) \/ Used(m),
         \A z \in Places \ {x, y} : Held'[z] = Held[z],
         Num(Held[x], m) + Num(Held[y], m) # 0,
         Num(Held'[x], m) + Num(Held'[y], m) = 0,
         heap'.refcnt[m] = heap.refcnt[m] - 1,
         heap'.free[m] = IF heap.refcnt[m] = 1 THEN heap.free[m] + 1 ELSE heap.free[m]
  PROVE  Pooled(m)' \/ Used(m)'
<1>1. Total(Held', x, y, m) = 0 /\ Total(Held, x, y, m) # 0
  BY DEF Total
<1>2. Absence(Held, m)' = Absence(Held', m)
  BY DEF Absence, Num, Zero, One, Places
<1>3. Used(m) /\ Absence(Held', m)
  BY <1>1, TwoPlaces DEF Pooled, Used
<1>. QED BY <1>2, <1>3 DEF Pooled, Used

LEMMA OwnerTakes ==
  ASSUME NEW x \in Places, NEW y \in Places, x # y, NEW m, Pooled(m) \/ Used(m),
         \A z \in Places \ {x, y} : Held'[z] = Held[z],
         heap.free[m] > 0,
         Num(Held[x], m) = 0 /\ Num(Held[y], m) = 0 =>
           Num(Held'[x], m) + Num(Held'[y], m) = 1,
         heap'.refcnt[m] = 1, heap'.free[m] = heap.free[m] - 1
  PROVE  Pooled(m)' \/ Used(m)'
<1>1. Pooled(m)
  BY DEF Used
<1>2. Num(Held[x], m) = 0 /\ Num(Held[y], m) = 0
  BY <1>1 DEF Pooled, Absence
<1>3. Total(Held', x, y, m) = 1
  BY <1>2 DEF Total
<1>4. Once(Held, m)' = Once(Held', m)
  BY DEF Once, Num, Zero, One, Places
<1>5. Once(Held', m)
  BY <1>1, <1>3, TwoPlaces DEF Pooled
<1>. QED BY <1>1, <1>4, <1>5 DEF Pooled, Used

(* An mbuf that has one owner is once in one of two places at most. *)
LEMMA OneOwner ==
  ASSUME NEW x \in Places, NEW y \in Places, x # y, NEW m, Pooled(m) \/ Used(m)
  PROVE  /\ Num(Held[x], m) \in {0, 1}
         /\ Num(Held[x], m) # 0 => Num(Held[y], m) = 0 /\ Used(m)
<1>1. CASE Pooled(m)
  BY <1>1 DEF Pooled, Absence
<1>2. CASE Used(m)
  BY <1>2 DEF Used, Once
<1>. QED BY <1>1, <1>2

(* What freeing and allocating one mbuf do to another. *)
LEMMA FreeAt ==
  ASSUME NEW h \in HeapType, NEW e \in Mbufs \cup {Null}, NEW g \in Mbufs
  PROVE  /\ e # g => /\ FreeEntry(h, e).refcnt[g] = h.refcnt[g]
                     /\ FreeEntry(h, e).free[g] = h.free[g]
         /\ e = g => /\ FreeEntry(h, e).refcnt[g] = h.refcnt[g] - 1
                     /\ FreeEntry(h, e).free[g] = IF h.refcnt[g] = 1 THEN h.free[g] + 1 ELSE h.free[g]
<1>1. CASE e = Null
  BY <1>1, NullAssumption DEF FreeEntry
<1>2. CASE e # Null
  <2>1. e \in Mbufs /\ FreeEntry(h, e) = FreeSeg(h, e)
    BY <1>2 DEF FreeEntry
  <2>2. /\ FreeSeg(h, e).refcnt = [h.refcnt EXCEPT ![e] = @ - 1]
        /\ FreeSeg(h, e).free = IF h.refcnt[e] = 1 THEN [h.free EXCEPT ![e] = @ + 1] ELSE h.free
    BY <2>1, FreeSegIs
  <2>3. h.refcnt \in [Mbufs -> Int] /\ h.free \in [Mbufs -> Nat]
    BY DEF HeapType
  <2>. QED BY <2>1, <2>2, <2>3
<1>. QED BY <1>1, <1>2

LEMMA FreePacketAt ==
  ASSUME NEW h \in HeapType, NEW m \in Mbufs, NEW g \in Mbufs, h.next[m] # g
  PROVE  /\ m # g => /\ FreePacket(h, m).refcnt[g] = h.refcnt[g]
                     /\ FreePacket(h, m).free[g] = h.free[g]
         /\ m = g => /\ FreePacket(h, m).refcnt[g] = h.refcnt[g] - 1
                     /\ FreePacket(h, m).free[g] = IF h.refcnt[g] = 1 THEN h.free[g] + 1 ELSE h.free[g]
<1>1. m # Null /\ FreeSeg(h, m) = FreeEntry(h, m)
  BY NullAssumption DEF FreeEntry
<1>2. FreeEntry(h, m) \in HeapType /\ h.next[m] \in Mbufs \cup {Null}
  BY EntryTypes DEF HeapType
<1>3. FreePacket(h, m) = FreeEntry(FreeEntry(h, m), h.next[m])
  BY <1>1 DEF FreePacket
<1>4. /\ FreePacket(h, m).refcnt[g] = FreeEntry(h, m).refcnt[g]
      /\ FreePacket(h, m).free[g] = FreeEntry(h, m).free[g]
  BY <1>2, <1>3, FreeAt
<1>. QED BY <1>4, FreeAt

Posted(r, h, n, x, y) == r = [RawAlloc(h, n) EXCEPT !.next[x] = y]
LEMMA RawAllocAt ==
  ASSUME NEW h \in HeapType, NEW n \in Mbufs, NEW x \in Mbufs, NEW y,
         NEW r, Posted(r, h, n, x, y)
  PROVE  /\ \A g \in Mbufs \ {n} : r.refcnt[g] = h.refcnt[g] /\ r.free[g] = h.free[g]
         /\ r.refcnt[n] = 1 /\ r.free[n] = h.free[n] - 1
         /\ \A g \in Mbufs : r.next[g] \in {y, h.next[g]}
<1>. DEFINE a == RawAlloc(h, n)
<1>1. a = [refcnt |-> [h.refcnt EXCEPT ![n] = 1], free |-> [h.free EXCEPT ![n] = @ - 1],
           next |-> h.next]
  BY AllocIs
<1>2. /\ a.refcnt = [h.refcnt EXCEPT ![n] = 1] /\ a.free = [h.free EXCEPT ![n] = @ - 1]
      /\ a.next = h.next /\ DOMAIN a = {"refcnt", "free", "next"}
  BY <1>1
<1>3. r = [a EXCEPT !.next[x] = y]
  BY DEF Posted
<1>. HIDE DEF a
<1>4. /\ r.refcnt = a.refcnt /\ r.free = a.free /\ r.next = [a.next EXCEPT ![x] = y]
  BY <1>2, <1>3
<1>5. /\ h.refcnt \in [Mbufs -> Int] /\ h.free \in [Mbufs -> Nat]
      /\ h.next \in [Mbufs -> Mbufs \cup {Null}]
  BY DEF HeapType
<1>. QED BY <1>2, <1>4, <1>5

Chained(r, h, n, y) == r = [AllocMbuf(h, n) EXCEPT !.next[n] = y]
LEMMA AllocMbufAt ==
  ASSUME NEW h \in HeapType, NEW n \in Mbufs, NEW y,
         NEW r, Chained(r, h, n, y)
  PROVE  /\ \A g \in Mbufs \ {n} : r.refcnt[g] = h.refcnt[g] /\ r.free[g] = h.free[g]
         /\ r.refcnt[n] = 1 /\ r.free[n] = h.free[n] - 1
         /\ \A g \in Mbufs : r.next[g] \in {y, h.next[g]}
<1>. DEFINE a == AllocMbuf(h, n)
<1>1. a = [RawAlloc(h, n) EXCEPT !.next[n] = Null]
  BY DEF AllocMbuf
<1>2. RawAlloc(h, n) = [refcnt |-> [h.refcnt EXCEPT ![n] = 1],
                        free |-> [h.free EXCEPT ![n] = @ - 1], next |-> h.next]
  BY AllocIs
<1>3. a = [refcnt |-> [h.refcnt EXCEPT ![n] = 1], free |-> [h.free EXCEPT ![n] = @ - 1],
           next |-> [h.next EXCEPT ![n] = Null]]
  <2>. HIDE DEF a
  <2>. QED BY <1>1, <1>2
<1>4. /\ a.refcnt = [h.refcnt EXCEPT ![n] = 1] /\ a.free = [h.free EXCEPT ![n] = @ - 1]
      /\ a.next = [h.next EXCEPT ![n] = Null] /\ DOMAIN a = {"refcnt", "free", "next"}
  <2>. HIDE DEF a
  <2>. QED BY <1>3
<1>5. r = [a EXCEPT !.next[n] = y]
  BY DEF Chained
<1>. HIDE DEF a
<1>6. /\ r.refcnt = a.refcnt /\ r.free = a.free /\ r.next = [a.next EXCEPT ![n] = y]
  BY <1>4, <1>5
<1>7. /\ h.refcnt \in [Mbufs -> Int] /\ h.free \in [Mbufs -> Nat]
      /\ h.next \in [Mbufs -> Mbufs \cup {Null}]
  BY DEF HeapType
<1>. QED BY <1>4, <1>6, <1>7


-----------------------------------------------------------------------------
(* Where no broadcast comes in no frame is flooded: route has written a     *)
(* port, and output reads it.                                               *)
Straight(l) ==
  /\ pc[l] \notin {"flood", "flooded"}
  /\ InDriver(l) => after[l] \in {"drain", "rx", "learn"}
  /\ pc[l] = "output" => Outermost(Current(l)) \in Ports
Unflooded == Clean => \A l \in Lcores : Straight(l)

LEMMA RouteClean ==
  ASSUME IInv, ~Floods, NEW l \in Lcores, Route(l)
  PROVE  \/ Crash
         \/ \E u \in UpperBytes, port \in Ports :
              /\ port \in Known(<<frame[Current(l)].dst, u>>)
              /\ RouteTo(l, port)
<1>1. pkts_burst[l] # <<>>
  BY DEF Route, At, Pipeline, IInv, Ready
<1>2. frame[Current(l)] \in FrameSet /\ conf \in Configurations
  BY <1>1, CurrentPacket DEF IInv, Types
<1>3. frame[Current(l)].dst \in Hosts \cup {Broadcast} /\ frame[Current(l)].dst # Broadcast
  BY <1>2, FrameFields DEF Floods
<1>4. PICK u \in UpperBytes :
         LET dst == <<frame[Current(l)].dst, u>>
         IN IF dst = BroadcastKey THEN RouteTo(l, FLOOD_PORT)
            ELSE \E port \in Lookup(l, dst) : IF port = Absent THEN Crash ELSE RouteTo(l, port)
  BY DEF Route
<1>. DEFINE dst == <<frame[Current(l)].dst, u>>
<1>5. dst # BroadcastKey /\ dst \in Keys
  BY <1>3 DEF BroadcastKey, Keys
<1>6. PICK port \in Lookup(l, dst) : IF port = Absent THEN Crash ELSE RouteTo(l, port)
  BY <1>4, <1>5
<1>7. CASE port = Absent
  BY <1>6, <1>7
<1>8. CASE port # Absent
  <2>1. port \in Known(dst) /\ port \in Ports
    BY <1>8 DEF Lookup, Known
  <2>. QED BY <1>6, <1>8, <2>1
<1>. QED BY <1>7, <1>8

LEMMA OutputClean ==
  ASSUME NEW l \in Lcores, Output(l), Outermost(Current(l)) \in Ports
  PROVE  /\ SendSingle(l, Current(l), Outermost(Current(l)), Resume(l)) /\ DoneWithPacket(l)
         /\ Adjust(Current(l))
         /\ UNCHANGED <<heap, frame, rxq, l2_addr_map_, rxIndex, entry, elapsed, crashed, received>>
<1>. DEFINE m == Current(l)
<1>1. OutputPorts(m) = {Outermost(m)}
  BY DEF OutputPorts, Outputs
<1>2. PICK port \in OutputPorts(m) :
         CASE port = FLOOD_PORT ->
                /\ Goto(l, "flood")
                /\ portid' = [portid EXCEPT ![l] = 0]
                /\ UNCHANGED <<heap, txq, tx_mbufs, pkts_burst, tx_id, after, crashed>>
           [] port = DROP_PACKET ->
                /\ heap' = FreePacket(heap, m)
                /\ DoneWithPacket(l)
                /\ Goto(l, Resume(l))
                /\ UNCHANGED <<txq, tx_mbufs, portid, tx_id, after, crashed>>
           [] port = Absent ->
                /\ crashed' = TRUE
                /\ UNCHANGED <<heap, txq, tx_mbufs, pkts_burst, pc, portid, tx_id, after>>
           [] OTHER ->
                /\ SendSingle(l, m, port, Resume(l))
                /\ DoneWithPacket(l)
                /\ UNCHANGED <<heap, crashed>>
  BY DEF Output
<1>3. port = Outermost(m) /\ port \notin {FLOOD_PORT, DROP_PACKET, Absent}
  BY <1>1, ValuesAssumption
<1>. HIDE DEF m
<1>4. SendSingle(l, m, port, Resume(l)) /\ DoneWithPacket(l) /\ UNCHANGED <<heap, crashed>>
  BY <1>2, <1>3
<1>5. /\ Adjust(Current(l))
      /\ UNCHANGED <<frame, rxq, l2_addr_map_, rxIndex, entry, elapsed, received>>
  BY DEF Output
<1>. QED BY <1>3, <1>4, <1>5 DEF m

(* Where pkt_send_single leaves a lcore. *)
LEMMA SendGoes ==
  ASSUME IInv, NEW l \in Lcores, NEW m, NEW p \in Ports, NEW return \in Labels,
         SendSingle(l, m, p, return)
  PROVE  \/ pc'[l] = return /\ UNCHANGED <<txq, portid, tx_id, after>>
         \/ /\ pc'[l] = "tx" /\ after'[l] = return /\ portid'[l] = p
            /\ TxBegin(l, p, return)
BY DEF SendSingle, TxBegin, Goto, IInv, Types, LcoreTypes

LEMMA StraightStep ==
  ASSUME IInv, ~Floods, NEW l \in Lcores, LcoreStep(l), Straight(l)
  PROVE  Straight(l)'
<1>1. pc \in [Lcores -> PCs] /\ after \in [Lcores -> Labels] /\ "drain" \in Labels
      /\ Resume(l) \in {"rx", "learn"} /\ Resume(l) \in Labels
  BY DEF IInv, Types, LcoreTypes, Resume, Labels, PCs
<1>2. CASE LoopTop(l) \/ DrainDone(l) \/ RxPacket(l) \/ RxDone(l) \/ LoopEnd(l)
  <2>1. pc'[l] \in {"drain", "rx", "learn", "loop"}
    BY <1>1, <1>2 DEF LoopTop, DrainDone, RxPacket, RxDone, LoopEnd, Goto, At
  <2>. QED BY <2>1 DEF Straight, InDriver
<1>3. CASE DrainPort(l)
  <2>1. pc'[l] = "tx" /\ after'[l] = "drain"
    BY <1>1, <1>3 DEF DrainPort, TxBegin, Goto
  <2>. QED BY <2>1 DEF Straight
<1>4. CASE Learn(l)
  <2>1. pc'[l] \in {"insert", "classify"}
    BY <1>1, <1>4 DEF Learn, Goto
  <2>. QED BY <2>1 DEF Straight, InDriver
<1>5. CASE Insert(l) \/ Classify(l) \/ EnforceAllow(l) \/ EnforceDrop(l)
  <2>1. pc'[l] \in {"classify", "enforce", "route", "rx", "learn"}
    BY <1>1, <1>5 DEF Insert, Classify, EnforceAllow, EnforceDrop, Goto
  <2>. QED BY <2>1 DEF Straight, InDriver
<1>6. CASE Route(l)
  <2>1. CASE Crash
    <3>1. pc'[l] = "route"
      BY <1>6, <2>1 DEF Route, At, Crash, lcore
    <3>. QED BY <3>1 DEF Straight, InDriver
  <2>2. ASSUME NEW port \in Ports, RouteTo(l, port)
        PROVE  Straight(l)'
    <3>1. Current(l) \in PacketMbufs
      BY <1>6, CurrentPacket DEF Route, At, Pipeline, IInv, Ready
    <3>2. hdrs \in [PacketMbufs -> Seq(Headers)] /\ port \in Headers
      BY DEF IInv, Types, BufferTypes, Headers
    <3>3. hdrs'[Current(l)] = <<port>> \o hdrs[Current(l)] /\ Current(l)' = Current(l)
          /\ pc'[l] = "output"
      BY <1>1, <2>2, <3>1, <3>2 DEF RouteTo, Prepend, Goto, Current
    <3>4. ASSUME NEW s \in Seq(Headers)
          PROVE  <<port>> \o s # <<>> /\ Head(<<port>> \o s) = port
      BY <3>2
    <3>5. Outermost(Current(l))' = port
      BY <3>1, <3>2, <3>3, <3>4 DEF Outermost
    <3>. QED BY <3>3, <3>5 DEF Straight, InDriver
  <2>. QED BY <1>6, <2>1, <2>2, RouteClean
<1>7. CASE Output(l)
  <2>1. Outermost(Current(l)) \in Ports
    BY <1>7 DEF Output, At, Straight
  <2>2. SendSingle(l, Current(l), Outermost(Current(l)), Resume(l))
    BY <1>7, <2>1, OutputClean
  <2>3. pc'[l] \in {"rx", "learn"} \/ (pc'[l] = "tx" /\ after'[l] \in {"rx", "learn"})
    BY <1>1, <2>1, <2>2, SendGoes
  <2>. QED BY <2>3 DEF Straight, InDriver
<1>8. CASE FloodPort(l) \/ FloodNext(l)
  BY <1>8 DEF FloodPort, FloodNext, At, Straight
<1>9. CASE TxPacket(l) \/ TxReclaim(l) \/ TxEnd(l) \/ FreeUnsent(l)
  <2>1. InDriver(l) /\ after' = after /\ pc'[l] \in {"tx", "unsent", after[l]}
    BY <1>1, <1>9 DEF TxPacket, TxReclaim, TxEnd, FreeUnsent, At, Goto, InDriver, lcore
  <2>. QED BY <2>1 DEF Straight, InDriver
<1>. QED BY <1>2, <1>3, <1>4, <1>5, <1>6, <1>7, <1>8, <1>9 DEF LcoreStep

LEMMA UnfloodedStep == IInv /\ Idle /\ Unflooded /\ [Next]_vars => Unflooded'
<1>. SUFFICES ASSUME IInv, Idle, Unflooded, [Next]_vars PROVE Unflooded'
  OBVIOUS
<1>0. UNCHANGED conf
  BY Awake, Steps, QuietIs
<1>. SUFFICES ASSUME Clean, NEW k \in Lcores PROVE Straight(k)'
  BY <1>0, SamePath DEF Unflooded
<1>1. Straight(k) /\ LonePath /\ ~Floods
  BY DEF Unflooded, Clean
<1>2. CASE Quiet
  <2>1. UNCHANGED <<lcore, hdrs>>
    BY <1>2, QuietIs DEF buffers
  <2>. QED BY <1>1, <2>1 DEF Straight, InDriver, Outermost, Current, lcore
<1>3. ASSUME NEW l \in Lcores, LcoreStep(l) PROVE Straight(k)'
  <2>1. CASE k = l
    BY <1>1, <1>3, <2>1, StraightStep
  <2>2. CASE k # l
    <3>1. pc'[k] = "loop"
      BY <1>1, <1>3, <2>2, Alone, Local DEF SameLcore
    <3>. QED BY <3>1 DEF Straight, InDriver
  <2>. QED BY <2>1, <2>2
<1>. QED BY <1>2, <1>3, Steps

LEMMA InitUnflooded == Init => Unflooded
<1>. SUFFICES ASSUME Init PROVE Unflooded
  OBVIOUS
<1>. QED BY DEF Init, Unflooded, Straight, InDriver

-----------------------------------------------------------------------------
(* Ownership, step by step: each lemma says what becomes of a tracked mbuf  *)
(* when a step moves buffers from one place to another.                     *)
OwnedOnly(g) == Pooled(g) \/ Used(g)

LEMMA PlacesDiffer ==
  ASSUME NEW l \in Lcores, NEW p \in Ports
  PROVE  /\ <<"rxq", p>> # <<"pkts_burst", l>> /\ <<"sw_ring", p>> # <<"pkts_burst", l>>
         /\ <<"pkts_burst", l>> # <<"tx_mbufs", <<l, p>>>>
         /\ <<"sw_ring", p>> # <<"tx_mbufs", <<l, p>>>>
         /\ <<"rxq", p>> # <<"sw_ring", p>>
OBVIOUS

(* Only TxPacket changes a sw_ring. *)
LEMMA SameRings ==
  ASSUME IInv, NEW l \in Lcores, LcoreStep(l), NEW p \in Ports, ~TxPacket(l)
  PROVE  txq'[p].sw_ring = txq[p].sw_ring
<1>1. txq \in [Ports -> TxQueues]
  BY DEF IInv, Types, RingTypes
<1>2. CASE Elsewhere(l)
  BY <1>2 DEF Elsewhere
<1>3. ASSUME NEW q \in Ports, NEW return \in Labels, TxBegin(l, q, return)
      PROVE  txq'[p].sw_ring = txq[p].sw_ring
  <2>1. PICK r \in {txq[q], Reclaim(txq[q])} : txq' = [txq EXCEPT ![q] = r]
    BY <1>3 DEF TxBegin
  <2>2. r.sw_ring = txq[q].sw_ring
    BY <1>1, <2>1, ReclaimTypes
  <2>. QED BY <1>1, <2>1, <2>2
<1>4. CASE TxEnd(l)
  <2>1. txq' = [txq EXCEPT ![portid[l]] = [txq[portid[l]] EXCEPT !.tx_tail = tx_id[l]]]
    BY <1>4 DEF TxEnd
  <2>2. portid[l] \in Ports
    BY <1>4, DriverAt DEF TxEnd, At, InDriver
  <2>3. [txq[portid[l]] EXCEPT !.tx_tail = tx_id[l]].sw_ring = txq[portid[l]].sw_ring
    BY <1>1, <2>2 DEF TxQueues
  <2>. QED BY <1>1, <2>1, <2>2, <2>3
<1>5. CASE TxReclaim(l)
  <2>1. portid[l] \in Ports /\ txq' = [txq EXCEPT ![portid[l]] = Reclaim(txq[portid[l]])]
    BY <1>5, DriverAt DEF TxReclaim, At, InDriver
  <2>2. Reclaim(txq[portid[l]]).sw_ring = txq[portid[l]].sw_ring
    BY <1>1, <2>1, ReclaimTypes
  <2>. QED BY <1>1, <2>1, <2>2
<1>. QED BY <1>2, <1>3, <1>4, <1>5, QueueSteps

(* Nothing moves. *)
LEMMA OwnersStay ==
  ASSUME NEW l \in Lcores, NEW g, OwnedOnly(g),
         UNCHANGED <<heap, rxq, pkts_burst, tx_mbufs>>,
         \A p \in Ports : txq'[p].sw_ring = txq[p].sw_ring
  PROVE  OwnedOnly(g)'
<1>. DEFINE x == <<"rxq", 0>>
            y == <<"pkts_burst", l>>
<1>1. x \in Places /\ y \in Places /\ x # y /\ 0 \in Ports
  BY PlaceKinds, PlacesDiffer, PortsAssumption
<1>2. \A z \in Places \ {x, y} : Held'[z] = Held[z]
  BY <1>1, OtherPlaces
<1>3. Held'[x] = Held[x] /\ Held'[y] = Held[y]
  BY <1>1, PlaceValues, PlaceValuesNext
<1>. HIDE DEF x, y
<1>. QED BY <1>1, <1>2, <1>3, OwnerKept DEF OwnedOnly

(* The current packet leaves the burst.  It is freed, ...                   *)
LEMMA OwnersDrop ==
  ASSUME IInv, NEW l \in Lcores, pkts_burst[l] # <<>>, DoneWithPacket(l),
         UNCHANGED <<rxq, tx_mbufs>>, \A p \in Ports : txq'[p].sw_ring = txq[p].sw_ring,
         heap' = FreePacket(heap, Current(l)),
         NEW g \in Mbufs, OwnedOnly(g), heap.next[Current(l)] # g
  PROVE  OwnedOnly(g)'
<1>. DEFINE x == <<"pkts_burst", l>>
            y == <<"rxq", 0>>
            s == pkts_burst[l]
<1>1. x \in Places /\ y \in Places /\ x # y /\ 0 \in Ports
  BY PlaceKinds, PlacesDiffer, PortsAssumption
<1>2. /\ pkts_burst'[l] = Tail(s) /\ \A k \in Lcores \ {l} : pkts_burst'[k] = pkts_burst[k]
      /\ Current(l) = Head(s) /\ Current(l) \in Mbufs /\ s \in Seq(PacketMbufs)
      /\ heap \in HeapType
  BY NextPacket, CurrentPacket DEF Current, IInv, Types, LcoreTypes, BufferTypes
<1>3. \A z \in Places \ {x, y} : Held'[z] = Held[z]
  BY <1>1, <1>2, OtherPlaces
<1>4. Held[x] = s /\ Held'[x] = Tail(s) /\ Held'[y] = Held[y]
  BY <1>1, <1>2, PlaceValues, PlaceValuesNext
<1>. HIDE DEF x, y, s
<1>5. CASE g # Head(s)
  <2>1. Num(Tail(s), g) = Num(s, g)
    BY <1>2, <1>5, NumTail DEF s
  <2>2. heap'.free[g] = heap.free[g] /\ heap'.refcnt[g] = heap.refcnt[g]
    BY <1>2, <1>5, FreePacketAt
  <2>. QED BY <1>1, <1>3, <1>4, <2>1, <2>2, OwnerKept DEF OwnedOnly
<1>6. CASE g = Head(s)
  <2>1. Num(s, g) # 0 /\ (Num(s, g) = 1 => Num(Tail(s), g) = 0)
    BY <1>2, <1>6, NumTail DEF s
  <2>2. Num(Held[x], g) = 1 /\ Num(Held[y], g) = 0
    BY <1>1, <1>4, <2>1, OneOwner DEF OwnedOnly
  <2>3. Num(Held'[x], g) = 0 /\ Num(Held'[y], g) = 0
    BY <1>4, <2>1, <2>2
  <2>4. /\ heap'.refcnt[g] = heap.refcnt[g] - 1
        /\ heap'.free[g] = IF heap.refcnt[g] = 1 THEN heap.free[g] + 1 ELSE heap.free[g]
    BY <1>2, <1>6, FreePacketAt
  <2>5. /\ Num(Held[x], g) + Num(Held[y], g) # 0
        /\ Num(Held'[x], g) + Num(Held'[y], g) = 0
    BY <2>2, <2>3
  <2>. QED BY <1>1, <1>3, <2>4, <2>5, OwnerFrees DEF OwnedOnly
<1>. QED BY <1>5, <1>6

(* ... put in a transmit buffer, ...                                        *)
LEMMA OwnersSend ==
  ASSUME IInv, NEW l \in Lcores, pkts_burst[l] # <<>>, DoneWithPacket(l), NEW q \in Ports,
         tx_mbufs' = [tx_mbufs EXCEPT ![l][q] = Append(@, Current(l))],
         UNCHANGED <<heap, rxq>>, \A p \in Ports : txq'[p].sw_ring = txq[p].sw_ring,
         NEW g \in Mbufs, OwnedOnly(g)
  PROVE  OwnedOnly(g)'
<1>. DEFINE x == <<"pkts_burst", l>>
            y == <<"tx_mbufs", <<l, q>>>>
            s == pkts_burst[l]
            t == tx_mbufs[l][q]
            m == Current(l)
<1>1. x \in Places /\ y \in Places /\ x # y
  BY PlaceKinds, PlacesDiffer
<1>2. /\ pkts_burst'[l] = Tail(s) /\ \A k \in Lcores \ {l} : pkts_burst'[k] = pkts_burst[k]
      /\ m = Head(s) /\ m \in Mbufs /\ s \in Seq(PacketMbufs)
      /\ tx_mbufs \in [Lcores -> [Ports -> Seq(Mbufs)]] /\ t \in Seq(Mbufs)
  BY NextPacket, CurrentPacket DEF Current, IInv, Types, LcoreTypes
<1>3. Append(t, m) \in Seq(Mbufs) /\ tx_mbufs' = [tx_mbufs EXCEPT ![l][q] = Append(t, m)]
  BY <1>2
<1>. HIDE DEF s, m
<1>4. /\ tx_mbufs'[l][q] = Append(t, m)
      /\ \A k \in Lcores, p \in Ports : k # l \/ p # q => tx_mbufs'[k][p] = tx_mbufs[k][p]
  BY <1>2, <1>3, BufferAt
<1>5. \A z \in Places \ {x, y} : Held'[z] = Held[z]
  <2>1. \A k \in Lcores : <<"pkts_burst", k>> \notin {x, y} => pkts_burst'[k] = pkts_burst[k]
    BY <1>2
  <2>2. \A k \in Lcores, p \in Ports :
          <<"tx_mbufs", <<k, p>>>> \notin {x, y} => tx_mbufs'[k][p] = tx_mbufs[k][p]
    BY <1>4
  <2>. HIDE DEF x, y
  <2>. QED BY <1>1, <2>1, <2>2, OtherPlaces
<1>6. Held[x] = s /\ Held'[x] = Tail(s) /\ Held[y] = t /\ Held'[y] = Append(t, m)
  BY <1>1, <1>2, <1>4, PlaceValues, PlaceValuesNext DEF s
<1>. HIDE DEF x, y, t
<1>7. CASE g # m
  <2>1. Num(Tail(s), g) = Num(s, g)
    BY <1>2, <1>7, NumTail DEF s
  <2>2. Num(Append(t, m), g) = Num(t, g)
    BY <1>2, <1>7, NumAppend
  <2>. QED BY <1>1, <1>5, <1>6, <2>1, <2>2, OwnerKept DEF OwnedOnly
<1>8. CASE g = m
  <2>1. Num(s, g) # 0 /\ (Num(s, g) = 1 => Num(Tail(s), g) = 0)
    BY <1>2, <1>8, NumTail DEF s
  <2>2. Num(s, g) = 1 /\ Num(t, g) = 0
    BY <1>1, <1>6, <2>1, OneOwner DEF OwnedOnly
  <2>3. Num(Append(t, m), g) = 1
    BY <1>2, <1>8, <2>2, NumAppend
  <2>4. Num(Held'[x], g) + Num(Held'[y], g) = Num(Held[x], g) + Num(Held[y], g)
    BY <1>6, <2>1, <2>2, <2>3
  <2>. QED BY <1>1, <1>5, <2>4, OwnerKept DEF OwnedOnly
<1>. QED BY <1>7, <1>8

(* ... or, flooded, is only forgotten. *)
LEMMA OwnersForget ==
  ASSUME IInv, NEW l \in Lcores, pkts_burst[l] # <<>>, DoneWithPacket(l),
         UNCHANGED <<heap, rxq, tx_mbufs>>, \A p \in Ports : txq'[p].sw_ring = txq[p].sw_ring,
         NEW g \in Mbufs, OwnedOnly(g), g # Current(l)
  PROVE  OwnedOnly(g)'
<1>. DEFINE x == <<"pkts_burst", l>>
            y == <<"rxq", 0>>
            s == pkts_burst[l]
<1>1. x \in Places /\ y \in Places /\ x # y /\ 0 \in Ports
  BY PlaceKinds, PlacesDiffer, PortsAssumption
<1>2. /\ pkts_burst'[l] = Tail(s) /\ \A k \in Lcores \ {l} : pkts_burst'[k] = pkts_burst[k]
      /\ Current(l) = Head(s) /\ s \in Seq(PacketMbufs)
  BY NextPacket DEF Current, IInv, Types, LcoreTypes
<1>3. \A z \in Places \ {x, y} : Held'[z] = Held[z]
  BY <1>1, <1>2, OtherPlaces
<1>4. Held[x] = s /\ Held'[x] = Tail(s) /\ Held'[y] = Held[y]
  BY <1>1, <1>2, PlaceValues, PlaceValuesNext
<1>5. Num(Tail(s), g) = Num(s, g)
  BY <1>2, NumTail
<1>. HIDE DEF x, y, s
<1>. QED BY <1>1, <1>3, <1>4, <1>5, OwnerKept DEF OwnedOnly

(* A header comes out of its pool and into a transmit buffer. *)
LEMMA OwnersHeader ==
  ASSUME IInv, NEW l \in Lcores, NEW q \in Ports, NEW h \in Mbufs, heap.free[h] > 0, NEW n,
         Chained(heap', heap, h, n),
         tx_mbufs' = [tx_mbufs EXCEPT ![l][q] = Append(@, h)],
         UNCHANGED <<pkts_burst, rxq>>, \A p \in Ports : txq'[p].sw_ring = txq[p].sw_ring,
         NEW g \in Mbufs, OwnedOnly(g)
  PROVE  OwnedOnly(g)'
<1>. DEFINE x == <<"tx_mbufs", <<l, q>>>>
            y == <<"pkts_burst", l>>
            t == tx_mbufs[l][q]
<1>1. x \in Places /\ y \in Places /\ x # y
  BY PlaceKinds, PlacesDiffer
<1>2. tx_mbufs \in [Lcores -> [Ports -> Seq(Mbufs)]] /\ t \in Seq(Mbufs) /\ heap \in HeapType
  BY DEF IInv, Types, LcoreTypes, BufferTypes
<1>3. Append(t, h) \in Seq(Mbufs) /\ tx_mbufs' = [tx_mbufs EXCEPT ![l][q] = Append(t, h)]
  BY <1>2
<1>4. /\ tx_mbufs'[l][q] = Append(t, h)
      /\ \A k \in Lcores, p \in Ports : k # l \/ p # q => tx_mbufs'[k][p] = tx_mbufs[k][p]
  BY <1>2, <1>3, BufferAt
<1>5. \A z \in Places \ {x, y} : Held'[z] = Held[z]
  BY <1>1, <1>4, OtherPlaces
<1>6. Held[x] = t /\ Held'[x] = Append(t, h) /\ Held'[y] = Held[y]
  BY <1>1, <1>4, PlaceValues, PlaceValuesNext
<1>7. /\ h # g => heap'.refcnt[g] = heap.refcnt[g] /\ heap'.free[g] = heap.free[g]
      /\ h = g => heap'.refcnt[g] = 1 /\ heap'.free[g] = heap.free[g] - 1
  <2>1. heap \in HeapType /\ Chained(heap', heap, h, n)
    BY <1>2
  <2>2. ASSUME h # g
        PROVE  heap'.refcnt[g] = heap.refcnt[g] /\ heap'.free[g] = heap.free[g]
    BY <2>1, <2>2, AllocMbufAt
  <2>3. ASSUME h = g
        PROVE  heap'.refcnt[g] = 1 /\ heap'.free[g] = heap.free[g] - 1
    BY <2>1, <2>3, AllocMbufAt
  <2>. QED BY <2>2, <2>3
<1>. HIDE DEF x, y, t
<1>8. CASE g # h
  <2>1. Num(Append(t, h), g) = Num(t, g)
    BY <1>2, <1>8, NumAppend
  <2>2. heap'.refcnt[g] = heap.refcnt[g] /\ heap'.free[g] = heap.free[g]
    BY <1>7, <1>8
  <2>3. Num(Held'[x], g) + Num(Held'[y], g) = Num(Held[x], g) + Num(Held[y], g)
    BY <1>6, <2>1
  <2>. QED BY <1>1, <1>5, <2>2, <2>3, OwnerKept DEF OwnedOnly
<1>9. CASE g = h
  <2>1. Num(Held[x], g) = 0 /\ Num(Held[y], g) = 0 =>
          Num(Held'[x], g) + Num(Held'[y], g) = 1
    <3>1. Num(t, g) = 0 => Num(Append(t, h), g) = 1
      BY <1>2, <1>9, NumAppend
    <3>. QED BY <1>6, <3>1
  <2>. QED BY <1>1, <1>5, <1>7, <1>9, <2>1, OwnerTakes DEF OwnedOnly
<1>. QED BY <1>8, <1>9

(* A flooded frame that finds no header is freed, and stays in the burst.   *)
LEMMA OwnersUnflooded ==
  ASSUME IInv, NEW l \in Lcores, pkts_burst[l] # <<>>,
         heap' = FreePacket(heap, Current(l)), UNCHANGED <<rxq, tx_mbufs, pkts_burst>>,
         \A p \in Ports : txq'[p].sw_ring = txq[p].sw_ring,
         NEW g \in Mbufs, OwnedOnly(g), heap.next[Current(l)] # g, g # Current(l)
  PROVE  OwnedOnly(g)'
<1>. DEFINE x == <<"rxq", 0>>
            y == <<"pkts_burst", l>>
<1>1. x \in Places /\ y \in Places /\ x # y /\ 0 \in Ports
  BY PlaceKinds, PlacesDiffer, PortsAssumption
<1>2. \A z \in Places \ {x, y} : Held'[z] = Held[z]
  BY <1>1, OtherPlaces
<1>3. Held'[x] = Held[x] /\ Held'[y] = Held[y]
  BY <1>1, PlaceValues, PlaceValuesNext
<1>4. heap'.free[g] = heap.free[g] /\ heap'.refcnt[g] = heap.refcnt[g]
  BY CurrentPacket, FreePacketAt DEF IInv, Types, BufferTypes
<1>. HIDE DEF x, y
<1>. QED BY <1>1, <1>2, <1>3, <1>4, OwnerKept DEF OwnedOnly

(* The driver returns the posted mbuf, and posts one of the pool. *)
LEMMA OwnersReceive ==
  ASSUME IInv, NEW l \in Lcores, NEW p \in Ports, NEW n \in PacketMbufs, heap.free[n] > 0,
         Posted(heap', heap, n, rxq[p][1], Null),
         pkts_burst' = [pkts_burst EXCEPT ![l] = Append(@, rxq[p][1])],
         rxq' = [rxq EXCEPT ![p] = <<n>>],
         UNCHANGED tx_mbufs, \A q \in Ports : txq'[q].sw_ring = txq[q].sw_ring,
         NEW g \in Mbufs, OwnedOnly(g)
  PROVE  OwnedOnly(g)'
<1>. DEFINE x == <<"rxq", p>>
            y == <<"pkts_burst", l>>
            s == pkts_burst[l]
            r == rxq[p][1]
<1>1. x \in Places /\ y \in Places /\ x # y
  BY PlaceKinds, PlacesDiffer
<1>2. /\ heap \in HeapType /\ s \in Seq(PacketMbufs) /\ n \in Mbufs
      /\ rxq \in [Ports -> Seq(PacketMbufs)] /\ pkts_burst \in [Lcores -> Seq(PacketMbufs)]
  BY MbufsAssumption DEF IInv, Types, LcoreTypes, BufferTypes, RingTypes
<1>3. r \in PacketMbufs /\ r \in Mbufs /\ rxq[p] = <<r>>
  <2>1. rxq[p] \in Seq(PacketMbufs) /\ Len(rxq[p]) = 1
    BY DEF IInv, Types, RingTypes
  <2>2. ASSUME NEW t \in Seq(PacketMbufs), Len(t) = 1
        PROVE  t[1] \in PacketMbufs /\ t = <<t[1]>>
    BY <2>2
  <2>. QED BY <2>1, <2>2, MbufsAssumption
<1>. HIDE DEF s, r
<1>4. /\ rxq'[p] = <<n>> /\ \A q \in Ports \ {p} : rxq'[q] = rxq[q]
      /\ pkts_burst'[l] = Append(s, r) /\ \A k \in Lcores \ {l} : pkts_burst'[k] = pkts_burst[k]
  BY <1>2 DEF s, r
<1>5. \A z \in Places \ {x, y} : Held'[z] = Held[z]
  <2>1. \A k \in Lcores : <<"pkts_burst", k>> \notin {x, y} => pkts_burst'[k] = pkts_burst[k]
    BY <1>4
  <2>2. \A q \in Ports : <<"rxq", q>> \notin {x, y} => rxq'[q] = rxq[q]
    BY <1>4
  <2>. HIDE DEF x, y
  <2>. QED BY <1>1, <2>1, <2>2, OtherPlaces
<1>6. Held[x] = <<r>> /\ Held'[x] = <<n>> /\ Held[y] = s /\ Held'[y] = Append(s, r)
  BY <1>3, <1>4, PlaceValues, PlaceValuesNext DEF s
<1>. HIDE DEF x, y
<1>7. /\ Num(<<r>>, g) = (IF g = r THEN 1 ELSE 0)
      /\ Num(<<n>>, g) = (IF g = n THEN 1 ELSE 0)
  BY <1>3, NumSingle
<1>8. /\ g # r => Num(Append(s, r), g) = Num(s, g)
      /\ g = r /\ Num(s, g) = 0 => Num(Append(s, r), g) = 1
  BY <1>2, <1>3, NumAppend DEF s
<1>9. CASE g = n
  <2>1. heap'.refcnt[g] = 1 /\ heap'.free[g] = heap.free[g] - 1
    BY <1>2, <1>3, <1>9, RawAllocAt DEF r
  <2>2. Num(Held[x], g) = 0 /\ Num(Held[y], g) = 0 =>
          Num(Held'[x], g) + Num(Held'[y], g) = 1
    BY <1>6, <1>7, <1>8, <1>9
  <2>. QED BY <1>1, <1>5, <1>9, <2>1, <2>2, OwnerTakes DEF OwnedOnly
<1>10. CASE g # n
  <2>1. heap'.refcnt[g] = heap.refcnt[g] /\ heap'.free[g] = heap.free[g]
    BY <1>2, <1>3, <1>10, RawAllocAt DEF r
  <2>2. Num(Held'[x], g) + Num(Held'[y], g) = Num(Held[x], g) + Num(Held[y], g)
    <3>1. CASE g = r
      <4>1. Num(Held[x], g) = 1
        BY <1>6, <1>7, <3>1
      <4>2. Num(Held[y], g) = 0
        BY <1>1, <4>1, OneOwner DEF OwnedOnly
      <4>. QED BY <1>6, <1>7, <1>8, <1>10, <3>1, <4>1, <4>2
    <3>2. CASE g # r
      BY <1>6, <1>7, <1>8, <1>10, <3>2
    <3>. QED BY <3>1, <3>2
  <2>. QED BY <1>1, <1>5, <2>1, <2>2, OwnerKept DEF OwnedOnly
<1>. QED BY <1>9, <1>10

(* What the driver has not taken is freed. *)
LEMMA OwnersUnsent ==
  ASSUME IInv, NEW l \in Lcores, InDriver(l), Sending(l) # <<>>,
         heap' = FreePacket(heap, Head(Sending(l))), Remaining(l, Tail(Sending(l))),
         UNCHANGED <<rxq, pkts_burst>>, \A p \in Ports : txq'[p].sw_ring = txq[p].sw_ring,
         NEW g \in Mbufs, OwnedOnly(g), heap.next[Head(Sending(l))] # g
  PROVE  OwnedOnly(g)'
<1>. DEFINE q == portid[l]
            s == Sending(l)
            x == <<"tx_mbufs", <<l, q>>>>
            y == <<"pkts_burst", l>>
<1>0. q \in Ports /\ s = tx_mbufs[l][q] /\ s \in Seq(Mbufs)
  BY DriverAt
<1>1. x \in Places /\ y \in Places /\ x # y
  BY <1>0, PlaceKinds, PlacesDiffer
<1>2. /\ tx_mbufs \in [Lcores -> [Ports -> Seq(Mbufs)]] /\ Tail(s) \in Seq(Mbufs)
      /\ Head(s) \in Mbufs /\ heap \in HeapType
      /\ tx_mbufs' = [tx_mbufs EXCEPT ![l][q] = Tail(s)]
  BY <1>0, HeadTail DEF IInv, Types, LcoreTypes, BufferTypes, Remaining
<1>. HIDE DEF s, q
<1>3. /\ tx_mbufs'[l][q] = Tail(s)
      /\ \A k \in Lcores, p \in Ports : k # l \/ p # q => tx_mbufs'[k][p] = tx_mbufs[k][p]
  BY <1>0, <1>2, BufferAt
<1>4. \A z \in Places \ {x, y} : Held'[z] = Held[z]
  BY <1>1, <1>3, OtherPlaces
<1>5. Held[x] = s /\ Held'[x] = Tail(s) /\ Held'[y] = Held[y]
  BY <1>0, <1>1, <1>3, PlaceValues, PlaceValuesNext
<1>. HIDE DEF x, y
<1>6. CASE g # Head(s)
  <2>1. Num(Tail(s), g) = Num(s, g)
    BY <1>0, <1>6, NumTail DEF s
  <2>2. heap'.free[g] = heap.free[g] /\ heap'.refcnt[g] = heap.refcnt[g]
    BY <1>2, <1>6, FreePacketAt DEF s
  <2>3. Num(Held'[x], g) + Num(Held'[y], g) = Num(Held[x], g) + Num(Held[y], g)
    BY <1>5, <2>1
  <2>. QED BY <1>1, <1>4, <2>2, <2>3, OwnerKept DEF OwnedOnly
<1>7. CASE g = Head(s)
  <2>1. Num(s, g) # 0 /\ (Num(s, g) = 1 => Num(Tail(s), g) = 0)
    BY <1>0, <1>7, NumTail DEF s
  <2>2. Num(Held[x], g) = 1 /\ Num(Held[y], g) = 0
    BY <1>1, <1>5, <2>1, OneOwner DEF OwnedOnly
  <2>3. Num(Held'[x], g) = 0 /\ Num(Held'[y], g) = 0
    BY <1>5, <2>1, <2>2
  <2>4. /\ heap'.refcnt[g] = heap.refcnt[g] - 1
        /\ heap'.free[g] = IF heap.refcnt[g] = 1 THEN heap.free[g] + 1 ELSE heap.free[g]
    BY <1>2, <1>7, FreePacketAt DEF s
  <2>5. /\ Num(Held[x], g) + Num(Held[y], g) # 0
        /\ Num(Held'[x], g) + Num(Held'[y], g) = 0
    BY <2>2, <2>3
  <2>. QED BY <1>1, <1>4, <2>4, <2>5, OwnerFrees DEF OwnedOnly
<1>. QED BY <1>6, <1>7

(* One descriptor of a packet, seen from one mbuf: the heap h and the ring  *)
(* f become i and r.                                                        *)
LEMMA Replaced ==
  ASSUME NEW h \in HeapType, NEW f \in [Descs -> Mbufs \cup {Null}], NEW d \in Descs,
         NEW v \in Mbufs \cup {Null}, NEW g \in Mbufs, g # v,
         NEW i, i = FreeEntry(h, f[d]), NEW r, r = Put(f, d, v)
  PROVE  /\ i \in HeapType /\ r \in [Descs -> Mbufs \cup {Null}]
         /\ g # f[d] => /\ Num(r, g) = Num(f, g)
                        /\ i.refcnt[g] = h.refcnt[g] /\ i.free[g] = h.free[g]
         /\ g = f[d] /\ Num(f, g) = 1 =>
              /\ Num(r, g) = 0
              /\ i.refcnt[g] = h.refcnt[g] - 1
              /\ i.free[g] = IF h.refcnt[g] = 1 THEN h.free[g] + 1 ELSE h.free[g]
<1>1. f[d] \in Mbufs \cup {Null}
  OBVIOUS
<1>2. i \in HeapType /\ r \in [Descs -> Mbufs \cup {Null}]
  BY <1>1, EntryTypes, PutIs
<1>3. /\ g # f[d] => i.refcnt[g] = h.refcnt[g] /\ i.free[g] = h.free[g]
      /\ g = f[d] => /\ i.refcnt[g] = h.refcnt[g] - 1
                     /\ i.free[g] = IF h.refcnt[g] = 1 THEN h.free[g] + 1 ELSE h.free[g]
  BY <1>1, FreeAt
<1>4. /\ g # f[d] => Num(r, g) = Num(f, g)
      /\ g = f[d] /\ Num(f, g) = 1 => Num(r, g) = 0
  BY NumPut
<1>. QED BY <1>2, <1>3, <1>4

(* The driver takes the first packet of a transmit buffer: what it writes,  *)
(* and whom it frees.                                                       *)
Written(l) ==
  LET ring == txq[portid[l]].sw_ring
      d == tx_id[l]
      m == Head(Sending(l))
  IN IF heap.next[m] = Null THEN Put(ring, d, m)
                            ELSE Put(Put(ring, d, m), NextDesc(d), heap.next[m])
Cleaned(l) ==
  LET ring == txq[portid[l]].sw_ring
      d == tx_id[l]
      m == Head(Sending(l))
  IN IF heap.next[m] = Null THEN FreeEntry(heap, ring[d])
                            ELSE FreeEntry(FreeEntry(heap, ring[d]), ring[NextDesc(d)])
LEMMA Filled ==
  ASSUME IInv, NEW l \in Lcores, TxPacket(l)
  PROVE  /\ portid[l] \in Ports /\ tx_id[l] \in Descs /\ Head(Sending(l)) \in Mbufs
         /\ Sending(l) \in Seq(Mbufs) /\ Sending(l) # <<>>
         /\ Sending(l) = tx_mbufs[l][portid[l]]
         /\ pc[l] = "tx" /\ txq[portid[l]] \in TxQueues
         /\ tx_mbufs'[l][portid[l]] = Tail(Sending(l))
         /\ \A k \in Lcores, q \in Ports :
              k # l \/ q # portid[l] => tx_mbufs'[k][q] = tx_mbufs[k][q]
         /\ \A q \in Ports \ {portid[l]} : txq'[q] = txq[q]
         /\ txq'[portid[l]].sw_ring = Written(l)
         /\ heap' = Cleaned(l)
<1>. DEFINE p == portid[l]
            d == tx_id[l]
            s == Sending(l)
            m == Head(s)
<1>1. /\ pc[l] = "tx" /\ InDriver(l) /\ s # <<>> /\ NbSegs(heap, m) <= txq[p].nb_tx_free
      /\ txq' = [txq EXCEPT ![p] = Fill(txq[p], d, m)]
      /\ heap' = (IF heap.next[m] = Null THEN FreeEntry(heap, txq[p].sw_ring[d])
                    ELSE FreeEntry(FreeEntry(heap, txq[p].sw_ring[d]), txq[p].sw_ring[NextDesc(d)]))
      /\ tx_mbufs' = [tx_mbufs EXCEPT ![l][p] = Tail(s)]
  BY DEF TxPacket, At, InDriver, Remaining
<1>2. /\ p \in Ports /\ d \in Descs /\ s \in Seq(Mbufs) /\ s = tx_mbufs[l][p]
      /\ txq[p] \in TxQueues /\ txq \in [Ports -> TxQueues] /\ heap \in HeapType
      /\ tx_mbufs \in [Lcores -> [Ports -> Seq(Mbufs)]]
  BY <1>1, DriverAt DEF IInv, Types, RingTypes, LcoreTypes, BufferTypes
<1>3. m \in Mbufs /\ Tail(s) \in Seq(Mbufs)
  BY <1>1, <1>2, HeadTail
<1>. HIDE DEF m, s, d, p
<1>4. /\ tx_mbufs'[l][p] = Tail(s)
      /\ \A k \in Lcores, q \in Ports : k # l \/ q # p => tx_mbufs'[k][q] = tx_mbufs[k][q]
  BY <1>1, <1>2, <1>3, BufferAt
<1>5. txq'[p].sw_ring = (IF heap.next[m] = Null THEN Put(txq[p].sw_ring, d, m)
                           ELSE Put(Put(txq[p].sw_ring, d, m), NextDesc(d), heap.next[m]))
  <2>1. txq'[p] = Fill(txq[p], d, m)
    BY <1>1, <1>2
  <2>2. Fill(txq[p], d, m).sw_ring =
          (IF heap.next[m] = Null THEN Put(txq[p].sw_ring, d, m)
             ELSE Put(Put(txq[p].sw_ring, d, m), NextDesc(d), heap.next[m]))
    BY <1>1, <1>2, <1>3, FillIs
  <2>. QED BY <2>1, <2>2
<1>6. \A q \in Ports \ {p} : txq'[q] = txq[q]
  BY <1>1, <1>2
<1>7. txq'[p].sw_ring = Written(l) /\ heap' = Cleaned(l)
  BY <1>1, <1>5 DEF Written, Cleaned, m, s, d, p
<1>. QED BY <1>1, <1>2, <1>3, <1>4, <1>6, <1>7 DEF m, s, d, p

LEMMA OwnersFill ==
  ASSUME IInv, NEW l \in Lcores, TxPacket(l), UNCHANGED <<rxq, pkts_burst>>,
         NEW g \in Mbufs, OwnedOnly(g), \A m \in Mbufs : heap.next[m] # g
  PROVE  OwnedOnly(g)'
<1>. DEFINE p == portid[l]
            d == tx_id[l]
            m == Head(Sending(l))
            s == Sending(l)
<1>1. /\ p \in Ports /\ d \in Descs /\ m \in Mbufs /\ s \in Seq(Mbufs) /\ s # <<>> /\ m = Head(s)
      /\ s = tx_mbufs[l][p] /\ txq[p] \in TxQueues /\ tx_mbufs'[l][p] = Tail(s)
      /\ \A k \in Lcores, q \in Ports : k # l \/ q # p => tx_mbufs'[k][q] = tx_mbufs[k][q]
      /\ \A q \in Ports \ {p} : txq'[q] = txq[q]
      /\ heap.next[m] = Null =>
           /\ txq'[p].sw_ring = Put(txq[p].sw_ring, d, m)
           /\ heap' = FreeEntry(heap, txq[p].sw_ring[d])
      /\ heap.next[m] # Null =>
           /\ txq'[p].sw_ring = Put(Put(txq[p].sw_ring, d, m), NextDesc(d), heap.next[m])
           /\ heap' = FreeEntry(FreeEntry(heap, txq[p].sw_ring[d]), txq[p].sw_ring[NextDesc(d)])
  BY Filled DEF Written, Cleaned
<1>. HIDE DEF p, d, m, s
<1>. DEFINE x == <<"sw_ring", p>>
            y == <<"tx_mbufs", <<l, p>>>>
            f == txq[p].sw_ring
            e == NextDesc(d)
            b == heap.next[m]
            r == txq'[p].sw_ring
            f1 == Put(f, d, m)
            h1 == FreeEntry(heap, f[d])
<1>2. x \in Places /\ y \in Places /\ x # y
  BY <1>1, PlaceKinds, PlacesDiffer
<1>3. \A z \in Places \ {x, y} : Held'[z] = Held[z]
  <2>1. \A q \in Ports : <<"sw_ring", q>> \notin {x, y} => txq'[q].sw_ring = txq[q].sw_ring
    BY <1>1
  <2>2. \A k \in Lcores, q \in Ports :
          <<"tx_mbufs", <<k, q>>>> \notin {x, y} => tx_mbufs'[k][q] = tx_mbufs[k][q]
    BY <1>1
  <2>. HIDE DEF x, y
  <2>. QED BY <1>2, <2>1, <2>2, OtherPlaces
<1>4. Held[x] = f /\ Held'[x] = r /\ Held[y] = s /\ Held'[y] = Tail(s)
  BY <1>1, PlaceValues, PlaceValuesNext
<1>5. /\ f \in [Descs -> Mbufs \cup {Null}] /\ heap \in HeapType /\ e \in Descs /\ e # d
      /\ b \in Mbufs \cup {Null} /\ b # g /\ m \in Mbufs \cup {Null}
  <2>1. e \in Descs /\ e # d
    <3>1. /\ 1 \in 0 .. NbTxDesc /\ d \in Int /\ NbTxDesc \in Int /\ NbTxDesc # 1 /\ NbTxDesc # 0
      BY <1>1, SizesAssumption DEF Descs
    <3>2. e = IF d + 1 < NbTxDesc THEN d + 1 ELSE (d + 1) - NbTxDesc
      BY <1>1, <3>1, Forward DEF NextDesc
    <3>3. e # d
      <4>. HIDE DEF e
      <4>. QED BY <3>1, <3>2
    <3>. QED BY <1>1, <3>3, DescTypes
  <2>2. f \in [Descs -> Mbufs \cup {Null}]
    BY <1>1 DEF TxQueues
  <2>3. heap \in HeapType /\ b \in Mbufs \cup {Null} /\ b # g
    BY <1>1 DEF IInv, Types, BufferTypes, HeapType
  <2>. QED BY <1>1, <2>1, <2>2, <2>3
<1>6. /\ b = Null => r = f1 /\ heap' = h1
      /\ b # Null => r = Put(f1, e, b) /\ heap' = FreeEntry(h1, f[e])
  BY <1>1
<1>7. /\ f1 \in [Descs -> Mbufs \cup {Null}] /\ f1[e] = f[e]
      /\ h1 \in HeapType
  <2>1. f[d] \in Mbufs \cup {Null}
    BY <1>1, <1>5
  <2>2. h1 \in HeapType
    <3>. HIDE DEF f
    <3>. QED BY <1>5, <2>1, EntryTypes
  <2>. HIDE DEF f, e, h1
  <2>3. f1 \in [Descs -> Mbufs \cup {Null}] /\ f1[e] = f[e]
    BY <1>1, <1>5, PutIs
  <2>. QED BY <2>2, <2>3
<1>. HIDE DEF x, y, f, e, b, r, f1, h1
(* the second descriptor, if there is one *)
<1>8. /\ b = Null \/ g # f[e] =>
           /\ Num(r, g) = Num(f1, g)
           /\ heap'.refcnt[g] = h1.refcnt[g] /\ heap'.free[g] = h1.free[g]
      /\ b # Null /\ g = f[e] /\ Num(f1, g) = 1 =>
           /\ Num(r, g) = 0
           /\ heap'.refcnt[g] = h1.refcnt[g] - 1
           /\ heap'.free[g] = IF h1.refcnt[g] = 1 THEN h1.free[g] + 1 ELSE h1.free[g]
  <2>1. CASE b = Null
    BY <1>6, <2>1
  <2>2. CASE b # Null
    <3>1. /\ g # f1[e] => /\ Num(r, g) = Num(f1, g)
                          /\ heap'.refcnt[g] = h1.refcnt[g] /\ heap'.free[g] = h1.free[g]
          /\ g = f1[e] /\ Num(f1, g) = 1 =>
               /\ Num(r, g) = 0
               /\ heap'.refcnt[g] = h1.refcnt[g] - 1
               /\ heap'.free[g] = IF h1.refcnt[g] = 1 THEN h1.free[g] + 1 ELSE h1.free[g]
      <4>1. r = Put(f1, e, b) /\ heap' = FreeEntry(h1, f1[e])
        BY <1>6, <1>7, <2>2
      <4>. QED BY <1>5, <1>7, <4>1, Replaced
    <3>. QED BY <1>7, <2>2, <3>1
  <2>. QED BY <2>1, <2>2
<1>9. CASE g = m
  <2>1. Num(s, g) # 0 /\ (Num(s, g) = 1 => Num(Tail(s), g) = 0)
    BY <1>1, <1>9, NumTail
  <2>2. Num(s, g) = 1 /\ Num(f, g) = 0
    BY <1>2, <1>4, <2>1, OneOwner DEF OwnedOnly
  <2>3. g # f[d] /\ g # f[e] /\ Num(f1, g) = 1
    BY <1>1, <1>5, <1>9, <2>2, NumPut DEF f1
  <2>4. h1.refcnt[g] = heap.refcnt[g] /\ h1.free[g] = heap.free[g]
    <3>1. f[d] \in Mbufs \cup {Null}
      BY <1>1, <1>5
    <3>. QED BY <1>5, <2>3, <3>1, FreeAt DEF h1
  <2>5. Num(Held'[x], g) + Num(Held'[y], g) = Num(Held[x], g) + Num(Held[y], g)
    BY <1>4, <1>8, <2>1, <2>2, <2>3
  <2>6. heap'.refcnt[g] = heap.refcnt[g] /\ heap'.free[g] = heap.free[g]
    BY <1>8, <2>3, <2>4
  <2>. QED BY <1>2, <1>3, <2>5, <2>6, OwnerKept DEF OwnedOnly
<1>10. CASE g # m
  <2>1. Num(Tail(s), g) = Num(s, g)
    BY <1>1, <1>10, NumTail
  <2>2. /\ g # f[d] => /\ Num(f1, g) = Num(f, g)
                       /\ h1.refcnt[g] = heap.refcnt[g] /\ h1.free[g] = heap.free[g]
        /\ g = f[d] /\ Num(f, g) = 1 =>
             /\ Num(f1, g) = 0
             /\ h1.refcnt[g] = heap.refcnt[g] - 1
             /\ h1.free[g] = IF heap.refcnt[g] = 1 THEN heap.free[g] + 1 ELSE heap.free[g]
    BY <1>1, <1>5, <1>10, Replaced DEF f1, h1
  <2>3. CASE g = f[d] \/ (b # Null /\ g = f[e])
    <3>1. Num(f, g) # 0
      BY <1>1, <1>5, <2>3, NumPut
    <3>2. Num(f, g) = 1 /\ Num(s, g) = 0
      BY <1>2, <1>4, <3>1, OneOwner DEF OwnedOnly
    <3>3. /\ Num(r, g) = 0
          /\ heap'.refcnt[g] = heap.refcnt[g] - 1
          /\ heap'.free[g] = IF heap.refcnt[g] = 1 THEN heap.free[g] + 1 ELSE heap.free[g]
      <4>1. CASE g = f[d]
        <5>1. Num(f1, g) = 0
          BY <2>2, <3>2, <4>1
        <5>2. g # f[e]
          BY <1>5, <1>7, <5>1, NumPut
        <5>. QED BY <1>8, <2>2, <3>2, <4>1, <5>1, <5>2
      <4>2. CASE g # f[d] /\ b # Null /\ g = f[e]
        BY <1>8, <2>2, <3>2, <4>2
      <4>. QED BY <2>3, <4>1, <4>2
    <3>4. /\ Num(Held[x], g) + Num(Held[y], g) # 0
          /\ Num(Held'[x], g) + Num(Held'[y], g) = 0
      BY <1>4, <2>1, <3>2, <3>3
    <3>. QED BY <1>2, <1>3, <3>3, <3>4, OwnerFrees DEF OwnedOnly
  <2>4. CASE g # f[d] /\ (b = Null \/ g # f[e])
    <3>1. Num(r, g) = Num(f, g) /\ heap'.refcnt[g] = heap.refcnt[g] /\ heap'.free[g] = heap.free[g]
      BY <1>8, <2>2, <2>4
    <3>2. Num(Held'[x], g) + Num(Held'[y], g) = Num(Held[x], g) + Num(Held[y], g)
      BY <1>4, <2>1, <3>1
    <3>. QED BY <1>2, <1>3, <3>1, <3>2, OwnerKept DEF OwnedOnly
  <2>. QED BY <2>3, <2>4
<1>. QED BY <1>9, <1>10

-----------------------------------------------------------------------------
(* Which of these happens. *)
LEMMA OutputCases ==
  ASSUME IInv, NEW l \in Lcores, Output(l)
  PROVE  /\ pkts_burst[l] # <<>> /\ ~TxPacket(l) /\ UNCHANGED rxq
         /\ \/ UNCHANGED <<heap, tx_mbufs, pkts_burst>>
            \/ heap' = FreePacket(heap, Current(l)) /\ DoneWithPacket(l) /\ UNCHANGED tx_mbufs
            \/ /\ \E p \in Ports : tx_mbufs' = [tx_mbufs EXCEPT ![l][p] = Append(@, Current(l))]
               /\ DoneWithPacket(l) /\ UNCHANGED heap
<1>1. pkts_burst[l] # <<>> /\ ~TxPacket(l) /\ UNCHANGED rxq
  BY DEF Output, TxPacket, At, Pipeline, IInv, Ready
<1>. DEFINE m == Current(l)
<1>2. PICK port \in OutputPorts(m) :
         CASE port = FLOOD_PORT ->
                /\ Goto(l, "flood")
                /\ portid' = [portid EXCEPT ![l] = 0]
                /\ UNCHANGED <<heap, txq, tx_mbufs, pkts_burst, tx_id, after, crashed>>
           [] port = DROP_PACKET ->
                /\ heap' = FreePacket(heap, m)
                /\ DoneWithPacket(l)
                /\ Goto(l, Resume(l))
                /\ UNCHANGED <<txq, tx_mbufs, portid, tx_id, after, crashed>>
           [] port = Absent ->
                /\ crashed' = TRUE
                /\ UNCHANGED <<heap, txq, tx_mbufs, pkts_burst, pc, portid, tx_id, after>>
           [] OTHER ->
                /\ SendSingle(l, m, port, Resume(l))
                /\ DoneWithPacket(l)
                /\ UNCHANGED <<heap, crashed>>
  BY DEF Output
<1>3. port \in Ports \cup {FLOOD_PORT, DROP_PACKET, Absent}
  BY DEF OutputPorts, Outputs
<1>. HIDE DEF m
<1>4. CASE port = FLOOD_PORT
  BY <1>1, <1>2, <1>4, ValuesAssumption
<1>5. CASE port = DROP_PACKET
  BY <1>1, <1>2, <1>5, ValuesAssumption DEF m
<1>6. CASE port = Absent
  BY <1>1, <1>2, <1>6, ValuesAssumption
<1>7. CASE port \notin {FLOOD_PORT, DROP_PACKET, Absent}
  <2>1. SendSingle(l, m, port, Resume(l)) /\ DoneWithPacket(l) /\ UNCHANGED heap
    BY <1>2, <1>7
  <2>2. tx_mbufs' = [tx_mbufs EXCEPT ![l][port] = Append(@, m)] /\ port \in Ports
    BY <1>3, <1>7, <2>1 DEF SendSingle
  <2>. QED BY <1>1, <2>1, <2>2 DEF m
<1>. QED BY <1>4, <1>5, <1>6, <1>7

LEMMA FloodCases ==
  ASSUME IInv, NEW l \in Lcores, FloodPort(l)
  PROVE  /\ pkts_burst[l] # <<>> /\ ~TxPacket(l) /\ UNCHANGED <<rxq, pkts_burst>>
         /\ portid[l] \in Ports /\ pc[l] = "flood"
         /\ \/ \E h \in HeaderMbufs :
                 /\ heap.free[h] > 0 /\ Chained(heap', heap, h, Current(l))
                 /\ tx_mbufs' = [tx_mbufs EXCEPT ![l][portid[l]] = Append(@, h)]
            \/ heap' = FreePacket(heap, Current(l)) /\ UNCHANGED tx_mbufs
<1>1. /\ pkts_burst[l] # <<>> /\ ~TxPacket(l) /\ UNCHANGED <<rxq, pkts_burst>> /\ pc[l] = "flood"
      /\ portid[l] \in Ports
  BY PortsAssumption DEF FloodPort, TxPacket, At, Pipeline, IInv, Ready
<1>. QED BY <1>1 DEF FloodPort, SendSingle, Available, Chained

LEMMA PlainSteps ==
  ASSUME IInv, NEW l \in Lcores,
         LoopTop(l) \/ DrainPort(l) \/ DrainDone(l) \/ RxDone(l) \/ LoopEnd(l) \/ Learn(l)
           \/ Insert(l) \/ Classify(l) \/ EnforceAllow(l) \/ Route(l) \/ TxReclaim(l) \/ TxEnd(l)
  PROVE  UNCHANGED <<heap, rxq, pkts_burst, tx_mbufs>> /\ ~TxPacket(l)
<1>1. CASE LoopTop(l) \/ DrainPort(l) \/ DrainDone(l) \/ RxDone(l) \/ LoopEnd(l) \/ Learn(l)
             \/ Insert(l) \/ Classify(l) \/ EnforceAllow(l)
  BY <1>1 DEF LoopTop, DrainPort, DrainDone, RxDone, LoopEnd, Learn, Insert, Classify,
           EnforceAllow, buffers, At, TxPacket
<1>2. CASE Route(l)
  BY <1>2 DEF Route, RouteTo, Crash, buffers, lcore, At, TxPacket
<1>3. CASE TxEnd(l)
  <2>1. UNCHANGED <<heap, rxq, pkts_burst, tx_mbufs>>
    BY <1>3 DEF TxEnd, buffers
  <2>2. ASSUME TxPacket(l) PROVE FALSE
    <3>1. Sending(l) # <<>> /\ tx_mbufs' = [tx_mbufs EXCEPT ![l][portid[l]] = Tail(Sending(l))]
      BY <2>2 DEF TxPacket, Remaining
    <3>2. /\ NbSegs(heap, Head(Sending(l))) > txq[portid[l]].nb_tx_free
          /\ NbSegs(heap, Head(Sending(l))) <= txq[portid[l]].nb_tx_free
      BY <1>3, <2>2, <3>1 DEF TxEnd, TxPacket
    <3>3. NbSegs(heap, Head(Sending(l))) \in Nat /\ txq[portid[l]].nb_tx_free \in Nat
      BY <2>2, DriverAt DEF TxPacket, At, InDriver, NbSegs, TxQueues
    <3>. QED BY <3>2, <3>3
  <2>. QED BY <2>1, <2>2
<1>4. CASE TxReclaim(l)
  <2>1. UNCHANGED <<heap, rxq, pkts_burst, tx_mbufs>>
    BY <1>4 DEF TxReclaim, buffers, lcore
  <2>2. ASSUME TxPacket(l) PROVE FALSE
    <3>1. /\ NbSegs(heap, Head(Sending(l))) > txq[portid[l]].nb_tx_free
          /\ NbSegs(heap, Head(Sending(l))) <= txq[portid[l]].nb_tx_free
      BY <1>4, <2>2 DEF TxReclaim, TxPacket
    <3>2. NbSegs(heap, Head(Sending(l))) \in Nat /\ txq[portid[l]].nb_tx_free \in Nat
      BY <2>2, DriverAt DEF TxPacket, At, InDriver, NbSegs, TxQueues
    <3>. QED BY <3>1, <3>2
  <2>. QED BY <2>1, <2>2
<1>. QED BY <1>1, <1>2, <1>3, <1>4

(* A tracked mbuf through any step of a lcore. *)
LEMMA OwnedStep ==
  ASSUME IInv, Idle, Unflooded, LonePath, Chains, Owned, NEW l \in Lcores, LcoreStep(l),
         NEW g \in Tracked
  PROVE  OwnedOnly(g)'
<1>1. /\ g \in Mbufs /\ OwnedOnly(g) /\ \A m \in Mbufs : heap.next[m] # g
  BY MbufsAssumption DEF Tracked, Owned, Chains, OwnedOnly
<1>2. ASSUME ~TxPacket(l) PROVE \A p \in Ports : txq'[p].sw_ring = txq[p].sw_ring
  BY <1>2, SameRings
<1>3. CASE LoopTop(l) \/ DrainPort(l) \/ DrainDone(l) \/ RxDone(l) \/ LoopEnd(l) \/ Learn(l)
             \/ Insert(l) \/ Classify(l) \/ EnforceAllow(l) \/ Route(l) \/ TxReclaim(l) \/ TxEnd(l)
  BY <1>1, <1>2, <1>3, PlainSteps, OwnersStay
<1>4. CASE RxPacket(l)
  <2>1. PICK p \in Ports, f \in Frames, nmb \in PacketMbufs :
          /\ heap.free[nmb] > 0
          /\ heap' = [RawAlloc(heap, nmb) EXCEPT !.next[rxq[p][1]] = Null]
          /\ pkts_burst' = [pkts_burst EXCEPT ![l] = Append(@, rxq[p][1])]
          /\ rxq' = [rxq EXCEPT ![p] = <<nmb>>]
          /\ pc[l] = "rx" /\ UNCHANGED tx_mbufs
    BY <1>4, Received
  <2>2. ~TxPacket(l)
    BY <2>1 DEF TxPacket, At
  <2>3. Posted(heap', heap, nmb, rxq[p][1], Null)
    BY <2>1 DEF Posted
  <2>. QED BY <1>1, <1>2, <2>1, <2>2, <2>3, OwnersReceive
<1>5. CASE EnforceDrop(l)
  <2>1. /\ pkts_burst[l] # <<>> /\ DoneWithPacket(l) /\ heap' = FreePacket(heap, Current(l))
        /\ UNCHANGED <<rxq, tx_mbufs>> /\ ~TxPacket(l)
    BY <1>5 DEF EnforceDrop, TxPacket, At, Pipeline, IInv, Ready
  <2>. QED BY <1>1, <1>2, <2>1, CurrentPacket, OwnersDrop
<1>6. CASE Output(l)
  <2>1. /\ pkts_burst[l] # <<>> /\ \A p \in Ports : txq'[p].sw_ring = txq[p].sw_ring
        /\ heap.next[Current(l)] # g /\ UNCHANGED rxq
    BY <1>1, <1>2, <1>6, OutputCases, CurrentPacket
  <2>2. CASE UNCHANGED <<heap, tx_mbufs, pkts_burst>>
    BY <1>1, <2>1, <2>2, OwnersStay
  <2>3. CASE heap' = FreePacket(heap, Current(l)) /\ DoneWithPacket(l) /\ UNCHANGED tx_mbufs
    BY <1>1, <2>1, <2>3, OwnersDrop
  <2>4. CASE /\ \E p \in Ports : tx_mbufs' = [tx_mbufs EXCEPT ![l][p] = Append(@, Current(l))]
             /\ DoneWithPacket(l) /\ UNCHANGED heap
    BY <1>1, <2>1, <2>4, OwnersSend
  <2>. QED BY <1>6, <2>2, <2>3, <2>4, OutputCases
<1>7. CASE FloodPort(l)
  <2>1. /\ pkts_burst[l] # <<>> /\ \A p \in Ports : txq'[p].sw_ring = txq[p].sw_ring
        /\ heap.next[Current(l)] # g /\ UNCHANGED <<rxq, pkts_burst>> /\ portid[l] \in Ports
        /\ pc[l] = "flood"
    BY <1>1, <1>2, <1>7, FloodCases, CurrentPacket
  <2>2. g # Current(l)
    BY <2>1, CurrentPacket, MbufsAssumption DEF Unflooded, Clean, Straight, Tracked
  <2>3. ASSUME NEW h \in HeaderMbufs, heap.free[h] > 0, Chained(heap', heap, h, Current(l)),
               tx_mbufs' = [tx_mbufs EXCEPT ![l][portid[l]] = Append(@, h)]
        PROVE  OwnedOnly(g)'
    BY <1>1, <2>1, <2>3, MbufsAssumption, OwnersHeader
  <2>4. CASE heap' = FreePacket(heap, Current(l)) /\ UNCHANGED tx_mbufs
    BY <1>1, <2>1, <2>2, <2>4, OwnersUnflooded
  <2>. QED BY <1>7, <2>3, <2>4, FloodCases
<1>8. CASE FloodNext(l)
  <2>1. /\ pkts_burst[l] # <<>> /\ ~TxPacket(l) /\ UNCHANGED <<heap, rxq, tx_mbufs>>
        /\ pc[l] = "flooded" /\ (UNCHANGED pkts_burst \/ DoneWithPacket(l))
    BY <1>8 DEF FloodNext, TxPacket, At, Pipeline, IInv, Ready, buffers
  <2>2. g # Current(l)
    BY <2>1, CurrentPacket, MbufsAssumption DEF Unflooded, Clean, Straight, Tracked
  <2>3. CASE UNCHANGED pkts_burst
    BY <1>1, <1>2, <2>1, <2>3, OwnersStay
  <2>4. CASE DoneWithPacket(l)
    BY <1>1, <1>2, <2>1, <2>2, <2>4, OwnersForget
  <2>. QED BY <2>1, <2>3, <2>4
<1>9. CASE TxPacket(l)
  <2>1. UNCHANGED <<rxq, pkts_burst>>
    BY <1>9 DEF TxPacket
  <2>. QED BY <1>1, <1>9, <2>1, OwnersFill
<1>10. CASE FreeUnsent(l)
  <2>1. /\ InDriver(l) /\ heap' = FreePacket(heap, Head(Sending(l)))
        /\ Remaining(l, Tail(Sending(l))) /\ UNCHANGED <<rxq, pkts_burst>> /\ ~TxPacket(l)
        /\ pc[l] = "unsent"
    BY <1>10 DEF FreeUnsent, TxPacket, At, InDriver
  <2>2. Sending(l) # <<>>
    BY <2>1 DEF IInv, Ready, Sending
  <2>3. heap.next[Head(Sending(l))] # g
    BY <1>1, <2>1, <2>2, DriverAt, HeadTail
  <2>. QED BY <1>1, <1>2, <2>1, <2>2, <2>3, OwnersUnsent
<1>. QED BY <1>3, <1>4, <1>5, <1>6, <1>7, <1>8, <1>9, <1>10 DEF LcoreStep

(* No step chains an mbuf to a tracked one. *)
LEMMA ChainStep ==
  ASSUME IInv, Unflooded, LonePath, Chains, NEW l \in Lcores, LcoreStep(l), NEW m \in Mbufs
  PROVE  heap'.next[m] \notin Tracked
<1>1. heap \in HeapType /\ heap.next[m] \notin Tracked
  BY DEF IInv, Types, BufferTypes, Chains
<1>2. CASE heap'.next[m] = heap.next[m]
  BY <1>1, <1>2
<1>3. CASE LoopTop(l) \/ DrainPort(l) \/ DrainDone(l) \/ RxDone(l) \/ LoopEnd(l) \/ Learn(l)
             \/ Insert(l) \/ Classify(l) \/ EnforceAllow(l) \/ Route(l) \/ TxReclaim(l) \/ TxEnd(l)
  BY <1>2, <1>3, PlainSteps
<1>4. CASE RxPacket(l)
  <2>1. PICK p \in Ports, f \in Frames, nmb \in PacketMbufs :
          /\ rxq[p][1] \in PacketMbufs
          /\ heap' = [RawAlloc(heap, nmb) EXCEPT !.next[rxq[p][1]] = Null]
    BY <1>4, Received
  <2>2. Posted(heap', heap, nmb, rxq[p][1], Null)
    BY <2>1 DEF Posted
  <2>3. heap'.next[m] \in {Null, heap.next[m]}
    BY <1>1, <2>1, <2>2, RawAllocAt, MbufsAssumption
  <2>4. Null \notin Tracked
    BY NullAssumption, MbufsAssumption DEF Tracked
  <2>. QED BY <1>1, <2>3, <2>4
<1>5. CASE EnforceDrop(l)
  <2>1. pkts_burst[l] # <<>> /\ heap' = FreePacket(heap, Current(l))
    BY <1>5 DEF EnforceDrop, At, Pipeline, IInv, Ready
  <2>. QED BY <1>1, <1>2, <2>1, CurrentPacket, FreeTypes
<1>6. CASE Output(l)
  <2>1. pkts_burst[l] # <<>> /\ (UNCHANGED heap \/ heap' = FreePacket(heap, Current(l)))
    BY <1>6, OutputCases
  <2>. QED BY <1>1, <1>2, <2>1, CurrentPacket, FreeTypes
<1>7. CASE FloodPort(l)
  <2>1. pkts_burst[l] # <<>> /\ pc[l] = "flood" /\ Current(l) \in PacketMbufs
    BY <1>7, FloodCases, CurrentPacket
  <2>2. Current(l) \notin Tracked
    BY <2>1, MbufsAssumption DEF Unflooded, Clean, Straight, Tracked
  <2>3. ASSUME NEW h \in HeaderMbufs, Chained(heap', heap, h, Current(l))
        PROVE  heap'.next[m] \notin Tracked
    <3>1. heap'.next[m] \in {Current(l), heap.next[m]}
      BY <1>1, <2>3, AllocMbufAt, MbufsAssumption
    <3>. QED BY <1>1, <2>2, <3>1
  <2>4. CASE heap' = FreePacket(heap, Current(l))
    BY <1>1, <1>2, <2>1, <2>4, CurrentPacket, FreeTypes
  <2>. QED BY <1>7, <2>3, <2>4, FloodCases
<1>8. CASE FloodNext(l)
  BY <1>2, <1>8 DEF FloodNext, buffers
<1>9. CASE TxPacket(l)
  <2>1. heap' = Cleaned(l) /\ txq[portid[l]] \in TxQueues /\ tx_id[l] \in Descs
    BY <1>9, Filled
  <2>2. /\ txq[portid[l]].sw_ring[tx_id[l]] \in Mbufs \cup {Null}
        /\ txq[portid[l]].sw_ring[NextDesc(tx_id[l])] \in Mbufs \cup {Null}
    BY <2>1, DescTypes DEF TxQueues
  <2>. DEFINE h1 == FreeEntry(heap, txq[portid[l]].sw_ring[tx_id[l]])
              h2 == FreeEntry(h1, txq[portid[l]].sw_ring[NextDesc(tx_id[l])])
  <2>3. h1 \in HeapType /\ h1.next = heap.next
    BY <1>1, <2>2, EntryTypes
  <2>4. heap' = h1 \/ heap' = h2
    BY <2>1 DEF Cleaned
  <2>. HIDE DEF h1
  <2>5. h2.next = heap.next
    BY <2>2, <2>3, EntryTypes
  <2>. HIDE DEF h2
  <2>. QED BY <1>2, <2>3, <2>4, <2>5
<1>10. CASE FreeUnsent(l)
  <2>1. InDriver(l) /\ heap' = FreePacket(heap, Head(Sending(l))) /\ pc[l] = "unsent"
    BY <1>10 DEF FreeUnsent, At, InDriver
  <2>2. Sending(l) # <<>>
    BY <2>1 DEF IInv, Ready, Sending
  <2>. QED BY <1>1, <1>2, <2>1, <2>2, DriverAt, HeadTail, FreeTypes
<1>. QED BY <1>3, <1>4, <1>5, <1>6, <1>7, <1>8, <1>9, <1>10 DEF LcoreStep

(* The hardware, the timer and a crash move nothing. *)
LEMMA QuietOwners ==
  ASSUME IInv, Quiet, NEW g \in Mbufs, OwnedOnly(g)
  PROVE  OwnedOnly(g)' /\ heap' = heap
<1>1. UNCHANGED <<heap, rxq, pkts_burst, tx_mbufs>>
  BY QuietIs DEF buffers, lcore
<1>2. ASSUME NEW q \in Ports PROVE txq'[q].sw_ring = txq[q].sw_ring
  <2>1. txq \in [Ports -> TxQueues]
    BY DEF IInv, Types, RingTypes
  <2>2. CASE UNCHANGED txq
    BY <2>2
  <2>3. ASSUME NEW p \in Ports, txq' = [txq EXCEPT ![p].head = NextDesc(@)]
        PROVE  txq'[q].sw_ring = txq[q].sw_ring
    <3>1. [txq[p] EXCEPT !.head = NextDesc(@)].sw_ring = txq[p].sw_ring
      BY <2>1 DEF TxQueues
    <3>. QED BY <2>1, <2>3, <3>1
  <2>. QED BY <2>2, <2>3, QuietIs
<1>. DEFINE x == <<"rxq", 0>>
            y == <<"sw_ring", 0>>
<1>3. x \in Places /\ y \in Places /\ x # y /\ 0 \in Ports
  BY PlaceKinds, PortsAssumption
<1>4. \A z \in Places \ {x, y} : Held'[z] = Held[z]
  BY <1>1, <1>2, <1>3, OtherPlaces
<1>5. Held'[x] = Held[x] /\ Held'[y] = Held[y]
  BY <1>1, <1>2, <1>3, PlaceValues, PlaceValuesNext
<1>. HIDE DEF x, y
<1>. QED BY <1>1, <1>3, <1>4, <1>5, OwnerKept DEF OwnedOnly

LEMMA OwnedNext ==
  IInv /\ Idle /\ Unflooded /\ Chains /\ Owned /\ [Next]_vars => Owned' /\ Chains'
<1>. SUFFICES ASSUME IInv, Idle, Unflooded, Chains, Owned, [Next]_vars PROVE Owned' /\ Chains'
  OBVIOUS
<1>0. UNCHANGED conf
  BY Awake, Steps, QuietIs
<1>1. LonePath' = LonePath /\ Tracked' = Tracked /\ Tracked \subseteq Mbufs
  BY <1>0, SameTracked, MbufsAssumption DEF Tracked
<1>2. ASSUME LonePath, NEW g \in Tracked PROVE OwnedOnly(g)'
  <2>1. CASE Quiet
    BY <1>1, <1>2, <2>1, QuietOwners DEF Owned, OwnedOnly
  <2>. QED BY <1>2, <2>1, OwnedStep, Steps
<1>3. ASSUME LonePath, NEW m \in Mbufs PROVE heap'.next[m] \notin Tracked
  <2>1. CASE Quiet
    BY <1>3, <2>1, QuietIs DEF Chains, buffers
  <2>. QED BY <1>3, <2>1, ChainStep, Steps
<1>4. Owned'
  BY <1>1, <1>2 DEF Owned, OwnedOnly
<1>5. Chains'
  BY <1>1, <1>3 DEF Chains
<1>. QED BY <1>4, <1>5

LEMMA InitOwned == Init => Owned /\ Chains
<1>. SUFFICES ASSUME Init PROVE Owned /\ Chains
  OBVIOUS
<1>1. PICK post \in [Ports -> PacketMbufs] : Posting(post)
  BY DEF Init
<1>2. heap = [refcnt |-> [m \in Mbufs |-> IF m \in {post[p] : p \in Ports} THEN 1 ELSE 0],
              free |-> [m \in Mbufs |-> IF m \in {post[p] : p \in Ports} THEN 0 ELSE 1],
              next |-> [m \in Mbufs |-> Null]]
  BY <1>1 DEF Posting
<1>3. Tracked \subseteq Mbufs /\ Null \notin Tracked
  BY MbufsAssumption, NullAssumption DEF Tracked
<1>4. Chains
  BY <1>2, <1>3 DEF Chains
<1>5. \A p \in Ports : Held[<<"rxq", p>>] = <<post[p]>>
  BY <1>1, PlaceValues DEF Posting
<1>6. ASSUME NEW z \in Places, \A p \in Ports : z # <<"rxq", p>>
      PROVE  Held[z] = <<>> \/ Held[z] = [d \in Descs |-> Null]
  <2>1. ASSUME NEW p \in Ports, z = <<"sw_ring", p>> PROVE Held[z] = [d \in Descs |-> Null]
    <3>1. Held[z] = txq[p].sw_ring /\ txq[p] = EmptyTxQueue
      BY <2>1, PlaceValues DEF Init
    <3>2. EmptyTxQueue.sw_ring = [d \in Descs |-> Null]
      BY DEF EmptyTxQueue, Descs
    <3>. QED BY <3>1, <3>2
  <2>2. ASSUME NEW l \in Lcores, z = <<"pkts_burst", l>> PROVE Held[z] = <<>>
    <3>1. Held[z] = pkts_burst[l]
      BY <2>2, PlaceValues
    <3>. QED BY <3>1 DEF Init
  <2>3. ASSUME NEW l \in Lcores, NEW p \in Ports, z = <<"tx_mbufs", <<l, p>>>>
        PROVE  Held[z] = <<>>
    <3>1. Held[z] = tx_mbufs[l][p]
      BY <2>3, PlaceValues
    <3>. QED BY <3>1 DEF Init
  <2>. QED BY <1>6, <2>1, <2>2, <2>3, PlaceKinds
<1>7. ASSUME NEW g \in Mbufs, NEW z \in Places, \A p \in Ports : z # <<"rxq", p>>
      PROVE  Num(Held[z], g) = 0
  <2>1. Num(<<>>, g) = 0
    BY NumEmpty
  <2>2. Num([d \in Descs |-> Null], g) = 0
    BY <1>7, NullAssumption DEF Num, Zero
  <2>. QED BY <1>6, <1>7, <2>1, <2>2
<1>8. ASSUME NEW g \in Mbufs, NEW p \in Ports
      PROVE  Num(Held[<<"rxq", p>>], g) = IF g = post[p] THEN 1 ELSE 0
  BY <1>5, <1>8, NumSingle, MbufsAssumption
<1>9. ASSUME NEW g \in Mbufs PROVE OwnedOnly(g)
  <2>1. CASE \A p \in Ports : g # post[p]
    <3>1. heap.free[g] = 1 /\ heap.refcnt[g] = 0
      BY <1>2, <1>9, <2>1
    <3>2. Absence(Held, g)
      BY <1>7, <1>8, <1>9, <2>1 DEF Absence
    <3>. QED BY <3>1, <3>2 DEF OwnedOnly, Pooled
  <2>2. ASSUME NEW p \in Ports, g = post[p] PROVE OwnedOnly(g)
    <3>1. heap.free[g] = 0 /\ heap.refcnt[g] = 1
      BY <1>2, <1>9, <2>2
    <3>2. \A q \in Ports \ {p} : g # post[q]
      BY <1>1, <2>2 DEF Posting
    <3>. DEFINE x == <<"rxq", p>>
    <3>3. x \in Places /\ Num(Held[x], g) = 1
      BY <1>8, <2>2, PlaceKinds
    <3>4. ASSUME NEW z \in Places \ {x} PROVE Num(Held[z], g) = 0
      <4>1. CASE \A q \in Ports : z # <<"rxq", q>>
        BY <1>7, <4>1
      <4>2. ASSUME NEW q \in Ports, z = <<"rxq", q>> PROVE Num(Held[z], g) = 0
        <5>1. g # post[q]
          BY <3>2, <3>4, <4>2
        <5>. QED BY <1>8, <4>2, <5>1
      <4>. QED BY <4>1, <4>2
    <3>. HIDE DEF x
    <3>. QED BY <3>1, <3>3, <3>4 DEF OwnedOnly, Used, Once
  <2>. QED BY <2>1, <2>2
<1>10. Owned
  BY <1>3, <1>9 DEF Owned, OwnedOnly
<1>. QED BY <1>4, <1>10

(* The counting of the proof and the statement of the property.             *)
LEMMA OwnedMeans ==
  ASSUME NEW g, OwnedOnly(g)
  PROVE  \/ heap.free[g] = 1 /\ heap.refcnt[g] = 0 /\ Nowhere(g)
         \/ /\ heap.free[g] = 0 /\ heap.refcnt[g] = 1
            /\ \E x \in Places : \E j \in DOMAIN Contents(x) : OnlyIn(x, j, g)
<1>1. ASSUME NEW x \in Places
      PROVE  /\ Held[x] = Contents(x)
             /\ Num(Held[x], g) = 0 => \A k \in DOMAIN Contents(x) : Contents(x)[k] # g
             /\ Num(Held[x], g) = 1 => \E j \in DOMAIN Contents(x) :
                  \A k \in DOMAIN Contents(x) : Contents(x)[k] = g <=> k = j
  <2>1. Held[x] = Contents(x)
    BY DEF Held
  <2>. DEFINE f == Contents(x)
  <2>. HIDE DEF f
  <2>2. /\ Num(f, g) = 0 => \A k \in DOMAIN f : f[k] # g
        /\ Num(f, g) = 1 => \E j \in DOMAIN f : \A k \in DOMAIN f : f[k] = g <=> k = j
    BY DEF Num, Zero, One
  <2>. QED BY <2>1, <2>2 DEF f
<1>2. CASE Pooled(g)
  BY <1>1, <1>2 DEF Pooled, Absence, Nowhere
<1>3. CASE Used(g)
  <2>1. PICK x \in Places : Num(Held[x], g) = 1 /\ \A y \in Places \ {x} : Num(Held[y], g) = 0
    BY <1>3 DEF Used, Once
  <2>2. PICK j \in DOMAIN Contents(x) : \A k \in DOMAIN Contents(x) : Contents(x)[k] = g <=> k = j
    BY <1>1, <2>1
  <2>3. OnlyIn(x, j, g)
    <3>1. ASSUME NEW y \in Places, NEW k \in DOMAIN Contents(y)
          PROVE  Contents(y)[k] = g <=> (y = x /\ k = j)
      <4>1. CASE y = x
        BY <2>2, <3>1, <4>1
      <4>2. CASE y # x
        BY <1>1, <2>1, <3>1, <4>2
      <4>. QED BY <4>1, <4>2
    <3>. QED BY <3>1 DEF OnlyIn
  <2>. QED BY <1>3, <2>2, <2>3 DEF Used
<1>. QED BY <1>2, <1>3 DEF OwnedOnly

(* MbufsOwnedOnce: with one lcore, whatever the driver takes or leaves,     *)
(* every header buffer is in its pool without a reference or in exactly one *)
(* place with one, and so is every packet buffer unless frames are flooded. *)
THEOREM MbufsOwned == Spec => []MbufsOwnedOnce
<1>1. Owned => MbufsOwnedOnce
  <2>. SUFFICES ASSUME Owned PROVE MbufsOwnedOnce
    OBVIOUS
  <2>1. ASSUME LonePath, NEW g \in Tracked
        PROVE  \/ heap.free[g] = 1 /\ heap.refcnt[g] = 0 /\ Nowhere(g)
               \/ /\ heap.free[g] = 0 /\ heap.refcnt[g] = 1
                  /\ \E x \in Places : \E j \in DOMAIN Contents(x) : OnlyIn(x, j, g)
    <3>1. OwnedOnly(g)
      BY <2>1 DEF Owned, OwnedOnly
    <3>. QED BY <3>1, OwnedMeans
  <2>2. LonePath => OwnedOnce(Tracked)
    BY <2>1 DEF OwnedOnce
  <2>3. /\ HeaderMbufs \subseteq Tracked
        /\ Clean => PacketMbufs \subseteq Tracked /\ LonePath
    BY MbufsAssumption DEF Tracked, Clean
  <2>4. ASSUME LonePath, NEW ms \in SUBSET Tracked PROVE OwnedOnce(ms)
    BY <2>2, <2>4 DEF OwnedOnce
  <2>. QED BY <2>3, <2>4 DEF MbufsOwnedOnce, PacketsOwnedOnce, HeadersOwnedOnce
<1>2. Init => IInv /\ Idle /\ Unflooded /\ Chains /\ Owned
  BY InitIInv, InitIdle, InitUnflooded, InitOwned
<1>3. IInv /\ Idle /\ Unflooded /\ Chains /\ Owned /\ [Next]_vars =>
        IInv' /\ Idle' /\ Unflooded' /\ Chains' /\ Owned'
  BY NextIInv, IdleStep, UnfloodedStep, OwnedNext
<1>. QED BY <1>1, <1>2, <1>3, PTL DEF Spec

-----------------------------------------------------------------------------
(* Without flooding: what is on its way out of port p, ...                  *)
Learned(m) ==
  frame[m].src # Broadcast => \E u \in UpperBytes : Known(<<frame[m].src, u>>) # {}
Reaches(m, p) == \E u \in UpperBytes : p \in Known(<<frame[m].dst, u>>)
Fit(m, p) ==
  /\ m \in PacketMbufs /\ frame[m] \in FrameSet /\ hdrs[m] = <<>>
  /\ frame[m].flow # Forbidden /\ Reaches(m, p) /\ Learned(m)
Sent(l, p) == {InFlight(l, p)[k] : k \in DOMAIN InFlight(l, p)}
                \cup {tx_mbufs[l][p][k] : k \in DOMAIN tx_mbufs[l][p]}

(* ... and what a lcore has done with its burst.                            *)
Class(m) == IF frame[m].flow = Forbidden THEN FORBID ELSE ALLOW
Stage(l) ==
  /\ \A k \in DOMAIN pkts_burst[l] :
       k > 1 \/ pc[l] \notin {"enforce", "output"} => hdrs[pkts_burst[l][k]] = <<>>
  /\ pc[l] = "insert" =>
       \E u \in UpperBytes : entry[l] = <<<<frame[Current(l)].src, u>>, frame[Current(l)].port>>
  /\ pc[l] \in {"classify", "enforce", "route", "output"} => Learned(Current(l))
  /\ pc[l] = "enforce" => hdrs[Current(l)] = <<Class(Current(l))>>
  /\ pc[l] \in {"route", "output"} => frame[Current(l)].flow # Forbidden
  /\ pc[l] = "output" => \E q \in Ports : hdrs[Current(l)] = <<q>> /\ Reaches(Current(l), q)
Passage ==
  Clean => \A l \in Lcores : Stage(l) /\ \A p \in Ports : \A m \in Sent(l, p) : Fit(m, p)

(* Frames are numbered by arrival, and never overtake one another: those in *)
(* flight to a port (f), those buffered for it (t), those of the burst (b). *)
Ids == [m \in PacketMbufs |-> IF frame[m] \in FrameSet THEN frame[m].id ELSE 0]
Increasing(id, s) == \A j, k \in DOMAIN s : j < k => id[s[j]] < id[s[k]]
Before(id, s, t) == \A j \in DOMAIN s, k \in DOMAIN t : id[s[j]] < id[t[k]]
UpTo(id, s, n) == \A j \in DOMAIN s : id[s[j]] \in 0 .. n
Line(id, n, f, t, b) ==
  /\ Increasing(id, f) /\ Increasing(id, t) /\ Increasing(id, b)
  /\ Before(id, f, t) /\ Before(id, f, b) /\ Before(id, t, b)
  /\ UpTo(id, f, n) /\ UpTo(id, t, n) /\ UpTo(id, b, n)
Lines ==
  Clean => \A l \in Lcores, p \in Ports :
             Line(Ids, received, InFlight(l, p), tx_mbufs[l][p], pkts_burst[l])

(* t is s without its first entry, with m behind its last one, a part of it *)
(* from the front.                                                          *)
Cut(t, s) ==
  /\ 1 \in DOMAIN s /\ DOMAIN t \subseteq Int /\ DOMAIN s \subseteq Int
  /\ \A j \in DOMAIN t : j >= 1 /\ j + 1 \in DOMAIN s /\ t[j] = s[j + 1]
Grown(t, s, m) ==
  \E n \in Nat : /\ DOMAIN s = 1 .. n /\ DOMAIN t = 1 .. n + 1
                 /\ t[n + 1] = m /\ \A j \in 1 .. n : t[j] = s[j]
Front(t, s) == \A j \in DOMAIN t : j \in DOMAIN s /\ t[j] = s[j]

LEMMA TailCuts ==
  ASSUME NEW S, NEW s \in Seq(S), s # <<>>
  PROVE  Cut(Tail(s), s) /\ Head(s) = s[1]
<1>1. /\ Len(s) \in Nat \ {0} /\ DOMAIN s = 1 .. Len(s) /\ Head(s) = s[1]
      /\ DOMAIN Tail(s) = 1 .. Len(s) - 1
      /\ \A k \in 1 .. Len(s) - 1 : Tail(s)[k] = s[k + 1]
  BY HeadTail
<1>2. 1 \in DOMAIN s /\ DOMAIN s \subseteq Int /\ DOMAIN Tail(s) \subseteq Int
  BY <1>1
<1>3. ASSUME NEW j \in DOMAIN Tail(s)
      PROVE  j >= 1 /\ j + 1 \in DOMAIN s /\ Tail(s)[j] = s[j + 1]
  BY <1>1, <1>3
<1>. QED BY <1>1, <1>2, <1>3 DEF Cut

LEMMA AppendGrows ==
  ASSUME NEW S, NEW s \in Seq(S), NEW m \in S
  PROVE  Grown(Append(s, m), s, m)
<1>1. /\ DOMAIN Append(s, m) = 1 .. Len(s) + 1 /\ DOMAIN s = 1 .. Len(s) /\ Len(s) \in Nat
      /\ \A k \in 1 .. Len(s) : Append(s, m)[k] = s[k]
      /\ Append(s, m)[Len(s) + 1] = m
  BY Appended
<1>. QED BY <1>1 DEF Grown

(* The window of descriptors between the hardware and descriptor t.         *)
Window(q, t) ==
  [k \in 1 .. Between(q.head, t) |-> q.sw_ring[(q.head + k - 1) % NbTxDesc]]

LEMMA InFlightIs ==
  ASSUME NEW l \in Lcores, NEW p \in Ports
  PROVE  /\ InFlight(l, p) = Window(txq[p], TailSeen(l, p))
         /\ InFlight(l, p)' = Window(txq'[p], TailSeen(l, p)')
BY DEF InFlight, Window, Between

LEMMA WindowIs ==
  ASSUME NEW q \in TxQueues, NEW t \in Descs
  PROVE  /\ DOMAIN Window(q, t) = 1 .. Between(q.head, t)
         /\ Between(q.head, t) \in Nat /\ Between(q.head, t) < NbTxDesc
         /\ \A k \in DOMAIN Window(q, t) :
              /\ (q.head + (k - 1)) % NbTxDesc \in Descs
              /\ Window(q, t)[k] = q.sw_ring[(q.head + (k - 1)) % NbTxDesc]
<1>1. q.head \in Descs /\ Between(q.head, t) \in Descs
  BY BetweenIs DEF TxQueues
<1>2. Between(q.head, t) \in Nat /\ Between(q.head, t) < NbTxDesc
  BY <1>1, SizesAssumption DEF Descs
<1>3. ASSUME NEW k \in 1 .. Between(q.head, t)
      PROVE  (q.head + (k - 1)) % NbTxDesc \in Descs
  BY <1>1, <1>3, DescTypes DEF Descs
<1>. QED BY <1>2, <1>3 DEF Window

LEMMA WindowFront ==
  ASSUME NEW q \in TxQueues, NEW t \in Descs, RingSum(q, t)
  PROVE  Front(Window(q, q.tx_tail), Window(q, t))
<1>1. q.tx_tail \in Descs
  BY DEF TxQueues
<1>. DEFINE a == Between(q.head, q.tx_tail)
            b == Between(q.head, t)
<1>2. a \in Nat /\ b \in Nat /\ a <= b
  BY RingParts
<1>3. DOMAIN Window(q, q.tx_tail) = 1 .. a /\ DOMAIN Window(q, t) = 1 .. b
  BY DEF Window
<1>4. ASSUME NEW j \in DOMAIN Window(q, q.tx_tail)
      PROVE  j \in DOMAIN Window(q, t) /\ Window(q, q.tx_tail)[j] = Window(q, t)[j]
  <2>1. j \in DOMAIN Window(q, t)
    <3>. HIDE DEF a, b
    <3>. QED BY <1>2, <1>3, <1>4
  <2>. QED BY <1>1, <1>4, <2>1, WindowIs
<1>. QED BY <1>4 DEF Front

LEMMA WindowCut ==
  ASSUME NEW q \in TxQueues, NEW t \in Descs, NEW r \in TxQueues,
         r.head = NextDesc(q.head), r.sw_ring = q.sw_ring, q.head # t
  PROVE  Cut(Window(r, t), Window(q, t))
<1>. DEFINE a == q.head
            n == Between(q.head, t)
<1>1. /\ a \in Descs /\ a \in Int /\ 0 <= a /\ a < NbTxDesc /\ NbTxDesc \in Nat /\ NbTxDesc >= 2
      /\ 1 \in 0 .. NbTxDesc
  BY SizesAssumption DEF TxQueues, Descs
<1>2. n \in Nat /\ n # 0 /\ n < NbTxDesc /\ Between(r.head, t) = n - 1
  <2>1. Between(q.head, t) \in Nat /\ Between(q.head, t) < NbTxDesc
    BY WindowIs
  <2>2. Between(q.head, t) # 0
    BY <1>1, BetweenIs
  <2>3. Between(NextDesc(q.head), t) = Between(q.head, t) - 1
    BY <1>1, Distances
  <2>. QED BY <2>1, <2>2, <2>3
<1>3. r.head = IF a + 1 < NbTxDesc THEN a + 1 ELSE (a + 1) - NbTxDesc
  BY <1>1, Forward DEF NextDesc
<1>4. DOMAIN Window(q, t) = 1 .. n /\ DOMAIN Window(r, t) = 1 .. n - 1
  BY <1>2 DEF Window
<1>5. ASSUME NEW j \in 1 .. n - 1
      PROVE  (r.head + (j - 1)) % NbTxDesc = (a + ((j + 1) - 1)) % NbTxDesc
  <2>. HIDE DEF n
  <2>1. j - 1 \in 0 .. NbTxDesc /\ j \in 0 .. NbTxDesc /\ (j + 1) - 1 = j /\ j \in Int
    BY <1>1, <1>2, <1>5
  <2>2. r.head \in Descs
    BY DEF TxQueues
  <2>3. (r.head + (j - 1)) % NbTxDesc =
          IF r.head + (j - 1) < NbTxDesc THEN r.head + (j - 1)
                                         ELSE (r.head + (j - 1)) - NbTxDesc
    BY <2>1, <2>2, Forward
  <2>4. (a + j) % NbTxDesc = IF a + j < NbTxDesc THEN a + j ELSE (a + j) - NbTxDesc
    BY <1>1, <2>1, Forward
  <2>. HIDE DEF a
  <2>5. CASE a + 1 < NbTxDesc
    <3>1. r.head = a + 1
      BY <1>3, <2>5
    <3>. QED BY <1>1, <2>1, <2>3, <2>4, <3>1
  <2>6. CASE ~(a + 1 < NbTxDesc)
    <3>1. r.head = 0 /\ a + 1 = NbTxDesc
      BY <1>1, <1>3, <2>6
    <3>2. ~(a + j < NbTxDesc) /\ j - 1 < NbTxDesc
      BY <1>1, <1>2, <1>5, <3>1
    <3>. QED BY <1>1, <2>1, <2>3, <2>4, <3>1, <3>2
  <2>. QED BY <2>5, <2>6
<1>. HIDE DEF a, n
<1>6. 1 \in DOMAIN Window(q, t) /\ DOMAIN Window(q, t) \subseteq Int /\ DOMAIN Window(r, t) \subseteq Int
  BY <1>2, <1>4
<1>7. ASSUME NEW j \in DOMAIN Window(r, t)
      PROVE  j >= 1 /\ j + 1 \in DOMAIN Window(q, t) /\ Window(r, t)[j] = Window(q, t)[j + 1]
  <2>1. j \in 1 .. n - 1 /\ j >= 1 /\ j + 1 \in DOMAIN Window(q, t)
    BY <1>2, <1>4, <1>7
  <2>. QED BY <1>5, <1>7, <2>1, WindowIs DEF a
<1>. QED BY <1>6, <1>7 DEF Cut

LEMMA WindowGrows ==
  ASSUME NEW q \in TxQueues, NEW t \in Descs, RingSum(q, t), 1 <= q.nb_tx_free, NEW m,
         NEW r \in TxQueues, r.head = q.head, r.sw_ring = Put(q.sw_ring, t, m)
  PROVE  Grown(Window(r, NextDesc(t)), Window(q, t), m)
<1>. DEFINE a == q.head
            n == Between(q.head, t)
<1>1. /\ a \in Descs /\ NbTxDesc \in Nat /\ NbTxDesc >= 2
      /\ q.sw_ring \in [Descs -> Mbufs \cup {Null}]
  BY SizesAssumption DEF TxQueues, Descs
<1>2. n \in Nat /\ n < NbTxDesc /\ n + q.nb_tx_free < NbTxDesc /\ q.nb_tx_free \in Nat
  <2>1. Between(q.head, t) \in Nat /\ Between(q.head, t) < NbTxDesc
    BY WindowIs
  <2>2. Between(q.head, t) + q.nb_tx_free < NbTxDesc /\ q.nb_tx_free \in Nat
    BY RingParts
  <2>. QED BY <2>1, <2>2
<1>3. n + 1 < NbTxDesc
  <2>. HIDE DEF n
  <2>. QED BY <1>1, <1>2
<1>4. Between(r.head, NextDesc(t)) = n + 1 /\ NextDesc(t) \in Descs
  BY <1>1, <1>3, Distances, DescTypes
<1>5. DOMAIN Window(q, t) = 1 .. n /\ DOMAIN Window(r, NextDesc(t)) = 1 .. n + 1
  BY <1>4 DEF Window
<1>6. (a + n) % NbTxDesc = t
  BY <1>1, Distances
<1>7. ASSUME NEW j \in 1 .. n PROVE (a + (j - 1)) % NbTxDesc # t
  <2>1. j - 1 \in 0 .. NbTxDesc - 1 /\ j - 1 # n /\ j - 1 \in Int /\ 0 + (j - 1) < NbTxDesc
    <3>. HIDE DEF n
    <3>. QED BY <1>1, <1>2, <1>7
  <2>2. Between(a, a) = 0
    BY <1>1, BetweenIs
  <2>3. Between(a, (a + (j - 1)) % NbTxDesc) = 0 + (j - 1)
    BY <1>1, <2>1, <2>2, Distances
  <2>. HIDE DEF a
  <2>. QED BY <2>1, <2>3 DEF a
<1>. HIDE DEF n
<1>8. Window(r, NextDesc(t))[n + 1] = m
  <2>1. n + 1 \in DOMAIN Window(r, NextDesc(t)) /\ (n + 1) - 1 = n
    BY <1>2, <1>5
  <2>2. Window(r, NextDesc(t))[n + 1] = r.sw_ring[(a + n) % NbTxDesc]
    BY <1>4, <2>1, WindowIs
  <2>. QED BY <1>1, <1>6, <2>2 DEF Put
<1>9. ASSUME NEW j \in 1 .. n PROVE Window(r, NextDesc(t))[j] = Window(q, t)[j]
  <2>1. j \in DOMAIN Window(r, NextDesc(t)) /\ j \in DOMAIN Window(q, t)
    BY <1>2, <1>5, <1>9
  <2>2. /\ Window(r, NextDesc(t))[j] = r.sw_ring[(a + (j - 1)) % NbTxDesc]
        /\ Window(q, t)[j] = q.sw_ring[(a + (j - 1)) % NbTxDesc]
        /\ (a + (j - 1)) % NbTxDesc \in Descs
    BY <1>4, <2>1, WindowIs
  <2>3. (a + (j - 1)) % NbTxDesc # t
    BY <1>7, <1>9
  <2>. HIDE DEF a
  <2>. QED BY <1>1, <2>2, <2>3 DEF Put
<1>. QED BY <1>2, <1>5, <1>8, <1>9 DEF Grown

-----------------------------------------------------------------------------
(* A line stays a line when its first packet leaves, ...                    *)
LEMMA LineLeaves ==
  ASSUME NEW id, NEW n \in Nat, NEW f, NEW t, NEW b, Line(id, n, f, t, b), NEW s
  PROVE  /\ Cut(s, f) => Line(id, n, s, t, b)
         /\ Cut(s, t) => Line(id, n, f, s, b)
         /\ Cut(s, b) => Line(id, n, f, t, s)
<1>1. ASSUME NEW u, Cut(s, u), Increasing(id, u), UpTo(id, u, n)
      PROVE  Increasing(id, s) /\ UpTo(id, s, n)
  <2>1. ASSUME NEW j \in DOMAIN s, NEW k \in DOMAIN s, j < k PROVE id[s[j]] < id[s[k]]
    <3>1. j \in Int /\ k \in Int /\ j + 1 < k + 1
      BY <1>1, <2>1 DEF Cut
    <3>. QED BY <1>1, <2>1, <3>1 DEF Cut, Increasing
  <2>. QED BY <1>1, <2>1 DEF Cut, Increasing, UpTo
<1>2. ASSUME NEW u, NEW v, Cut(s, u)
      PROVE  /\ Before(id, u, v) => Before(id, s, v)
             /\ Before(id, v, u) => Before(id, v, s)
  BY <1>2 DEF Cut, Before
<1>. QED BY <1>1, <1>2 DEF Line

(* ... when the first packet of one part moves to the end of the part before, *)
LEMMA LineMoves ==
  ASSUME NEW id, NEW n \in Nat, NEW u, NEW v, NEW r, NEW s,
         Increasing(id, u), Increasing(id, v), Before(id, u, v),
         UpTo(id, u, n), UpTo(id, v, n), Cut(s, v), Grown(r, u, v[1])
  PROVE  /\ Increasing(id, r) /\ Increasing(id, s) /\ Before(id, r, s)
         /\ UpTo(id, r, n) /\ UpTo(id, s, n)
         /\ \A w : Before(id, w, u) /\ Before(id, w, v) => Before(id, w, r) /\ Before(id, w, s)
         /\ \A w : Before(id, u, w) /\ Before(id, v, w) => Before(id, r, w) /\ Before(id, s, w)
<1>1. PICK c \in Nat : /\ DOMAIN u = 1 .. c /\ DOMAIN r = 1 .. c + 1
                       /\ r[c + 1] = v[1] /\ \A j \in 1 .. c : r[j] = u[j]
  BY DEF Grown
<1>2. /\ 1 \in DOMAIN v /\ DOMAIN s \subseteq Int /\ DOMAIN v \subseteq Int
      /\ \A j \in DOMAIN s : j >= 1 /\ j + 1 \in DOMAIN v /\ s[j] = v[j + 1] /\ 1 < j + 1
  BY DEF Cut
<1>3. ASSUME NEW j \in DOMAIN r
      PROVE  j \in Int /\ \/ j \in DOMAIN u /\ r[j] = u[j]
                          \/ j = c + 1 /\ r[j] = v[1]
  BY <1>1, <1>3
<1>4. Increasing(id, r)
  <2>1. ASSUME NEW j \in DOMAIN r, NEW k \in DOMAIN r, j < k PROVE id[r[j]] < id[r[k]]
    <3>1. j \in DOMAIN u /\ r[j] = u[j]
      BY <1>1, <2>1
    <3>2. CASE k \in DOMAIN u /\ r[k] = u[k]
      BY <2>1, <3>1, <3>2 DEF Increasing
    <3>3. CASE r[k] = v[1]
      BY <1>2, <3>1, <3>3 DEF Before
    <3>. QED BY <1>3, <3>2, <3>3
  <2>. QED BY <2>1 DEF Increasing
<1>5. Increasing(id, s)
  <2>1. ASSUME NEW j \in DOMAIN s, NEW k \in DOMAIN s, j < k PROVE id[s[j]] < id[s[k]]
    <3>1. j \in Int /\ k \in Int /\ j + 1 < k + 1
      BY <1>2, <2>1
    <3>. QED BY <1>2, <2>1, <3>1 DEF Increasing
  <2>. QED BY <2>1 DEF Increasing
<1>6. Before(id, r, s)
  <2>1. ASSUME NEW j \in DOMAIN r, NEW k \in DOMAIN s PROVE id[r[j]] < id[s[k]]
    <3>1. k + 1 \in DOMAIN v /\ s[k] = v[k + 1] /\ 1 < k + 1
      BY <1>2
    <3>2. CASE j \in DOMAIN u /\ r[j] = u[j]
      BY <3>1, <3>2 DEF Before
    <3>3. CASE r[j] = v[1]
      BY <1>2, <3>1, <3>3 DEF Increasing
    <3>. QED BY <1>3, <3>2, <3>3
  <2>. QED BY <2>1 DEF Before
<1>7. UpTo(id, r, n) /\ UpTo(id, s, n)
  BY <1>2, <1>3 DEF UpTo
<1>8. ASSUME NEW w, Before(id, w, u), Before(id, w, v)
      PROVE  Before(id, w, r) /\ Before(id, w, s)
  BY <1>2, <1>3, <1>8 DEF Before
<1>9. ASSUME NEW w, Before(id, u, w), Before(id, v, w)
      PROVE  Before(id, r, w) /\ Before(id, s, w)
  BY <1>2, <1>3, <1>9 DEF Before
<1>. QED BY <1>4, <1>5, <1>6, <1>7, <1>8, <1>9

(* ... or when a new packet comes in behind the last one.                   *)
LEMMA LineGrows ==
  ASSUME NEW id, NEW n \in Nat, NEW f, NEW t, NEW b, Line(id, n, f, t, b), NEW jd, NEW m,
         \A j \in DOMAIN f : jd[f[j]] = id[f[j]], \A j \in DOMAIN t : jd[t[j]] = id[t[j]],
         \A j \in DOMAIN b : jd[b[j]] = id[b[j]], jd[m] = n + 1, NEW c, Grown(c, b, m)
  PROVE  Line(jd, n + 1, f, t, c)
<1>1. PICK k \in Nat : /\ DOMAIN b = 1 .. k /\ DOMAIN c = 1 .. k + 1
                       /\ c[k + 1] = m /\ \A j \in 1 .. k : c[j] = b[j]
  BY DEF Grown
<1>2. ASSUME NEW j \in DOMAIN c
      PROVE  j \in Int /\ \/ j \in DOMAIN b /\ c[j] = b[j] /\ jd[c[j]] = id[b[j]]
                          \/ j = k + 1 /\ jd[c[j]] = n + 1
  BY <1>1, <1>2
<1>3. Increasing(jd, f) /\ Increasing(jd, t) /\ Before(jd, f, t)
  BY DEF Line, Increasing, Before
<1>4. UpTo(jd, f, n + 1) /\ UpTo(jd, t, n + 1)
  BY DEF Line, UpTo
<1>5. UpTo(jd, c, n + 1)
  <2>1. ASSUME NEW j \in DOMAIN c PROVE jd[c[j]] \in 0 .. n + 1
    BY <1>2 DEF Line, UpTo
  <2>. QED BY <2>1 DEF UpTo
<1>6. ASSUME NEW s, Before(id, s, b), UpTo(id, s, n), \A j \in DOMAIN s : jd[s[j]] = id[s[j]]
      PROVE  Before(jd, s, c)
  <2>1. ASSUME NEW i \in DOMAIN s, NEW j \in DOMAIN c PROVE jd[s[i]] < jd[c[j]]
    <3>1. id[s[i]] \in 0 .. n /\ jd[s[i]] = id[s[i]]
      BY <1>6 DEF UpTo
    <3>2. CASE j \in DOMAIN b /\ c[j] = b[j] /\ jd[c[j]] = id[b[j]]
      BY <1>6, <3>1, <3>2 DEF Before
    <3>3. CASE jd[c[j]] = n + 1
      BY <3>1, <3>3
    <3>. QED BY <1>2, <3>2, <3>3
  <2>. QED BY <2>1 DEF Before
<1>7. Before(jd, f, c) /\ Before(jd, t, c)
  BY <1>6 DEF Line
<1>8. Increasing(jd, c)
  <2>1. ASSUME NEW i \in DOMAIN c, NEW j \in DOMAIN c, i < j PROVE jd[c[i]] < jd[c[j]]
    <3>1. i \in DOMAIN b /\ c[i] = b[i] /\ jd[c[i]] = id[b[i]] /\ id[b[i]] \in 0 .. n
      BY <1>1, <1>2, <2>1 DEF Line, UpTo
    <3>2. CASE j \in DOMAIN b /\ c[j] = b[j] /\ jd[c[j]] = id[b[j]]
      BY <2>1, <3>1, <3>2 DEF Line, Increasing
    <3>3. CASE jd[c[j]] = n + 1
      BY <3>1, <3>3
    <3>. QED BY <1>2, <3>2, <3>3
  <2>. QED BY <2>1 DEF Increasing
<1>. QED BY <1>3, <1>4, <1>5, <1>7, <1>8 DEF Line

(* A lcore without work sees a part of what another has sent. *)
LEMMA LineFront ==
  ASSUME NEW id, NEW n \in Nat, NEW f, NEW t, NEW b, Line(id, n, f, t, b), NEW g, Front(g, f)
  PROVE  Line(id, n, g, <<>>, <<>>)
<1>1. DOMAIN <<>> = {}
  OBVIOUS
<1>2. Increasing(id, <<>>) /\ UpTo(id, <<>>, n) /\ Before(id, g, <<>>) /\ Before(id, <<>>, <<>>)
  BY <1>1 DEF Increasing, UpTo, Before
<1>3. Increasing(id, g) /\ UpTo(id, g, n)
  BY DEF Front, Line, Increasing, UpTo
<1>. QED BY <1>2, <1>3 DEF Line

-----------------------------------------------------------------------------
(* What is in flight to a port changes only when the driver takes a packet, *)
LEMMA FlightStays ==
  ASSUME IInv, Rings, Idle, LonePath, NEW l \in Lcores, LcoreStep(l), NEW p \in Ports,
         ~(TxPacket(l) /\ portid[l] = p)
  PROVE  InFlight(l, p)' = InFlight(l, p)
<1>1. /\ txq'[p].head = txq[p].head /\ TailSeen(l, p)' = TailSeen(l, p)
      /\ txq'[p].sw_ring = txq[p].sw_ring
  BY QueueStep
<1>2. ASSUME NEW q, NEW r, NEW t, q.head = r.head, q.sw_ring = r.sw_ring
      PROVE  Window(q, t) = Window(r, t)
  BY <1>2 DEF Window
<1>. QED BY <1>1, <1>2, InFlightIs

(* ... which comes behind the others, ...                                   *)
LEMMA FlightGrows ==
  ASSUME IInv, Rings, Idle, LonePath, NEW l \in Lcores, LcoreStep(l), TxPacket(l),
         heap.next[Head(Sending(l))] = Null
  PROVE  Grown(InFlight(l, portid[l])', InFlight(l, portid[l]), Head(Sending(l)))
<1>. DEFINE p == portid[l]
            t == tx_id[l]
            m == Head(Sending(l))
<1>1. /\ p \in Ports /\ t \in Descs /\ pc[l] = "tx" /\ txq[p] \in TxQueues
      /\ txq'[p].sw_ring = Put(txq[p].sw_ring, t, m)
  BY Filled DEF Written
<1>2. /\ NbSegs(heap, m) = 1 /\ 1 <= txq[p].nb_tx_free
      /\ tx_id' = [tx_id EXCEPT ![l] = (t + 1) % NbTxDesc] /\ UNCHANGED <<pc, portid>>
  BY DEF TxPacket, NbSegs
<1>3. \A k \in Lcores \ {l} : pc[k] # "tx"
  BY QueueStep, <1>1
<1>4. TailSeen(l, p) = t /\ TailSeen(l, p)' = NextDesc(t)
  <2>1. tx_id \in [Lcores -> Descs]
    BY DEF IInv, Types, LcoreTypes
  <2>2. tx_id'[l] = NextDesc(t)
    BY <1>2, <2>1 DEF NextDesc
  <2>. QED BY <1>1, <1>2, <2>2 DEF TailSeen
<1>5. RingSum(txq[p], t)
  BY <1>1, <1>3, <1>4, RingAt
<1>6. txq'[p] \in TxQueues /\ txq'[p].head = txq[p].head
  BY <1>1, QueueStep
<1>7. Grown(Window(txq'[p], NextDesc(t)), Window(txq[p], t), m)
  BY <1>1, <1>2, <1>5, <1>6, WindowGrows
<1>8. InFlight(l, p) = Window(txq[p], t)
  BY <1>1, <1>4, InFlightIs
<1>9. ASSUME NEW q \in Ports, q = p PROVE InFlight(l, q)' = Window(txq'[q], NextDesc(t))
  <2>1. TailSeen(l, q)' = NextDesc(t)
    BY <1>1, <1>2, <1>4, <1>9 DEF TailSeen
  <2>. QED BY <2>1, InFlightIs
<1>10. PICK q \in Ports : q = p
  BY <1>1
<1>11. portid'[l] = p /\ InFlight(l, p)' = InFlight(l, q)'
  BY <1>2, <1>10 DEF InFlight, TailSeen
<1>. QED BY <1>7, <1>8, <1>9, <1>10, <1>11

(* ... or when the hardware has sent the first one.                         *)
LEMMA FlightSent ==
  ASSUME IInv, Rings, LonePath, Quiet, NEW l \in Lcores, NEW p \in Ports
  PROVE  \/ InFlight(l, p)' = InFlight(l, p)
         \/ Cut(InFlight(l, p)', InFlight(l, p))
<1>1. UNCHANGED lcore /\ txq \in [Ports -> TxQueues]
  BY QuietIs DEF IInv, Types, RingTypes
<1>2. CASE UNCHANGED txq
  BY <1>1, <1>2 DEF InFlight, TailSeen, lcore
<1>3. ASSUME NEW q \in Ports, txq[q].head # txq[q].tx_tail,
             txq' = [txq EXCEPT ![q].head = NextDesc(@)]
      PROVE  \/ InFlight(l, p)' = InFlight(l, p)
             \/ Cut(InFlight(l, p)', InFlight(l, p))
  <2>1. CASE p # q
    <3>1. txq'[p] = txq[p]
      BY <1>1, <1>3, <2>1
    <3>2. TailSeen(l, p)' = TailSeen(l, p)
      BY <1>1, <3>1 DEF TailSeen, lcore
    <3>. QED BY <3>1, <3>2, InFlightIs
  <2>2. CASE p = q
    <3>1. txq'[p] = [txq[p] EXCEPT !.head = NextDesc(@)]
      BY <1>1, <1>3, <2>2
    <3>2. txq[p] \in TxQueues /\ txq[p].head \in Descs /\ txq[p].tx_tail \in Descs
      BY <1>1 DEF TxQueues
    <3>3. /\ txq'[p].head = NextDesc(txq[p].head) /\ txq'[p].sw_ring = txq[p].sw_ring
          /\ txq'[p].tx_tail = txq[p].tx_tail /\ txq'[p] \in TxQueues
      BY <3>1, <3>2, DescTypes DEF TxQueues
    <3>4. TailSeen(l, p)' = TailSeen(l, p)
      BY <1>1, <3>3 DEF TailSeen, lcore
    <3>5. TailSeen(l, p) \in Descs /\ txq[p].head # TailSeen(l, p)
      <4>1. CASE Filling(l, p)
        <5>1. TailSeen(l, p) = tx_id[l] /\ tx_id[l] \in Descs /\ RingSum(txq[p], tx_id[l])
          BY <4>1 DEF Filling, TailSeen, Rings, IInv, Types, LcoreTypes
        <5>2. Between(txq[p].head, tx_id[l]) > 0
          BY <1>3, <2>2, <3>2, <5>1, RingHead
        <5>3. Between(txq[p].head, tx_id[l]) # 0
          BY <5>2
        <5>. QED BY <3>2, <5>1, <5>3, BetweenIs
      <4>2. CASE ~Filling(l, p)
        BY <1>3, <2>2, <3>2, <4>2 DEF Filling, TailSeen
      <4>. QED BY <4>1, <4>2
    <3>6. Cut(Window(txq'[p], TailSeen(l, p)), Window(txq[p], TailSeen(l, p)))
      BY <3>2, <3>3, <3>5, WindowCut
    <3>7. /\ InFlight(l, p) = Window(txq[p], TailSeen(l, p))
          /\ InFlight(l, p)' = Window(txq'[p], TailSeen(l, p)')
      BY InFlightIs
    <3>. QED BY <3>4, <3>6, <3>7
  <2>. QED BY <2>1, <2>2
<1>. QED BY <1>2, <1>3, QuietIs

(* A lcore without work sees what the hardware has been told of.            *)
LEMMA FlightFront ==
  ASSUME IInv, IInv', Rings, Idle, LonePath, NEW l \in Lcores, LcoreStep(l),
         NEW k \in Lcores \ {l}, NEW p \in Ports
  PROVE  Front(InFlight(k, p)', InFlight(l, p)')
<1>1. /\ txq'[p] \in TxQueues /\ RingSum(txq'[p], TailSeen(l, p)') /\ pc'[k] # "tx"
  BY QueueStep
<1>2. TailSeen(k, p)' = txq'[p].tx_tail
  BY <1>1 DEF TailSeen
<1>3. TailSeen(l, p)' \in Descs
  <2>1. tx_id'[l] \in Descs /\ txq'[p].tx_tail \in Descs
    BY <1>1 DEF IInv, Types, LcoreTypes, TxQueues
  <2>. QED BY <2>1 DEF TailSeen
<1>4. PICK t \in Descs : t = TailSeen(l, p)'
  BY <1>3
<1>5. Front(Window(txq'[p], txq'[p].tx_tail), Window(txq'[p], t))
  BY <1>1, <1>4, WindowFront
<1>6. /\ InFlight(k, p)' = Window(txq'[p], TailSeen(k, p)')
      /\ InFlight(l, p)' = Window(txq'[p], TailSeen(l, p)')
  BY InFlightIs
<1>. QED BY <1>2, <1>4, <1>5, <1>6

-----------------------------------------------------------------------------
(* The moves of packets through a lcore.                                    *)
SentKept(l, ps) ==
  /\ \A p \in Ports : InFlight(l, p)' = InFlight(l, p)
  /\ \A p \in Ports \ ps : tx_mbufs'[l][p] = tx_mbufs[l][p]
Stays(l) == SentKept(l, {}) /\ pkts_burst'[l] = pkts_burst[l] /\ UNCHANGED <<frame, received>>
Drops(l) == SentKept(l, {}) /\ Cut(pkts_burst'[l], pkts_burst[l]) /\ UNCHANGED <<frame, received>>
Buffers(l, q) ==
  /\ SentKept(l, {q}) /\ pkts_burst[l] # <<>> /\ Cut(pkts_burst'[l], pkts_burst[l])
  /\ Grown(tx_mbufs'[l][q], tx_mbufs[l][q], Current(l)) /\ Current(l) = pkts_burst[l][1]
  /\ UNCHANGED <<frame, received>>
Loads(l, q) ==
  /\ \A p \in Ports \ {q} : InFlight(l, p)' = InFlight(l, p) /\ tx_mbufs'[l][p] = tx_mbufs[l][p]
  /\ Grown(InFlight(l, q)', InFlight(l, q), tx_mbufs[l][q][1])
  /\ Cut(tx_mbufs'[l][q], tx_mbufs[l][q])
  /\ pkts_burst'[l] = pkts_burst[l] /\ UNCHANGED <<frame, received>>
Discards(l, q) ==
  /\ SentKept(l, {q}) /\ Cut(tx_mbufs'[l][q], tx_mbufs[l][q])
  /\ pkts_burst'[l] = pkts_burst[l] /\ UNCHANGED <<frame, received>>

(* What a lcore alone on all ports may rely on. *)
Sound == IInv /\ Idle /\ Undamaged /\ Rings /\ Unflooded /\ Owned /\ Chains

LEMMA LonePackets ==
  ASSUME Sound, Clean, NEW m \in Mbufs
  PROVE  LonePath /\ ~Floods /\ Tracked = Mbufs /\ OwnedOnly(m) /\ heap.next[m] = Null
<1>1. LonePath /\ ~Floods /\ Tracked = Mbufs
  BY DEF Clean, Tracked
<1>2. OwnedOnly(m) /\ heap.next[m] \notin Mbufs
  BY <1>1 DEF Sound, Owned, OwnedOnly, Chains
<1>3. heap.next[m] \in Mbufs \cup {Null}
  BY DEF Sound, IInv, Types, BufferTypes, HeapType
<1>. QED BY <1>1, <1>2, <1>3

LEMMA Moves ==
  ASSUME Sound, Clean, NEW l \in Lcores, LcoreStep(l)
  PROVE  \/ Stays(l)
         \/ RxPacket(l) /\ SentKept(l, {})
         \/ EnforceDrop(l) /\ Drops(l)
         \/ Output(l) /\ \E q \in Ports : Outermost(Current(l)) = q /\ Buffers(l, q)
         \/ TxPacket(l) /\ \E q \in Ports : Loads(l, q)
         \/ FreeUnsent(l) /\ \E q \in Ports : Discards(l, q)
<1>1. IInv /\ Idle /\ Rings /\ LonePath /\ ~Floods /\ Straight(l)
  BY DEF Sound, Clean, Unflooded
<1>2. /\ pkts_burst \in [Lcores -> Seq(PacketMbufs)]
      /\ tx_mbufs \in [Lcores -> [Ports -> Seq(Mbufs)]]
  BY <1>1 DEF IInv, Types, LcoreTypes
<1>3. ASSUME ~TxPacket(l) PROVE \A p \in Ports : InFlight(l, p)' = InFlight(l, p)
  BY <1>1, <1>3, FlightStays
<1>4. ASSUME ~TxPacket(l), UNCHANGED tx_mbufs PROVE SentKept(l, {})
  BY <1>3, <1>4 DEF SentKept
<1>5. ASSUME pkts_burst[l] # <<>>, DoneWithPacket(l)
      PROVE  Cut(pkts_burst'[l], pkts_burst[l]) /\ Current(l) = pkts_burst[l][1]
  <2>1. pkts_burst'[l] = Tail(pkts_burst[l])
    BY <1>1, <1>5, NextPacket
  <2>. QED BY <1>1, <1>2, <1>5, <2>1, TailCuts, CurrentPacket
<1>6. CASE LoopTop(l) \/ DrainPort(l) \/ DrainDone(l) \/ RxDone(l) \/ LoopEnd(l) \/ Learn(l)
             \/ Insert(l) \/ Classify(l) \/ EnforceAllow(l) \/ Route(l) \/ TxReclaim(l) \/ TxEnd(l)
  <2>1. UNCHANGED <<pkts_burst, tx_mbufs>> /\ ~TxPacket(l)
    BY <1>1, <1>6, PlainSteps
  <2>2. UNCHANGED <<frame, received>>
    BY <1>6 DEF LoopTop, DrainPort, DrainDone, RxDone, LoopEnd, Learn, Insert, Classify,
                EnforceAllow, Route, RouteTo, Crash, TxReclaim, TxEnd, buffers
  <2>. QED BY <1>4, <2>1, <2>2 DEF Stays
<1>7. CASE RxPacket(l)
  <2>1. pc[l] = "rx" /\ UNCHANGED tx_mbufs
    BY <1>1, <1>7, Received
  <2>2. ~TxPacket(l)
    BY <2>1 DEF TxPacket, At
  <2>. QED BY <1>4, <1>7, <2>1, <2>2
<1>8. CASE EnforceDrop(l)
  <2>1. /\ pkts_burst[l] # <<>> /\ DoneWithPacket(l) /\ ~TxPacket(l)
        /\ UNCHANGED <<tx_mbufs, frame, received>>
    BY <1>1, <1>8 DEF EnforceDrop, TxPacket, At, Pipeline, IInv, Ready
  <2>. QED BY <1>4, <1>5, <1>8, <2>1 DEF Drops
<1>9. CASE Output(l)
  <2>1. pkts_burst[l] # <<>> /\ ~TxPacket(l)
    BY <1>1, <1>9, OutputCases
  <2>2. Outermost(Current(l)) \in Ports
    BY <1>1, <1>9 DEF Straight, Output, At
  <2>3. PICK q \in Ports : q = Outermost(Current(l))
    BY <2>2
  <2>4. /\ SendSingle(l, Current(l), q, Resume(l)) /\ DoneWithPacket(l)
        /\ UNCHANGED <<frame, received>>
    BY <1>9, <2>2, <2>3, OutputClean
  <2>5. Current(l) \in Mbufs
    BY <1>1, <2>1, CurrentPacket
  <2>6. tx_mbufs' = [tx_mbufs EXCEPT ![l][q] = Append(@, Current(l))]
    BY <2>4 DEF SendSingle
  <2>. DEFINE m == Current(l)
  <2>. HIDE DEF m
  <2>7. Append(tx_mbufs[l][q], m) \in Seq(Mbufs)
    BY <1>2, <2>5, Appended DEF m
  <2>8. tx_mbufs' = [tx_mbufs EXCEPT ![l][q] = Append(tx_mbufs[l][q], m)]
    BY <2>6 DEF m
  <2>9. /\ tx_mbufs'[l][q] = Append(tx_mbufs[l][q], m)
        /\ \A p \in Ports \ {q} : tx_mbufs'[l][p] = tx_mbufs[l][p]
    BY <1>2, <2>7, <2>8, BufferAt
  <2>10. Grown(tx_mbufs'[l][q], tx_mbufs[l][q], m)
    BY <1>2, <2>5, <2>9, AppendGrows DEF m
  <2>11. Buffers(l, q)
    BY <1>3, <1>5, <2>1, <2>4, <2>9, <2>10 DEF Buffers, SentKept, m
  <2>. QED BY <1>9, <2>3, <2>11
<1>10. CASE FloodPort(l) \/ FloodNext(l)
  BY <1>1, <1>10 DEF FloodPort, FloodNext, At, Straight
<1>11. CASE TxPacket(l)
  <2>1. PICK q \in Ports : q = portid[l]
    BY <1>1, <1>11, Filled
  <2>2. /\ Sending(l) = tx_mbufs[l][q] /\ Sending(l) # <<>> /\ Sending(l) \in Seq(Mbufs)
        /\ Head(Sending(l)) \in Mbufs
        /\ tx_mbufs'[l][q] = Tail(Sending(l))
        /\ \A p \in Ports \ {q} : tx_mbufs'[l][p] = tx_mbufs[l][p]
    BY <1>1, <1>11, <2>1, Filled
  <2>3. heap.next[Head(Sending(l))] = Null
    BY <2>2, LonePackets
  <2>4. Grown(InFlight(l, portid[l])', InFlight(l, portid[l]), Head(Sending(l)))
    BY <1>1, <1>11, <2>3, FlightGrows
  <2>5. Cut(tx_mbufs'[l][q], tx_mbufs[l][q]) /\ Head(Sending(l)) = tx_mbufs[l][q][1]
    BY <2>2, TailCuts
  <2>6. \A p \in Ports \ {q} : InFlight(l, p)' = InFlight(l, p)
    BY <1>1, <2>1, FlightStays
  <2>7. UNCHANGED <<pkts_burst, frame, received, portid>>
    BY <1>11 DEF TxPacket
  <2>8. Grown(InFlight(l, q)', InFlight(l, q), Head(Sending(l)))
    <3>1. InFlight(l, portid[l])' = InFlight(l, q)'
      BY <2>1, <2>7 DEF InFlight, TailSeen
    <3>. QED BY <2>1, <2>4, <3>1
  <2>. QED BY <1>11, <2>2, <2>5, <2>6, <2>7, <2>8 DEF Loads
<1>12. CASE FreeUnsent(l)
  <2>1. /\ InDriver(l) /\ Remaining(l, Tail(Sending(l))) /\ UNCHANGED <<pkts_burst, frame, received>>
        /\ ~TxPacket(l) /\ pc[l] = "unsent"
    BY <1>12 DEF FreeUnsent, TxPacket, At, InDriver
  <2>2. PICK q \in Ports : q = portid[l]
    BY <1>1, <2>1, DriverAt
  <2>3. Sending(l) = tx_mbufs[l][q] /\ Sending(l) # <<>> /\ Sending(l) \in Seq(Mbufs)
    BY <1>1, <2>1, <2>2, DriverAt DEF IInv, Ready
  <2>4. Tail(Sending(l)) \in Seq(Mbufs)
    BY <2>3, HeadTail
  <2>5. tx_mbufs' = [tx_mbufs EXCEPT ![l][q] = Tail(Sending(l))]
    BY <2>1, <2>2 DEF Remaining
  <2>. DEFINE s == Tail(Sending(l))
  <2>. HIDE DEF s
  <2>6. tx_mbufs'[l][q] = s /\ \A p \in Ports \ {q} : tx_mbufs'[l][p] = tx_mbufs[l][p]
    BY <1>2, <2>4, <2>5, BufferAt DEF s
  <2>7. Cut(tx_mbufs'[l][q], tx_mbufs[l][q])
    BY <2>3, <2>6, TailCuts DEF s
  <2>. QED BY <1>3, <1>12, <2>1, <2>6, <2>7 DEF Discards, SentKept
<1>. QED BY <1>6, <1>7, <1>8, <1>9, <1>10, <1>11, <1>12 DEF LcoreStep

-----------------------------------------------------------------------------
(* No buffer is in two places, or twice in one.                             *)
LEMMA PlacesApart ==
  ASSUME Sound, Clean, NEW x \in Places, NEW y \in Places, x # y,
         NEW j \in DOMAIN Held[x], Held[x][j] \in Mbufs
  PROVE  /\ \A k \in DOMAIN Held[y] : Held[x][j] # Held[y][k]
         /\ \A k \in DOMAIN Held[x] : k # j => Held[x][j] # Held[x][k]
<1>. DEFINE m == Held[x][j]
            f == Held[x]
            g == Held[y]
<1>1. Pooled(m) \/ Used(m)
  BY LonePackets DEF OwnedOnly
<1>2. Num(f, m) \in {0, 1} /\ (Num(f, m) # 0 => Num(g, m) = 0)
  BY <1>1, OneOwner
<1>. HIDE DEF f, g
<1>3. Num(f, m) # 0
  <2>1. j \in DOMAIN f /\ f[j] = m
    BY DEF f
  <2>. QED BY <2>1, NumIs
<1>4. Num(f, m) = 1 /\ Num(g, m) = 0
  BY <1>2, <1>3
<1>5. \A k \in DOMAIN g : g[k] # m
  BY <1>4, NumIs
<1>6. PICK i \in DOMAIN f : \A k \in DOMAIN f : f[k] = m <=> k = i
  BY <1>4, NumIs
<1>7. j \in DOMAIN f /\ f[j] = m
  BY DEF f
<1>8. \A k \in DOMAIN f : k # j => f[k] # m
  BY <1>6, <1>7
<1>. QED BY <1>5, <1>8 DEF f, g

LEMMA FlightEntries ==
  ASSUME IInv, NEW l \in Lcores, NEW p \in Ports, NEW k \in DOMAIN InFlight(l, p)
  PROVE  \E d \in DOMAIN txq[p].sw_ring : InFlight(l, p)[k] = txq[p].sw_ring[d]
<1>1. txq[p] \in TxQueues /\ tx_id[l] \in Descs
  BY DEF IInv, Types, RingTypes, LcoreTypes
<1>2. TailSeen(l, p) \in Descs /\ DOMAIN txq[p].sw_ring = Descs
  BY <1>1 DEF TailSeen, TxQueues
<1>. QED BY <1>1, <1>2, InFlightIs, WindowIs

(* What waits to be sent is not what a lcore works on or receives into, and *)
(* the packets of a burst are different.                                    *)
Fresh(m) == \A q \in Ports : m # rxq[q][1]
LEMMA Apart ==
  ASSUME Sound, Clean, NEW l \in Lcores
  PROVE  /\ \A p \in Ports : \A m \in Sent(l, p) \cap Mbufs :
              Fresh(m) /\ \A k \in DOMAIN pkts_burst[l] : m # pkts_burst[l][k]
         /\ \A k \in DOMAIN pkts_burst[l] :
              /\ pkts_burst[l][k] \in PacketMbufs /\ Fresh(pkts_burst[l][k])
              /\ \A j \in DOMAIN pkts_burst[l] : j # k => pkts_burst[l][j] # pkts_burst[l][k]
<1>. DEFINE b == <<"pkts_burst", l>>
<1>1. b \in Places /\ Held[b] = pkts_burst[l]
  BY PlaceKinds, PlaceValues
<1>2. ASSUME NEW q \in Ports
      PROVE  /\ <<"rxq", q>> \in Places /\ <<"rxq", q>> # b /\ Held[<<"rxq", q>>] = rxq[q]
             /\ 1 \in DOMAIN rxq[q]
  <2>1. 1 \in DOMAIN rxq[q]
    BY DEF Sound, IInv, Types, RingTypes
  <2>. QED BY <2>1, PlaceKinds, PlaceValues
<1>3. IInv /\ pkts_burst[l] \in Seq(PacketMbufs) /\ PacketMbufs \subseteq Mbufs
  BY MbufsAssumption DEF Sound, IInv, Types, LcoreTypes
<1>4. ASSUME NEW x \in Places, x # b, \A q \in Ports : x # <<"rxq", q>>,
             NEW j \in DOMAIN Held[x], Held[x][j] \in Mbufs
      PROVE  Fresh(Held[x][j]) /\ \A k \in DOMAIN pkts_burst[l] : Held[x][j] # pkts_burst[l][k]
  <2>1. \A k \in DOMAIN Held[b] : Held[x][j] # Held[b][k]
    BY <1>1, <1>4, PlacesApart
  <2>2. ASSUME NEW q \in Ports PROVE Held[x][j] # rxq[q][1]
    <3>. DEFINE r == <<"rxq", q>>
    <3>1. r \in Places /\ x # r /\ Held[r] = rxq[q] /\ 1 \in DOMAIN Held[r]
      BY <1>2, <1>4
    <3>. HIDE DEF r
    <3>2. \A k \in DOMAIN Held[r] : Held[x][j] # Held[r][k]
      BY <1>4, <3>1, PlacesApart
    <3>. QED BY <3>1, <3>2
  <2>. QED BY <1>1, <2>1, <2>2 DEF Fresh
<1>5. ASSUME NEW p \in Ports, NEW m \in Sent(l, p) \cap Mbufs
      PROVE  Fresh(m) /\ \A k \in DOMAIN pkts_burst[l] : m # pkts_burst[l][k]
  <2>1. CASE \E k \in DOMAIN InFlight(l, p) : m = InFlight(l, p)[k]
    <3>1. PICK d \in DOMAIN txq[p].sw_ring : m = txq[p].sw_ring[d]
      BY <1>3, <2>1, FlightEntries
    <3>. DEFINE x == <<"sw_ring", p>>
    <3>2. x \in Places /\ x # b /\ (\A q \in Ports : x # <<"rxq", q>>)
          /\ Held[x] = txq[p].sw_ring
      BY PlaceKinds, PlaceValues
    <3>. HIDE DEF x, b
    <3>. QED BY <1>4, <1>5, <3>1, <3>2
  <2>2. CASE \E k \in DOMAIN tx_mbufs[l][p] : m = tx_mbufs[l][p][k]
    <3>1. PICK d \in DOMAIN tx_mbufs[l][p] : m = tx_mbufs[l][p][d]
      BY <2>2
    <3>. DEFINE x == <<"tx_mbufs", <<l, p>>>>
    <3>2. x \in Places /\ x # b /\ (\A q \in Ports : x # <<"rxq", q>>)
          /\ Held[x] = tx_mbufs[l][p]
      BY PlaceKinds, PlaceValues
    <3>. HIDE DEF x, b
    <3>. QED BY <1>4, <1>5, <3>1, <3>2
  <2>. QED BY <1>5, <2>1, <2>2 DEF Sent
<1>6. ASSUME NEW k \in DOMAIN pkts_burst[l]
      PROVE  /\ pkts_burst[l][k] \in PacketMbufs /\ Fresh(pkts_burst[l][k])
             /\ \A j \in DOMAIN pkts_burst[l] : j # k => pkts_burst[l][j] # pkts_burst[l][k]
  <2>1. pkts_burst[l][k] \in PacketMbufs
    BY <1>3
  <2>2. ASSUME NEW q \in Ports
        PROVE  /\ pkts_burst[l][k] # rxq[q][1]
               /\ \A j \in DOMAIN pkts_burst[l] : j # k => pkts_burst[l][j] # pkts_burst[l][k]
    <3>. DEFINE r == <<"rxq", q>>
    <3>1. r \in Places /\ b # r /\ Held[r] = rxq[q] /\ 1 \in DOMAIN Held[r]
      BY <1>2
    <3>2. k \in DOMAIN Held[b] /\ Held[b][k] \in Mbufs
      BY <1>1, <1>3, <1>6, <2>1
    <3>. HIDE DEF r, b
    <3>3. /\ \A i \in DOMAIN Held[r] : Held[b][k] # Held[r][i]
          /\ \A j \in DOMAIN Held[b] : j # k => Held[b][k] # Held[b][j]
      BY <1>1, <3>1, <3>2, PlacesApart
    <3>. QED BY <1>1, <3>1, <3>3
  <2>3. 0 \in Ports
    BY PortsAssumption
  <2>. QED BY <2>1, <2>2, <2>3 DEF Fresh
<1>. QED BY <1>5, <1>6

-----------------------------------------------------------------------------
(* The numbers of the frames change only where one is received.             *)
LEMMA IdsStep ==
  ASSUME IInv, NEW l \in Lcores, UNCHANGED conf
  PROVE  /\ UNCHANGED frame => Ids' = Ids
         /\ RxPacket(l) =>
              \E q \in Ports : /\ Ids'[rxq[q][1]] = received + 1
                               /\ \A m \in PacketMbufs : m # rxq[q][1] => Ids'[m] = Ids[m]
                               /\ rxq[q][1] \in PacketMbufs
                               /\ pkts_burst'[l] = Append(pkts_burst[l], rxq[q][1])
                               /\ received' = received + 1
<1>1. FrameSet' = FrameSet
  BY SameConfiguration
<1>2. UNCHANGED frame => Ids' = Ids
  BY <1>1 DEF Ids
<1>3. ASSUME RxPacket(l)
      PROVE  \E q \in Ports : /\ Ids'[rxq[q][1]] = received + 1
                              /\ \A m \in PacketMbufs : m # rxq[q][1] => Ids'[m] = Ids[m]
                              /\ rxq[q][1] \in PacketMbufs
                              /\ pkts_burst'[l] = Append(pkts_burst[l], rxq[q][1])
                              /\ received' = received + 1
  <2>1. PICK q \in Ports, f \in Frames :
          /\ rxq[q][1] \in PacketMbufs
          /\ frame' = [frame EXCEPT ![rxq[q][1]] = FrameOf(f, received + 1)]
          /\ FrameOf(f, received + 1) \in FrameSet
          /\ pkts_burst' = [pkts_burst EXCEPT ![l] = Append(@, rxq[q][1])]
          /\ received' = received + 1
    BY <1>3, Received
  <2>2. /\ frame \in [PacketMbufs -> FrameSet \cup {Null}]
        /\ pkts_burst \in [Lcores -> Seq(PacketMbufs)]
    BY DEF IInv, Types, BufferTypes, LcoreTypes
  <2>3. FrameOf(f, received + 1).id = received + 1
    BY DEF FrameOf
  <2>4. frame'[rxq[q][1]] = FrameOf(f, received + 1)
    BY <2>1, <2>2
  <2>5. Ids'[rxq[q][1]] = received + 1
    BY <1>1, <2>1, <2>3, <2>4 DEF Ids
  <2>6. \A m \in PacketMbufs : m # rxq[q][1] => frame'[m] = frame[m]
    BY <2>1, <2>2
  <2>7. \A m \in PacketMbufs : m # rxq[q][1] => Ids'[m] = Ids[m]
    BY <1>1, <2>6 DEF Ids
  <2>. QED BY <2>1, <2>2, <2>5, <2>7
<1>. QED BY <1>2, <1>3

(* The lines through any step of the lcore, ...                             *)
LEMMA LineStep ==
  ASSUME Sound, Clean, Passage, Lines, NEW l \in Lcores, LcoreStep(l), NEW p \in Ports
  PROVE  Line(Ids', received', InFlight(l, p)', tx_mbufs'[l][p], pkts_burst'[l])
<1>. DEFINE n == received
            f == InFlight(l, p)
            t == tx_mbufs[l][p]
            b == pkts_burst[l]
            f1 == InFlight(l, p)'
            t1 == tx_mbufs'[l][p]
            b1 == pkts_burst'[l]
<1>1. IInv /\ UNCHANGED conf /\ n \in Nat
  <2>1. IInv /\ Idle /\ conf \in Configurations
    BY DEF Sound, IInv, Types
  <2>2. MaxFrames \in Nat /\ received \in 0 .. MaxFrames
    BY <2>1, Configured DEF IInv, Types, BufferTypes
  <2>. QED BY <2>1, <2>2, Awake
<1>2. Line(Ids, n, f, t, b)
  BY DEF Lines
<1>3. UNCHANGED frame => Ids' = Ids
  BY <1>1, IdsStep
<1>4. CASE Stays(l)
  BY <1>2, <1>3, <1>4 DEF Stays, SentKept
<1>5. CASE RxPacket(l) /\ SentKept(l, {})
  <2>1. PICK q \in Ports : /\ Ids'[rxq[q][1]] = received + 1
                           /\ \A m \in PacketMbufs : m # rxq[q][1] => Ids'[m] = Ids[m]
                           /\ rxq[q][1] \in PacketMbufs
                           /\ pkts_burst'[l] = Append(pkts_burst[l], rxq[q][1])
                           /\ received' = received + 1
    BY <1>1, <1>5, IdsStep
  <2>2. f1 = f /\ t1 = t
    BY <1>5 DEF SentKept
  <2>3. \A m \in Sent(l, p) : m \in PacketMbufs /\ m \in Mbufs
    BY MbufsAssumption DEF Passage, Fit
  <2>4. ASSUME NEW m \in Sent(l, p) PROVE Ids'[m] = Ids[m]
    BY <2>1, <2>3, Apart DEF Fresh
  <2>5. (\A j \in DOMAIN f : f[j] \in Sent(l, p)) /\ (\A j \in DOMAIN t : t[j] \in Sent(l, p))
    BY DEF Sent
  <2>6. ASSUME NEW j \in DOMAIN b PROVE Ids'[b[j]] = Ids[b[j]]
    BY <2>1, Apart DEF Fresh
  <2>7. Grown(b1, b, rxq[q][1])
    <3>1. b \in Seq(PacketMbufs)
      BY <1>1 DEF IInv, Types, LcoreTypes
    <3>. QED BY <2>1, <3>1, AppendGrows
  <2>8. /\ \A j \in DOMAIN f : Ids'[f[j]] = Ids[f[j]]
        /\ \A j \in DOMAIN t : Ids'[t[j]] = Ids[t[j]]
    BY <2>4, <2>5
  <2>9. Line(Ids', n + 1, f, t, b1)
    <3>1. PICK jd : jd = Ids'
      OBVIOUS
    <3>2. PICK m : m = rxq[q][1] /\ jd[m] = n + 1
      BY <2>1, <3>1
    <3>. HIDE DEF f, t, b, b1, n
    <3>3. /\ \A j \in DOMAIN f : jd[f[j]] = Ids[f[j]]
          /\ \A j \in DOMAIN t : jd[t[j]] = Ids[t[j]]
          /\ \A j \in DOMAIN b : jd[b[j]] = Ids[b[j]]
      BY <2>6, <2>8, <3>1
    <3>4. Line(jd, n + 1, f, t, b1)
      BY <1>1, <1>2, <2>7, <3>2, <3>3, LineGrows
    <3>. QED BY <3>1, <3>4
  <2>. HIDE DEF f, t, b, b1, n
  <2>10. received' = n + 1
    BY <2>1 DEF n
  <2>11. tx_mbufs'[l][p] = t /\ InFlight(l, p)' = f /\ pkts_burst'[l] = b1
    BY <2>2 DEF t, f, b1
  <2>. QED BY <2>9, <2>10, <2>11
<1>6. ASSUME NEW g, NEW u, NEW c, Line(Ids, n, g, u, c), UNCHANGED <<frame, received>>,
             f1 = g, t1 = u, b1 = c
      PROVE  Line(Ids', received', f1, t1, b1)
  BY <1>3, <1>6
<1>. HIDE DEF n, f, t, b, f1, t1, b1
<1>7. CASE Drops(l)
  <2>1. f1 = f /\ t1 = t /\ Cut(b1, b) /\ UNCHANGED <<frame, received>>
    BY <1>7 DEF Drops, SentKept, f, t, b, f1, t1, b1
  <2>2. Line(Ids, n, f, t, b1)
    BY <1>1, <1>2, <2>1, LineLeaves
  <2>3. Line(Ids', received', f1, t1, b1)
    BY <1>6, <2>1, <2>2
  <2>. QED BY <2>3 DEF f1, t1, b1
<1>8. CASE \E q \in Ports : Buffers(l, q)
  <2>1. PICK q \in Ports : Buffers(l, q)
    BY <1>8
  <2>2. f1 = f /\ Cut(b1, b) /\ UNCHANGED <<frame, received>>
    BY <2>1 DEF Buffers, SentKept, f, f1, b, b1
  <2>3. CASE q = p
    <3>1. Grown(t1, t, b[1])
      BY <2>1, <2>3 DEF Buffers, t, t1, b
    <3>2. /\ Increasing(Ids, t) /\ Increasing(Ids, b) /\ Before(Ids, t, b)
          /\ UpTo(Ids, t, n) /\ UpTo(Ids, b, n) /\ Increasing(Ids, f) /\ UpTo(Ids, f, n)
          /\ Before(Ids, f, t) /\ Before(Ids, f, b)
      BY <1>2 DEF Line
    <3>3. /\ Increasing(Ids, t1) /\ Increasing(Ids, b1) /\ Before(Ids, t1, b1)
          /\ UpTo(Ids, t1, n) /\ UpTo(Ids, b1, n)
          /\ Before(Ids, f, t1) /\ Before(Ids, f, b1)
      BY <1>1, <2>2, <3>1, <3>2, LineMoves
    <3>4. Line(Ids, n, f, t1, b1)
      BY <3>2, <3>3 DEF Line
    <3>5. Line(Ids', received', f1, t1, b1)
      BY <1>6, <2>2, <3>4
    <3>. QED BY <3>5 DEF f1, t1, b1
  <2>4. CASE q # p
    <3>1. t1 = t
      BY <2>1, <2>4 DEF Buffers, SentKept, t, t1
    <3>2. Line(Ids, n, f, t, b1)
      BY <1>1, <1>2, <2>2, LineLeaves
    <3>3. Line(Ids', received', f1, t1, b1)
      BY <1>6, <2>2, <3>1, <3>2
    <3>. QED BY <3>3 DEF f1, t1, b1
  <2>. QED BY <2>3, <2>4
<1>9. CASE \E q \in Ports : Loads(l, q)
  <2>1. PICK q \in Ports : Loads(l, q)
    BY <1>9
  <2>2. b1 = b /\ UNCHANGED <<frame, received>>
    BY <2>1 DEF Loads, b, b1
  <2>3. CASE q = p
    <3>1. Grown(f1, f, t[1]) /\ Cut(t1, t)
      BY <2>1, <2>3 DEF Loads, f, f1, t, t1
    <3>2. /\ Increasing(Ids, t) /\ Increasing(Ids, f) /\ Before(Ids, f, t)
          /\ UpTo(Ids, t, n) /\ UpTo(Ids, f, n) /\ Increasing(Ids, b) /\ UpTo(Ids, b, n)
          /\ Before(Ids, f, b) /\ Before(Ids, t, b)
      BY <1>2 DEF Line
    <3>3. /\ Increasing(Ids, f1) /\ Increasing(Ids, t1) /\ Before(Ids, f1, t1)
          /\ UpTo(Ids, f1, n) /\ UpTo(Ids, t1, n)
          /\ Before(Ids, f1, b) /\ Before(Ids, t1, b)
      BY <1>1, <3>1, <3>2, LineMoves
    <3>4. Line(Ids, n, f1, t1, b)
      BY <3>2, <3>3 DEF Line
    <3>5. Line(Ids', received', f1, t1, b1)
      BY <1>6, <2>2, <3>4
    <3>. QED BY <3>5 DEF f1, t1, b1
  <2>4. CASE q # p
    <3>1. f1 = f /\ t1 = t
      BY <2>1, <2>4 DEF Loads, f, f1, t, t1
    <3>2. Line(Ids', received', f1, t1, b1)
      BY <1>2, <1>6, <2>2, <3>1
    <3>. QED BY <3>2 DEF f1, t1, b1
  <2>. QED BY <2>3, <2>4
<1>10. CASE \E q \in Ports : Discards(l, q)
  <2>1. PICK q \in Ports : Discards(l, q)
    BY <1>10
  <2>2. f1 = f /\ b1 = b /\ UNCHANGED <<frame, received>>
    BY <2>1 DEF Discards, SentKept, f, f1, b, b1
  <2>3. t1 = t \/ Cut(t1, t)
    BY <2>1 DEF Discards, SentKept, t, t1
  <2>4. Line(Ids, n, f, t1, b)
    BY <1>1, <1>2, <2>3, LineLeaves
  <2>5. Line(Ids', received', f1, t1, b1)
    BY <1>6, <2>2, <2>4
  <2>. QED BY <2>5 DEF f1, t1, b1
<1>. QED BY <1>4, <1>5, <1>7, <1>8, <1>9, <1>10, Moves

(* ... and of the others.                                                   *)
LEMMA LinesNext ==
  Sound /\ IInv' /\ Passage /\ Lines /\ [Next]_vars => Lines'
<1>. SUFFICES ASSUME Sound, IInv', Passage, Lines, [Next]_vars PROVE Lines'
  OBVIOUS
<1>1. IInv /\ Idle /\ Rings /\ UNCHANGED conf
  BY Awake, Steps, QuietIs DEF Sound
<1>2. Clean' = Clean
  BY <1>1, SamePath
<1>3. ASSUME Clean, NEW k \in Lcores, NEW p \in Ports
      PROVE  Line(Ids', received', InFlight(k, p)', tx_mbufs'[k][p], pkts_burst'[k])
  <2>1. LonePath /\ Line(Ids, received, InFlight(k, p), tx_mbufs[k][p], pkts_burst[k])
    BY <1>3 DEF Clean, Lines
  <2>2. received \in Nat /\ received' \in Nat
    BY <1>1, Configured, SameConfiguration DEF IInv, Types, BufferTypes
  <2>3. CASE Quiet
    <3>1. UNCHANGED <<frame, received, tx_mbufs, pkts_burst>>
      BY <2>3, QuietIs DEF buffers, lcore
    <3>2. Ids' = Ids
      BY <1>1, <1>3, <3>1, IdsStep
    <3>3. InFlight(k, p)' = InFlight(k, p) \/ Cut(InFlight(k, p)', InFlight(k, p))
      BY <1>1, <1>3, <2>1, <2>3, FlightSent
    <3>4. PICK f1 : f1 = InFlight(k, p)'
      OBVIOUS
    <3>5. Line(Ids, received, f1, tx_mbufs[k][p], pkts_burst[k])
      BY <2>1, <2>2, <3>3, <3>4, LineLeaves
    <3>. QED BY <3>1, <3>2, <3>4, <3>5
  <2>4. ASSUME NEW l \in Lcores, LcoreStep(l)
        PROVE  Line(Ids', received', InFlight(k, p)', tx_mbufs'[k][p], pkts_burst'[k])
    <3>1. Line(Ids', received', InFlight(l, p)', tx_mbufs'[l][p], pkts_burst'[l])
      BY <1>3, <2>4, LineStep
    <3>2. CASE k # l
      <4>1. Front(InFlight(k, p)', InFlight(l, p)')
        BY <1>1, <1>3, <2>1, <2>4, <3>2, FlightFront
      <4>2. tx_mbufs'[k] = tx_mbufs[k] /\ pkts_burst'[k] = pkts_burst[k]
        BY <1>1, <1>3, <2>4, <3>2, Local DEF SameLcore
      <4>3. tx_mbufs'[k][p] = <<>> /\ pkts_burst'[k] = <<>>
        BY <1>1, <1>3, <2>1, <2>4, <3>2, <4>2, Alone
      <4>. DEFINE id == Ids'
                  n == received'
                  f == InFlight(l, p)'
                  t == tx_mbufs'[l][p]
                  b == pkts_burst'[l]
                  g == InFlight(k, p)'
      <4>4. n \in Nat /\ Line(id, n, f, t, b) /\ Front(g, f)
        BY <2>2, <3>1, <4>1
      <4>. HIDE DEF id, n, f, t, b, g
      <4>5. Line(id, n, g, <<>>, <<>>)
        BY <4>4, LineFront
      <4>. QED BY <4>3, <4>5 DEF id, n, g
    <3>. QED BY <3>1, <3>2
  <2>. QED BY <1>1, <2>3, <2>4, Steps
<1>. QED BY <1>2, <1>3 DEF Lines

-----------------------------------------------------------------------------
(* Learned ports stay, so that what was said of a packet stays true while   *)
(* its frame does.                                                          *)
LEMMA FitStays ==
  ASSUME IInv, [Next]_vars, UNCHANGED conf, ~l2_addr_map_'.damaged,
         NEW m \in PacketMbufs, frame'[m] = frame[m]
  PROVE  /\ Learned(m) => Learned(m)'
         /\ \A p \in Ports : Reaches(m, p) => Reaches(m, p)'
<1>1. UpperBytes' = UpperBytes
  BY SameConfiguration DEF IInv, Types
<1>2. \A k : Known(k) \subseteq Known(k)'
  BY NodeKept DEF Known
<1>. QED BY <1>1, <1>2 DEF Learned, Reaches

(* Only a received frame replaces another, and only the packet in the       *)
(* pipeline gets and loses headers.                                         *)
LEMMA DataStep ==
  ASSUME IInv, NEW l \in Lcores, LcoreStep(l), NEW m \in PacketMbufs, Fresh(m)
  PROVE  /\ frame'[m] = frame[m]
         /\ hdrs'[m] = hdrs[m] \/ (pkts_burst[l] # <<>> /\ m = Current(l))
<1>1. frame \in [PacketMbufs -> FrameSet \cup {Null}] /\ hdrs \in [PacketMbufs -> Seq(Headers)]
  BY DEF IInv, Types, BufferTypes
<1>2. CASE RxPacket(l)
  <2>1. PICK q \in Ports, f \in Frames :
          /\ frame' = [frame EXCEPT ![rxq[q][1]] = FrameOf(f, received + 1)]
          /\ hdrs' = [hdrs EXCEPT ![rxq[q][1]] = <<>>]
    BY <1>2, Received
  <2>2. m # rxq[q][1]
    BY DEF Fresh
  <2>. QED BY <1>1, <2>1, <2>2
<1>3. CASE Classify(l) \/ EnforceAllow(l) \/ Route(l) \/ Output(l)
  <2>1. UNCHANGED frame /\ pkts_burst[l] # <<>>
    BY <1>3 DEF Classify, EnforceAllow, Route, RouteTo, Crash, Output, buffers, At, Pipeline,
                IInv, Ready
  <2>2. \/ UNCHANGED hdrs
        \/ \E h : Prepend(Current(l), h)
        \/ Adjust(Current(l))
    BY <1>3 DEF Classify, EnforceAllow, Route, RouteTo, Crash, Output, buffers
  <2>. QED BY <1>1, <2>1, <2>2 DEF Prepend, Adjust
<1>4. CASE ~RxPacket(l) /\ ~(Classify(l) \/ EnforceAllow(l) \/ Route(l) \/ Output(l))
  BY <1>4 DEF LcoreStep, LoopTop, DrainPort, DrainDone, RxDone, LoopEnd, Learn, Insert,
              EnforceDrop, FloodPort, FloodNext, TxPacket, TxReclaim, TxEnd, FreeUnsent, buffers
<1>. QED BY <1>2, <1>3, <1>4

(* A lcore between packets, and one that works on m.                        *)
LEMMA StageClear ==
  ASSUME NEW l \in Lcores,
         pc'[l] \notin {"insert", "classify", "enforce", "route", "output"},
         \A k \in DOMAIN pkts_burst'[l] : hdrs'[pkts_burst'[l][k]] = <<>>
  PROVE  Stage(l)'
BY DEF Stage

LEMMA StageAt ==
  ASSUME NEW l \in Lcores, NEW m, Current(l)' = m,
         \A k \in DOMAIN pkts_burst'[l] :
           k > 1 \/ pc'[l] \notin {"enforce", "output"} => hdrs'[pkts_burst'[l][k]] = <<>>,
         pc'[l] = "insert" =>
           \E u \in UpperBytes' : entry'[l] = <<<<frame'[m].src, u>>, frame'[m].port>>,
         pc'[l] \in {"classify", "enforce", "route", "output"} => Learned(m)',
         pc'[l] = "enforce" => hdrs'[m] = <<Class(m)'>>,
         pc'[l] \in {"route", "output"} => frame'[m].flow # Forbidden,
         pc'[l] = "output" => \E q \in Ports : hdrs'[m] = <<q>> /\ Reaches(m, q)'
  PROVE  Stage(l)'
BY DEF Stage, Learned, Class, Reaches

(* The stages of the lcore that steps: between the packets of a burst, ...  *)
LEMMA StageBetween ==
  ASSUME Sound, Clean, Passage, NEW l \in Lcores,
         \/ LoopTop(l) \/ DrainPort(l) \/ DrainDone(l) \/ RxDone(l) \/ LoopEnd(l)
         \/ TxPacket(l) \/ TxReclaim(l) \/ TxEnd(l) \/ FreeUnsent(l)
  PROVE  Stage(l)'
<1>1. Stage(l) /\ Straight(l) /\ pc \in [Lcores -> PCs]
  BY DEF Passage, Sound, Clean, Unflooded, IInv, Types, LcoreTypes
<1>2. /\ UNCHANGED <<hdrs, pkts_burst>>
      /\ pc[l] \in {"loop", "drain", "rx", "tx", "unsent"}
      /\ pc'[l] \in {"loop", "drain", "rx", "learn", "tx", "unsent"}
  <2>1. CASE LoopTop(l) \/ DrainDone(l) \/ RxDone(l) \/ LoopEnd(l)
    BY <1>1, <2>1 DEF LoopTop, DrainDone, RxDone, LoopEnd, Goto, At, buffers
  <2>2. CASE DrainPort(l)
    BY <1>1, <2>2 DEF DrainPort, TxBegin, Goto, At, buffers
  <2>3. CASE TxPacket(l) \/ TxReclaim(l) \/ TxEnd(l) \/ FreeUnsent(l)
    <3>1. InDriver(l) /\ UNCHANGED <<hdrs, pkts_burst>> /\ pc'[l] \in {"tx", "unsent", after[l]}
      BY <1>1, <2>3 DEF TxPacket, TxReclaim, TxEnd, FreeUnsent, At, Goto, InDriver, lcore, buffers
    <3>. QED BY <1>1, <3>1 DEF Straight, InDriver
  <2>. QED BY <2>1, <2>2, <2>3
<1>3. \A k \in DOMAIN pkts_burst[l] : hdrs[pkts_burst[l][k]] = <<>>
  BY <1>1, <1>2 DEF Stage
<1>. QED BY <1>2, <1>3, StageClear

(* ... when a packet comes in, ...                                          *)
LEMMA StageReceived ==
  ASSUME Sound, Clean, Passage, NEW l \in Lcores, LcoreStep(l), RxPacket(l)
  PROVE  Stage(l)'
<1>1. IInv /\ Stage(l) /\ pkts_burst \in [Lcores -> Seq(PacketMbufs)]
      /\ hdrs \in [PacketMbufs -> Seq(Headers)]
  BY DEF Passage, Sound, IInv, Types, LcoreTypes, BufferTypes
<1>2. PICK q \in Ports : /\ rxq[q][1] \in PacketMbufs /\ hdrs' = [hdrs EXCEPT ![rxq[q][1]] = <<>>]
                         /\ pkts_burst' = [pkts_burst EXCEPT ![l] = Append(@, rxq[q][1])]
                         /\ pc[l] = "rx" /\ UNCHANGED pc
  BY <1>1, Received
<1>3. PICK b \in Seq(PacketMbufs), r \in PacketMbufs : b = pkts_burst[l] /\ r = rxq[q][1]
  BY <1>1, <1>2
<1>4. pkts_burst'[l] = Append(b, r)
  BY <1>1, <1>2, <1>3
<1>5. \A k \in DOMAIN b : b[k] \in PacketMbufs /\ hdrs[b[k]] = <<>>
  BY <1>1, <1>2, <1>3 DEF Stage
<1>6. ASSUME NEW k \in DOMAIN Append(b, r) PROVE hdrs'[Append(b, r)[k]] = <<>>
  <2>1. k = Len(b) + 1 \/ k \in 1 .. Len(b)
    BY <1>6, Appended
  <2>2. CASE k = Len(b) + 1
    BY <1>1, <1>2, <1>3, <2>2, Appended
  <2>3. CASE k \in 1 .. Len(b)
    <3>1. Append(b, r)[k] = b[k] /\ k \in DOMAIN b
      BY <2>3, Appended
    <3>. QED BY <1>1, <1>2, <1>3, <1>5, <3>1
  <2>. QED BY <2>1, <2>2, <2>3
<1>. QED BY <1>2, <1>4, <1>6, StageClear

(* ... when one is done with, ...                                           *)
LEMMA StageDone ==
  ASSUME Sound, Clean, Passage, NEW l \in Lcores, LcoreStep(l), EnforceDrop(l) \/ Output(l)
  PROVE  Stage(l)'
<1>1. IInv /\ Stage(l) /\ Straight(l) /\ pkts_burst \in [Lcores -> Seq(PacketMbufs)]
      /\ pc \in [Lcores -> PCs] /\ Resume(l) \in Labels /\ Resume(l) \in {"rx", "learn"}
  BY DEF Passage, Sound, Clean, Unflooded, IInv, Types, LcoreTypes, Resume, Labels, PCs
<1>2. /\ pkts_burst[l] # <<>> /\ Cut(pkts_burst'[l], pkts_burst[l])
      /\ pc'[l] \in {"rx", "learn", "tx"}
  <2>1. CASE EnforceDrop(l)
    <3>1. pkts_burst[l] # <<>> /\ DoneWithPacket(l) /\ Goto(l, Resume(l))
      BY <1>1, <2>1 DEF EnforceDrop, At, Pipeline, IInv, Ready
    <3>2. pkts_burst'[l] = Tail(pkts_burst[l]) /\ pc'[l] = Resume(l)
      BY <1>1, <3>1 DEF DoneWithPacket, Goto
    <3>. QED BY <1>1, <3>1, <3>2, TailCuts
  <2>2. CASE Output(l)
    <3>1. Outermost(Current(l)) \in Ports
      BY <1>1, <2>2 DEF Straight, Output, At
    <3>2. pkts_burst[l] # <<>> /\ DoneWithPacket(l)
          /\ SendSingle(l, Current(l), Outermost(Current(l)), Resume(l))
      BY <1>1, <2>2, <3>1, OutputCases, OutputClean
    <3>3. pkts_burst'[l] = Tail(pkts_burst[l])
      BY <1>1, <3>2 DEF DoneWithPacket
    <3>4. pc'[l] \in {Resume(l), "tx"}
      BY <1>1, <3>1, <3>2, SendGoes
    <3>. QED BY <1>1, <3>2, <3>3, <3>4, TailCuts
  <2>. QED BY <2>1, <2>2
<1>3. ASSUME NEW k \in DOMAIN pkts_burst'[l] PROVE hdrs'[pkts_burst'[l][k]] = <<>>
  <2>1. PICK j \in DOMAIN pkts_burst[l] :
          j > 1 /\ j # 1 /\ pkts_burst'[l][k] = pkts_burst[l][j] /\ 1 \in DOMAIN pkts_burst[l]
    <3>1. k \in Int /\ k >= 1 /\ k + 1 \in DOMAIN pkts_burst[l]
          /\ pkts_burst'[l][k] = pkts_burst[l][k + 1] /\ 1 \in DOMAIN pkts_burst[l]
      BY <1>2, <1>3 DEF Cut
    <3>2. k + 1 > 1 /\ k + 1 # 1
      BY <3>1
    <3>. QED BY <3>1, <3>2
  <2>2. hdrs[pkts_burst[l][j]] = <<>>
    BY <1>1, <2>1 DEF Stage
  <2>3. /\ pkts_burst[l][j] \in PacketMbufs /\ Fresh(pkts_burst[l][j])
        /\ pkts_burst[l][j] # pkts_burst[l][1]
    BY <2>1, Apart
  <2>4. Current(l) = pkts_burst[l][1]
    BY <1>1, <1>2, CurrentPacket
  <2>. QED BY <1>1, <2>1, <2>2, <2>3, <2>4, DataStep
<1>. QED BY <1>2, <1>3, StageClear

(* ... and on its way through the components.                               *)
LEMMA StageWorks ==
  ASSUME Sound, IInv', Clean, Passage, NEW l \in Lcores, LcoreStep(l), [Next]_vars,
         Learn(l) \/ Insert(l) \/ Classify(l) \/ EnforceAllow(l) \/ Route(l)
  PROVE  Stage(l)'
<1>1. /\ IInv /\ Idle /\ Stage(l) /\ UNCHANGED conf /\ LonePath /\ ~Floods
      /\ pc \in [Lcores -> PCs] /\ hdrs \in [PacketMbufs -> Seq(Headers)]
      /\ entry \in [Lcores -> (Keys \X Ports) \cup {Null}] /\ MapTypes /\ rx_queue_list[l] # <<>>
  BY Awake DEF Passage, Sound, Clean, IInv, Types, LcoreTypes, BufferTypes
<1>2. /\ UNCHANGED <<frame, pkts_burst>> /\ pkts_burst[l] # <<>>
      /\ pc[l] \in {"learn", "insert", "classify", "enforce", "route"}
  BY <1>1 DEF Learn, Insert, Classify, EnforceAllow, Route, RouteTo, Crash, buffers, lcore, At,
              Pipeline, IInv, Ready
<1>3. PICK m \in PacketMbufs : m = Current(l)
  BY <1>1, <1>2, CurrentPacket
<1>4. Current(l)' = m /\ frame[m] \in FrameSet /\ frame'[m] = frame[m] /\ UpperBytes' = UpperBytes
      /\ conf \in Configurations /\ m = pkts_burst[l][1] /\ 1 \in DOMAIN pkts_burst[l]
  BY <1>1, <1>2, <1>3, CurrentPacket, SameConfiguration DEF Current, IInv, Types
<1>5. /\ frame[m].src \in Hosts \cup {Broadcast} /\ frame[m].port \in Ports
      /\ \A u \in UpperBytes : <<frame[m].src, u>> \in Keys
  BY <1>4, FrameFields DEF Keys
<1>6. /\ Learned(m) => Learned(m)'
      /\ \A q \in Ports : Reaches(m, q) => Reaches(m, q)'
      /\ ~Unsafe(l)
  <2>1. Undamaged' /\ LonePath'
    BY <1>1, UndamagedStep, SamePath DEF Sound
  <2>. QED BY <1>1, <1>4, <2>1, FitStays, LoneInsert DEF Sound, Undamaged
<1>7. ASSUME NEW k \in DOMAIN pkts_burst[l]
      PROVE  /\ k > 1 => hdrs'[pkts_burst[l][k]] = <<>>
             /\ pc[l] # "enforce" => hdrs[pkts_burst[l][k]] = <<>>
             /\ pkts_burst[l][k] # m => hdrs'[pkts_burst[l][k]] = hdrs[pkts_burst[l][k]]
  <2>1. /\ k > 1 \/ pc[l] # "enforce" => hdrs[pkts_burst[l][k]] = <<>>
    BY <1>1, <1>2 DEF Stage
  <2>2. pkts_burst[l][k] \in PacketMbufs /\ Fresh(pkts_burst[l][k])
    BY Apart
  <2>3. pkts_burst[l][k] # m => hdrs'[pkts_burst[l][k]] = hdrs[pkts_burst[l][k]]
    BY <1>1, <1>3, <2>2, DataStep
  <2>4. k > 1 => pkts_burst[l][k] # m
    <3>1. k > 1 => k # 1
      BY <1>1 DEF IInv, Types, LcoreTypes
    <3>. QED BY <1>4, <3>1, Apart
  <2>. QED BY <2>1, <2>3, <2>4
<1>8. CASE Learn(l)
  <2>1. UNCHANGED <<hdrs, l2_addr_map_>> /\ pc[l] = "learn"
    BY <1>8 DEF Learn, buffers, At
  <2>2. PICK u \in UpperBytes :
          IF <<frame[m].src, u>> = BroadcastKey
            THEN Goto(l, "classify") /\ UNCHANGED entry
            ELSE \E port \in Lookup(l, <<frame[m].src, u>>) :
                   /\ Goto(l, IF port = Absent THEN "insert" ELSE "classify")
                   /\ entry' = [entry EXCEPT ![l] = IF port = Absent
                                                     THEN <<<<frame[m].src, u>>, frame[m].port>>
                                                     ELSE Null]
    BY <1>3, <1>8 DEF Learn
  <2>4. \/ pc'[l] = "classify" /\ Learned(m)
        \/ pc'[l] = "insert" /\ entry'[l] = <<<<frame[m].src, u>>, frame[m].port>>
    <3>1. CASE <<frame[m].src, u>> = BroadcastKey
      BY <1>1, <2>2, <3>1 DEF BroadcastKey, Learned, Goto
    <3>2. CASE <<frame[m].src, u>> # BroadcastKey
      <4>1. PICK port \in Lookup(l, <<frame[m].src, u>>) :
              /\ Goto(l, IF port = Absent THEN "insert" ELSE "classify")
              /\ entry' = [entry EXCEPT ![l] = IF port = Absent
                                                THEN <<<<frame[m].src, u>>, frame[m].port>>
                                                ELSE Null]
        BY <2>2, <3>2
      <4>2. port = Absent \/ Known(<<frame[m].src, u>>) # {}
        BY <1>6, <4>1 DEF Lookup
      <4>. QED BY <1>1, <4>1, <4>2 DEF Goto, Learned
    <3>. QED BY <3>1, <3>2
  <2>. QED BY <1>2, <1>4, <1>6, <1>7, <2>1, <2>4, StageAt
<1>9. CASE Insert(l)
  <2>1. UNCHANGED hdrs /\ pc[l] = "insert" /\ pc'[l] = "classify"
    BY <1>1, <1>9 DEF Insert, buffers, At, Goto
  <2>2. l2_addr_map_'.nodes = IF Known(entry[l][1]) = {}
                                THEN l2_addr_map_.nodes \cup {entry[l]}
                                ELSE l2_addr_map_.nodes
    BY <1>1, <1>6, <1>9, InsertNodes
  <2>3. PICK u \in UpperBytes : entry[l] = <<<<frame[m].src, u>>, frame[m].port>>
    BY <1>1, <1>3, <2>1 DEF Stage
  <2>4. \E q \in Ports : <<<<frame[m].src, u>>, q>> \in l2_addr_map_'.nodes
    <3>1. CASE Known(<<frame[m].src, u>>) = {}
      BY <1>5, <2>2, <2>3, <3>1
    <3>2. CASE Known(<<frame[m].src, u>>) # {}
      BY <2>2, <2>3, <3>2 DEF Known
    <3>. QED BY <3>1, <3>2
  <2>5. Learned(m)'
    BY <1>4, <2>4 DEF Learned, Known
  <2>. QED BY <1>2, <1>4, <1>7, <2>1, <2>5, StageAt
<1>10. CASE Classify(l)
  <2>1. /\ pc[l] = "classify" /\ pc'[l] = "enforce" /\ Prepend(m, Class(m))
    BY <1>1, <1>3, <1>10 DEF Classify, At, Goto, Class
  <2>2. hdrs[m] = <<>> /\ Learned(m)
    BY <1>1, <1>3, <1>4, <1>7, <2>1 DEF Stage
  <2>3. hdrs'[m] = <<Class(m)>>
    <3>1. \A x : <<x>> \o <<>> = <<x>>
      OBVIOUS
    <3>. QED BY <1>1, <2>1, <2>2, <3>1 DEF Prepend
  <2>4. hdrs'[m] = <<Class(m)'>>
    BY <1>4, <2>3 DEF Class
  <2>. QED BY <1>2, <1>4, <1>6, <1>7, <2>1, <2>2, <2>4, StageAt
<1>11. CASE EnforceAllow(l)
  <2>1. pc[l] = "enforce" /\ pc'[l] = "route" /\ Adjust(m) /\ Outermost(m) = ALLOW
    BY <1>1, <1>3, <1>11 DEF EnforceAllow, At, Goto
  <2>2. Learned(m) /\ hdrs[m] = <<Class(m)>>
    BY <1>1, <1>3, <2>1 DEF Stage
  <2>3. frame[m].flow # Forbidden
    BY <2>1, <2>2, ValuesAssumption DEF Outermost, Class
  <2>4. hdrs'[m] = <<>>
    BY <1>1, <2>1, <2>2 DEF Adjust
  <2>5. \A k \in DOMAIN pkts_burst[l] : hdrs'[pkts_burst[l][k]] = <<>>
    <3>1. ASSUME NEW k \in DOMAIN pkts_burst[l], k # 1 PROVE k > 1
      BY <1>1, <3>1 DEF IInv, Types, LcoreTypes
    <3>. QED BY <1>4, <1>7, <2>4, <3>1
  <2>. QED BY <1>2, <1>4, <1>6, <2>1, <2>2, <2>3, <2>5, StageAt
<1>12. CASE Route(l)
  <2>1. pc[l] = "route" /\ hdrs[m] = <<>> /\ Learned(m) /\ frame[m].flow # Forbidden
    BY <1>1, <1>3, <1>4, <1>7, <1>12 DEF Route, At, Stage
  <2>2. CASE Crash
    <3>1. UNCHANGED <<hdrs, pc>>
      BY <2>2 DEF Crash, buffers, lcore
    <3>. QED BY <1>2, <1>4, <1>6, <1>7, <2>1, <3>1, StageAt
  <2>3. ASSUME NEW u \in UpperBytes, NEW q \in Ports,
               q \in Known(<<frame[m].dst, u>>), RouteTo(l, q)
        PROVE  Stage(l)'
    <3>1. pc'[l] = "output" /\ Prepend(m, q) /\ Reaches(m, q)
      BY <1>1, <1>3, <2>3 DEF RouteTo, Goto, Reaches
    <3>2. hdrs'[m] = <<q>>
      <4>1. \A x : <<x>> \o <<>> = <<x>>
        OBVIOUS
      <4>. QED BY <1>1, <2>1, <3>1, <4>1 DEF Prepend
    <3>. QED BY <1>2, <1>4, <1>6, <1>7, <2>1, <3>1, <3>2, StageAt
  <2>. QED BY <1>1, <1>3, <1>12, <2>2, <2>3, RouteClean
<1>. QED BY <1>8, <1>9, <1>10, <1>11, <1>12

(* What is on its way out was on it, or comes from output.                  *)
LEMMA SentStep ==
  ASSUME Sound, Clean, NEW l \in Lcores, LcoreStep(l), NEW p \in Ports, NEW m \in Sent(l, p)'
  PROVE  m \in Sent(l, p) \/ (Output(l) /\ m = Current(l) /\ p = Outermost(Current(l)))
<1>. DEFINE f == InFlight(l, p)
            t == tx_mbufs[l][p]
            f1 == InFlight(l, p)'
            t1 == tx_mbufs'[l][p]
            new == Output(l) /\ m = Current(l) /\ p = Outermost(Current(l))
<1>1. (\E k \in DOMAIN f1 : m = f1[k]) \/ (\E k \in DOMAIN t1 : m = t1[k])
  BY DEF Sent
<1>2. ASSUME \/ \E k \in DOMAIN f : m = f[k]
             \/ \E k \in DOMAIN t : m = t[k]
      PROVE  m \in Sent(l, p)
  BY <1>2 DEF Sent
<1>3. \/ f1 = f /\ t1 = t
      \/ f1 = f /\ Cut(t1, t)
      \/ f1 = f /\ Grown(t1, t, Current(l)) /\ Output(l) /\ p = Outermost(Current(l))
      \/ Grown(f1, f, t[1]) /\ Cut(t1, t)
  BY Moves DEF Stays, Drops, Buffers, Loads, Discards, SentKept
<1>. HIDE DEF f, t, f1, t1
<1>4. ASSUME NEW x, NEW y, Cut(x, y), NEW k \in DOMAIN x PROVE \E j \in DOMAIN y : x[k] = y[j]
  BY <1>4 DEF Cut
<1>5. ASSUME NEW x, NEW y, NEW z, Grown(x, y, z), NEW k \in DOMAIN x
      PROVE  x[k] = z \/ \E j \in DOMAIN y : x[k] = y[j]
  BY <1>5 DEF Grown
<1>6. CASE f1 = f /\ t1 = t
  BY <1>1, <1>2, <1>6
<1>7. CASE f1 = f /\ Cut(t1, t)
  BY <1>1, <1>2, <1>4, <1>7
<1>8. CASE f1 = f /\ Grown(t1, t, Current(l)) /\ Output(l) /\ p = Outermost(Current(l))
  BY <1>1, <1>2, <1>5, <1>8
<1>9. CASE Grown(f1, f, t[1]) /\ Cut(t1, t)
  <2>1. 1 \in DOMAIN t
    BY <1>9 DEF Cut
  <2>. QED BY <1>1, <1>2, <1>4, <1>5, <1>9, <2>1
<1>. QED BY <1>3, <1>6, <1>7, <1>8, <1>9

(* It is as it should be.                                                   *)
LEMMA FitStep ==
  ASSUME Sound, Clean, Passage, NEW l \in Lcores, LcoreStep(l), [Next]_vars,
         NEW p \in Ports, NEW m \in Sent(l, p)'
  PROVE  Fit(m, p)'
<1>1. IInv /\ UNCHANGED conf /\ FrameSet' = FrameSet /\ Stage(l)
      /\ hdrs \in [PacketMbufs -> Seq(Headers)]
  BY Awake, SameConfiguration DEF Sound, Passage, IInv, Types, BufferTypes
<1>2. ASSUME m \in PacketMbufs, frame[m] \in FrameSet, frame'[m] = frame[m], hdrs'[m] = <<>>,
             frame[m].flow # Forbidden, Reaches(m, p), Learned(m)
      PROVE  Fit(m, p)'
  <2>1. ~l2_addr_map_'.damaged
    BY <1>1, UndamagedStep, SamePath DEF Sound, Undamaged, Clean
  <2>2. Learned(m)' /\ Reaches(m, p)'
    BY <1>1, <1>2, <2>1, FitStays
  <2>. QED BY <1>1, <1>2, <2>2 DEF Fit
<1>3. CASE m \in Sent(l, p)
  <2>1. Fit(m, p) /\ m \in Mbufs
    BY <1>3, MbufsAssumption DEF Passage, Fit
  <2>2. Fresh(m) /\ \A k \in DOMAIN pkts_burst[l] : m # pkts_burst[l][k]
    BY <1>3, <2>1, Apart
  <2>3. frame'[m] = frame[m] /\ hdrs'[m] = hdrs[m]
    <3>1. pkts_burst[l] # <<>> => m # Current(l)
      BY <1>1, <2>2, CurrentPacket
    <3>. QED BY <1>1, <2>1, <2>2, <3>1, DataStep DEF Fit
  <2>. QED BY <1>2, <2>1, <2>3 DEF Fit
<1>4. CASE Output(l) /\ m = Current(l) /\ p = Outermost(Current(l))
  <2>1. pkts_burst[l] # <<>> /\ pc[l] = "output" /\ Adjust(m) /\ UNCHANGED frame
    BY <1>1, <1>4, OutputCases DEF Output, At
  <2>2. m \in PacketMbufs /\ frame[m] \in FrameSet
    BY <1>1, <1>4, <2>1, CurrentPacket
  <2>3. PICK q \in Ports : hdrs[m] = <<q>> /\ Reaches(m, q)
    BY <1>1, <1>4, <2>1 DEF Stage
  <2>4. q = p /\ Learned(m) /\ frame[m].flow # Forbidden
    BY <1>1, <1>4, <2>1, <2>3 DEF Stage, Outermost
  <2>5. hdrs'[m] = <<>>
    BY <1>1, <2>1, <2>2, <2>3 DEF Adjust
  <2>. QED BY <1>2, <2>1, <2>2, <2>3, <2>4, <2>5
<1>. QED BY <1>3, <1>4, SentStep

LEMMA PassageNext ==
  Sound /\ IInv' /\ Passage /\ [Next]_vars => Passage'
<1>. SUFFICES ASSUME Sound, IInv', Passage, [Next]_vars PROVE Passage'
  OBVIOUS
<1>1. IInv /\ Idle /\ Rings /\ UNCHANGED conf /\ UpperBytes' = UpperBytes /\ FrameSet' = FrameSet
  BY Awake, Steps, QuietIs, SameConfiguration DEF Sound
<1>2. Clean' = Clean
  BY <1>1, SamePath
<1>3. ASSUME Clean, NEW k \in Lcores PROVE Stage(k)'
  <2>1. CASE Quiet
    <3>1. UNCHANGED <<frame, hdrs, l2_addr_map_, pkts_burst, entry, pc>>
      BY <2>1, QuietIs DEF buffers, lcore
    <3>2. Stage(k)
      BY <1>3 DEF Passage
    <3>. QED BY <1>1, <3>1, <3>2 DEF Stage, Learned, Reaches, Known, Class, Current
  <2>2. ASSUME NEW l \in Lcores, LcoreStep(l), k = l PROVE Stage(k)'
    <3>1. ~(FloodPort(l) \/ FloodNext(l))
      BY <1>3, <2>2 DEF Sound, Clean, Unflooded, Straight, FloodPort, FloodNext, At
    <3>. QED BY <1>3, <2>2, <3>1, StageBetween, StageReceived, StageDone, StageWorks DEF LcoreStep
  <2>3. ASSUME NEW l \in Lcores, LcoreStep(l), k # l PROVE Stage(k)'
    <3>1. pkts_burst'[k] = <<>> /\ pc'[k] = "loop"
      BY <1>1, <1>3, <2>3, Alone, Local DEF SameLcore, Clean
    <3>. QED BY <3>1, StageClear
  <2>. QED BY <1>1, <2>1, <2>2, <2>3, Steps
<1>4. ASSUME Clean, NEW k \in Lcores, NEW p \in Ports, NEW m \in Sent(k, p)' PROVE Fit(m, p)'
  <2>1. CASE Quiet
    <3>1. UNCHANGED <<frame, hdrs, l2_addr_map_, tx_mbufs>>
      BY <2>1, QuietIs DEF buffers
    <3>2. InFlight(k, p)' = InFlight(k, p) \/ Cut(InFlight(k, p)', InFlight(k, p))
      BY <1>1, <1>4, <2>1, FlightSent DEF Clean
    <3>3. \A j \in DOMAIN InFlight(k, p)' : \E i \in DOMAIN InFlight(k, p) :
            InFlight(k, p)'[j] = InFlight(k, p)[i]
      BY <3>2 DEF Cut
    <3>4. m \in Sent(k, p)
      <4>. DEFINE f == InFlight(k, p)
                  f1 == InFlight(k, p)'
      <4>1. (\E j \in DOMAIN f1 : m = f1[j]) \/ (\E j \in DOMAIN tx_mbufs[k][p] : m = tx_mbufs[k][p][j])
        BY <1>4, <3>1 DEF Sent
      <4>. HIDE DEF f, f1
      <4>2. (\E j \in DOMAIN f : m = f[j]) \/ (\E j \in DOMAIN tx_mbufs[k][p] : m = tx_mbufs[k][p][j])
        BY <3>3, <4>1 DEF f, f1
      <4>. QED BY <4>2 DEF Sent, f
    <3>5. Fit(m, p)
      BY <1>4, <3>4 DEF Passage
    <3>. QED BY <1>1, <3>1, <3>5 DEF Fit, Learned, Reaches, Known
  <2>2. ASSUME NEW l \in Lcores, LcoreStep(l) PROVE Fit(m, p)'
    <3>1. CASE k = l
      BY <1>4, <2>2, <3>1, FitStep
    <3>2. CASE k # l
      <4>1. Front(InFlight(k, p)', InFlight(l, p)')
        BY <1>1, <1>4, <2>2, <3>2, FlightFront DEF Clean
      <4>2. tx_mbufs'[k][p] = <<>>
        BY <1>1, <1>4, <2>2, <3>2, Alone, Local DEF SameLcore, Clean
      <4>. DEFINE f == InFlight(k, p)'
                  g == InFlight(l, p)'
      <4>3. \E j \in DOMAIN f : m = f[j]
        BY <1>4, <4>2 DEF Sent
      <4>. HIDE DEF f, g
      <4>4. \E j \in DOMAIN g : m = g[j]
        BY <4>1, <4>3 DEF Front, f, g
      <4>5. m \in Sent(l, p)'
        BY <4>4 DEF Sent, g
      <4>. QED BY <1>4, <2>2, <4>5, FitStep
    <3>. QED BY <3>1, <3>2
  <2>. QED BY <1>1, <2>1, <2>2, Steps
<1>. QED BY <1>2, <1>3, <1>4 DEF Passage

(* Nothing is on its way when the program starts.                           *)
LEMMA InitPassage == Init => Passage /\ Lines
<1>. SUFFICES ASSUME Init PROVE Passage /\ Lines
  OBVIOUS
<1>1. 0 \in Descs
  BY SizesAssumption DEF Descs
<1>2. \A l \in Lcores, p \in Ports : DOMAIN InFlight(l, p) = {}
  <2>1. Between(0, 0) = 0
    BY <1>1, BetweenIs
  <2>. SUFFICES ASSUME NEW l \in Lcores, NEW p \in Ports PROVE DOMAIN InFlight(l, p) = {}
    OBVIOUS
  <2>2. txq[p].head = 0 /\ TailSeen(l, p) = 0
    BY DEF Init, EmptyTxQueue, TailSeen
  <2>3. DOMAIN InFlight(l, p) = 1 .. 0
    BY <2>1, <2>2 DEF InFlight
  <2>. QED BY <2>3
<1>3. \A l \in Lcores : /\ pkts_burst[l] = <<>> /\ pc[l] = "loop"
                        /\ \A p \in Ports : tx_mbufs[l][p] = <<>>
  BY DEF Init
<1>4. DOMAIN <<>> = {}
  OBVIOUS
<1>5. Passage
  BY <1>2, <1>3, <1>4 DEF Passage, Stage, Sent
<1>6. Lines
  BY <1>2, <1>3, <1>4 DEF Lines, Line, Increasing, Before, UpTo
<1>. QED BY <1>5, <1>6

LEMMA SpecPassage == Spec => [](IInv /\ Passage /\ Lines)
<1>1. Init => Sound /\ Passage /\ Lines
  <2>1. Init => Undamaged
    BY DEF Init, Undamaged
  <2>. QED BY <2>1, InitIInv, InitIdle, InitRings, InitUnflooded, InitOwned, InitPassage DEF Sound
<1>2. Sound /\ [Next]_vars => IInv' /\ Sound'
  <2>1. Sound /\ [Next]_vars => IInv' /\ Idle' /\ Undamaged' /\ Rings' /\ Unflooded'
    BY NextIInv, IdleStep, UndamagedStep, RingsStep, UnfloodedStep DEF Sound
  <2>2. Sound /\ [Next]_vars => Owned' /\ Chains'
    BY OwnedNext DEF Sound
  <2>. QED BY <2>1, <2>2 DEF Sound
<1>3. Sound /\ Passage /\ Lines /\ [Next]_vars => Passage' /\ Lines'
  BY <1>2, PassageNext, LinesNext
<1>4. Sound => IInv
  BY DEF Sound
<1>. QED BY <1>1, <1>2, <1>3, <1>4, PTL DEF Spec

(* What is on its way out of a port.                                        *)
LEMMA OnTheWayIs ==
  ASSUME IInv, NEW l \in Lcores, NEW p \in Ports
  PROVE  LET f == InFlight(l, p)
             t == tx_mbufs[l][p]
             n == Between(txq[p].head, TailSeen(l, p))
         IN /\ n \in Nat /\ Len(t) \in Nat /\ DOMAIN t = 1 .. Len(t) /\ DOMAIN f = 1 .. n
            /\ DOMAIN OnTheWay(l, p) = 1 .. n + Len(t) /\ Len(OnTheWay(l, p)) = n + Len(t)
            /\ \A k \in 1 .. n + Len(t) :
                 OnTheWay(l, p)[k] = IF k <= n THEN f[k] ELSE t[k - n]
            /\ OnTheWay(l, p) \in Seq(Mbufs \cup {Null})
            /\ Range(OnTheWay(l, p)) \subseteq Sent(l, p)
<1>. DEFINE f == InFlight(l, p)
            t == tx_mbufs[l][p]
            n == Between(txq[p].head, TailSeen(l, p))
<1>1. txq[p] \in TxQueues /\ TailSeen(l, p) \in Descs /\ t \in Seq(Mbufs)
  BY DEF IInv, Types, RingTypes, LcoreTypes, TailSeen, TxQueues
<1>2. n \in Nat /\ DOMAIN f = 1 .. n
  BY <1>1, InFlightIs, WindowIs
<1>3. f \in Seq(Mbufs \cup {Null})
  <2>1. ASSUME NEW k \in DOMAIN f PROVE f[k] \in Mbufs \cup {Null}
    <3>1. PICK d \in DOMAIN txq[p].sw_ring : f[k] = txq[p].sw_ring[d]
      BY FlightEntries
    <3>. HIDE DEF f
    <3>. QED BY <1>1, <3>1 DEF TxQueues
  <2>2. f = [k \in 1 .. n |-> f[k]]
    BY DEF InFlight
  <2>. HIDE DEF f, n
  <2>. QED BY <1>2, <2>1, <2>2
<1>4. t \in Seq(Mbufs \cup {Null}) /\ Len(t) \in Nat /\ DOMAIN t = 1 .. Len(t)
  BY <1>1
<1>5. OnTheWay(l, p) = f \o t
  BY DEF OnTheWay
<1>. HIDE DEF f, t, n
<1>6. Len(f) = n
  BY <1>2, <1>3
<1>7. /\ f \o t \in Seq(Mbufs \cup {Null}) /\ Len(f \o t) = n + Len(t)
      /\ DOMAIN (f \o t) = 1 .. n + Len(t)
      /\ \A k \in 1 .. n + Len(t) : (f \o t)[k] = IF k <= n THEN f[k] ELSE t[k - n]
  BY <1>2, <1>3, <1>4, <1>6
<1>8. ASSUME NEW m \in Range(f \o t) PROVE m \in Sent(l, p)
  <2>1. PICK k \in 1 .. n + Len(t) : m = (f \o t)[k]
    BY <1>7, <1>8 DEF Range
  <2>2. (\E j \in DOMAIN f : m = f[j]) \/ (\E j \in DOMAIN t : m = t[j])
    <3>1. CASE k <= n
      BY <1>2, <1>7, <2>1, <3>1
    <3>2. CASE ~(k <= n)
      <4>1. k - n \in DOMAIN t
        BY <1>2, <1>4, <3>2
      <4>. QED BY <1>7, <2>1, <3>2, <4>1
    <3>. QED BY <3>1, <3>2
  <2>. QED BY <2>2 DEF Sent, f, t
<1>. QED BY <1>2, <1>4, <1>5, <1>7, <1>8 DEF f, t, n

LEMMA PassageFits ==
  ASSUME IInv, Passage, Clean, NEW l \in Lcores, NEW p \in Ports, NEW m \in Range(OnTheWay(l, p))
  PROVE  Fit(m, p)
BY OnTheWayIs DEF Passage

(* No packet the enforcer had to stop is ever in a transmit buffer or in    *)
(* the ring: for any number of frames, buffers and ports.                   *)
THEOREM ForbiddenNeverSent == Spec => []ForbiddenStays
<1>1. IInv /\ Passage => ForbiddenStays
  BY PassageFits DEF ForbiddenStays, Fit
<1>. QED BY <1>1, SpecPassage, PTL

(* The classification and the output port the components write before a     *)
(* frame are gone from it before pkt_send_single buffers it.                *)
THEOREM SentBare == Spec => []BareOnTheWire
<1>1. IInv /\ Passage => BareOnTheWire
  BY PassageFits DEF BareOnTheWire, Fit
<1>. QED BY <1>1, SpecPassage, PTL

(* Whatever component_route sends goes to a port where component_learn has  *)
(* put its destination, and its source has a port: whatever the unwritten   *)
(* bytes of the addresses hold.                                             *)
THEOREM SentAsLearned == Spec => []RoutedToLearned
<1>1. IInv /\ Passage => RoutedToLearned
  <2>. SUFFICES ASSUME IInv, Passage, Clean, NEW l \in Lcores, NEW p \in Ports,
                       NEW m \in Range(OnTheWay(l, p))
                PROVE  /\ \E u \in UpperBytes : p \in Known(<<frame[m].dst, u>>)
                       /\ frame[m].src # Broadcast =>
                            \E u \in UpperBytes : Known(<<frame[m].src, u>>) # {}
    BY DEF RoutedToLearned
  <2>. QED BY PassageFits DEF Fit, Reaches, Learned
<1>. QED BY <1>1, SpecPassage, PTL

(* From the receive ring through the burst, the transmit buffer and the     *)
(* descriptors no frame overtakes one that came in before it on its port.   *)
THEOREM OrderKept == Spec => []InOrder
<1>1. IInv /\ Passage /\ Lines => InOrder
  <2>. SUFFICES ASSUME IInv, Passage, Lines, Clean, NEW l \in Lcores, NEW p \in Ports
                PROVE  LET s == OnTheWay(l, p) \o pkts_burst[l]
                       IN \A j, k \in DOMAIN s :
                            j < k /\ frame[s[j]].port = frame[s[k]].port =>
                              frame[s[j]].id < frame[s[k]].id
    BY DEF InOrder
  <2>. DEFINE f == InFlight(l, p)
              t == tx_mbufs[l][p]
              b == pkts_burst[l]
              n == Between(txq[p].head, TailSeen(l, p))
              w == OnTheWay(l, p)
              s == w \o b
  <2>1. /\ n \in Nat /\ Len(t) \in Nat /\ DOMAIN t = 1 .. Len(t) /\ DOMAIN f = 1 .. n
        /\ Len(w) = n + Len(t) /\ DOMAIN w = 1 .. n + Len(t)
        /\ \A k \in 1 .. n + Len(t) : w[k] = IF k <= n THEN f[k] ELSE t[k - n]
        /\ w \in Seq(Mbufs \cup {Null}) /\ Range(w) \subseteq Sent(l, p)
    BY OnTheWayIs
  <2>2. b \in Seq(PacketMbufs) /\ \A k \in DOMAIN b : frame[b[k]] \in FrameSet
    BY DEF IInv, Types, LcoreTypes, Ready
  <2>3. Line(Ids, received, f, t, b)
    BY DEF Lines
  <2>4. \A m \in Sent(l, p) : m \in PacketMbufs /\ frame[m] \in FrameSet
    BY DEF Passage, Fit
  <2>5. \A m \in PacketMbufs : frame[m] \in FrameSet => Ids[m] = frame[m].id
    BY DEF Ids
  <2>. HIDE DEF f, t, b, n, w
  <2>6. /\ DOMAIN s = 1 .. (n + Len(t)) + Len(b) /\ Len(b) \in Nat /\ DOMAIN b = 1 .. Len(b)
        /\ \A k \in 1 .. (n + Len(t)) + Len(b) :
             s[k] = IF k <= n + Len(t) THEN w[k] ELSE b[k - (n + Len(t))]
    <3>1. b \in Seq(Mbufs \cup {Null}) /\ Len(b) \in Nat /\ DOMAIN b = 1 .. Len(b)
      BY <2>2, MbufsAssumption
    <3>2. /\ w \o b \in Seq(Mbufs \cup {Null}) /\ DOMAIN (w \o b) = 1 .. Len(w) + Len(b)
          /\ \A k \in 1 .. Len(w) + Len(b) :
               (w \o b)[k] = IF k <= Len(w) THEN w[k] ELSE b[k - Len(w)]
      BY <2>1, <3>1
    <3>3. Len(w) = n + Len(t)
      BY <2>1
    <3>. QED BY <3>1, <3>2, <3>3
  <2>. HIDE DEF s
  <2>7. ASSUME NEW k \in DOMAIN s
        PROVE  \/ k <= n /\ k \in DOMAIN f /\ s[k] = f[k]
               \/ k > n /\ k <= n + Len(t) /\ k - n \in DOMAIN t /\ s[k] = t[k - n]
               \/ k > n + Len(t) /\ k - (n + Len(t)) \in DOMAIN b /\ s[k] = b[k - (n + Len(t))]
    <3>. DEFINE c == n + Len(t)
    <3>1. c \in Nat /\ k \in 1 .. c + Len(b) /\ k \in Int /\ n <= c
      BY <2>1, <2>6, <2>7
    <3>2. s[k] = IF k <= c THEN w[k] ELSE b[k - c]
      BY <2>6, <3>1
    <3>3. CASE k <= n
      <4>1. k \in 1 .. c /\ k \in DOMAIN f
        BY <2>1, <3>1, <3>3
      <4>2. w[k] = f[k] /\ s[k] = w[k]
        BY <2>1, <3>1, <3>2, <3>3, <4>1
      <4>. QED BY <3>3, <4>1, <4>2
    <3>4. CASE k > n /\ k <= c
      <4>1. k \in 1 .. c /\ k - n \in DOMAIN t /\ ~(k <= n)
        BY <2>1, <3>1, <3>4
      <4>2. w[k] = t[k - n] /\ s[k] = w[k]
        BY <2>1, <3>1, <3>2, <3>4, <4>1
      <4>. QED BY <3>4, <4>1, <4>2
    <3>5. CASE k > c
      <4>1. k - c \in DOMAIN b /\ ~(k <= c)
        BY <2>6, <3>1, <3>5
      <4>. QED BY <3>2, <3>5, <4>1
    <3>. QED BY <2>1, <3>1, <3>3, <3>4, <3>5
  <2>8. ASSUME NEW j \in DOMAIN s, NEW k \in DOMAIN s, j < k PROVE Ids[s[j]] < Ids[s[k]]
    <3>1. j \in Int /\ k \in Int
      BY <2>1, <2>6
    <3>2. CASE k <= n
      <4>1. j <= n
        BY <2>1, <2>8, <3>1, <3>2
      <4>2. j \in DOMAIN f /\ k \in DOMAIN f /\ s[j] = f[j] /\ s[k] = f[k]
        BY <2>1, <2>6, <2>7, <3>1, <3>2, <4>1
      <4>. QED BY <2>3, <2>8, <4>2 DEF Line, Increasing
    <3>3. CASE k > n /\ k <= n + Len(t)
      <4>1. k - n \in DOMAIN t /\ s[k] = t[k - n]
        BY <2>1, <2>6, <2>7, <3>1, <3>3
      <4>2. CASE j <= n
        <5>1. j \in DOMAIN f /\ s[j] = f[j]
          BY <2>1, <2>6, <2>7, <3>1, <4>2
        <5>. QED BY <2>3, <4>1, <5>1 DEF Line, Before
      <4>3. CASE j > n
        <5>1. j <= n + Len(t) /\ j - n < k - n
          BY <2>1, <2>8, <3>1, <3>3
        <5>2. j - n \in DOMAIN t /\ s[j] = t[j - n]
          BY <2>1, <2>6, <2>7, <3>1, <4>3, <5>1
        <5>. QED BY <2>3, <4>1, <5>1, <5>2 DEF Line, Increasing
      <4>. QED BY <2>1, <3>1, <4>2, <4>3
    <3>4. CASE k > n + Len(t)
      <4>1. k - (n + Len(t)) \in DOMAIN b /\ s[k] = b[k - (n + Len(t))]
        BY <2>1, <2>6, <2>7, <3>1, <3>4
      <4>2. CASE j <= n
        <5>1. j \in DOMAIN f /\ s[j] = f[j]
          BY <2>1, <2>6, <2>7, <3>1, <4>2
        <5>. QED BY <2>3, <4>1, <5>1 DEF Line, Before
      <4>3. CASE j > n /\ j <= n + Len(t)
        <5>1. j - n \in DOMAIN t /\ s[j] = t[j - n]
          BY <2>1, <2>6, <2>7, <3>1, <4>3
        <5>. QED BY <2>3, <4>1, <5>1 DEF Line, Before
      <4>4. CASE j > n + Len(t)
        <5>1. j - (n + Len(t)) \in DOMAIN b /\ s[j] = b[j - (n + Len(t))]
              /\ j - (n + Len(t)) < k - (n + Len(t))
          BY <2>1, <2>6, <2>7, <2>8, <3>1, <4>4
        <5>. QED BY <2>3, <4>1, <5>1 DEF Line, Increasing
      <4>. QED BY <2>1, <3>1, <4>2, <4>3, <4>4
    <3>. QED BY <2>1, <3>1, <3>2, <3>3, <3>4
  <2>9. ASSUME NEW k \in DOMAIN s PROVE Ids[s[k]] = frame[s[k]].id
    <3>1. CASE k <= n + Len(t)
      <4>1. k \in DOMAIN w /\ s[k] = w[k]
        BY <2>1, <2>6, <2>9, <3>1
      <4>2. s[k] \in Range(w)
        BY <4>1 DEF Range
      <4>. QED BY <2>1, <2>4, <2>5, <4>2
    <3>2. CASE ~(k <= n + Len(t))
      <4>1. k - (n + Len(t)) \in DOMAIN b /\ s[k] = b[k - (n + Len(t))]
        BY <2>1, <2>6, <2>7, <2>9, <3>2
      <4>2. s[k] \in PacketMbufs /\ frame[s[k]] \in FrameSet
        BY <2>2, <4>1
      <4>. QED BY <2>5, <4>2
    <3>. QED BY <3>1, <3>2
  <2>10. \A j, k \in DOMAIN s : j < k => frame[s[j]].id < frame[s[k]].id
    BY <2>8, <2>9
  <2>. QED BY <2>10 DEF s, w, b
<1>. QED BY <1>1, SpecPassage, PTL
=============================================================================
