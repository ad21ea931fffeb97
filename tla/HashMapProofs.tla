---------------------------- MODULE HashMapProofs ----------------------------
(***************************************************************************)
(* What the run of module MCHashMap checks for four threads and two users, *)
(* for any number of threads, users and buckets; and that the map          *)
(* implements Registry.                                                    *)
(***************************************************************************)
EXTENDS HashMap, TLAPS, FiniteSetTheorems, SequenceTheorems

(* A chain holds entries of its own bucket, at most one for each uid. *)
Chain(s, b) ==
    /\ s \in Seq(Handlers)
    /\ \A i \in 1..Len(s) : BucketOf[UidOf[s[i]]] = b
    /\ \A i, j \in 1..Len(s) : UidOf[s[i]] = UidOf[s[j]] => i = j

Chains == \A b \in Buckets : Chain(chain[b], b)

(* What a thread inside a call relies on: it holds the mutex it is about to  *)
(* release, and only a handler updates the map, under its own uid.           *)
Updates(t) == pc[t] \in {"readCount", "writeCount"}
Leaves(t) == pc[t] \in {"readCount", "writeCount", "unlock"}

InCall(t) ==
    /\ pc[t] \in {"insert", "erase", "readCount", "writeCount"} => t \in Handlers /\ key[t] = UidOf[t]
    /\ Leaves(t) => mutex[BucketOf[key[t]]] = t
    /\ pc[t] = "iterate" => mutex[bucket[t]] = t
    /\ Leaves(t) <=> answer[t] # "none"
    /\ Updates(t) => answer[t] \in {"new", "erased"}
    /\ node[t] >= 1

MapInv == TypeOK /\ Chains /\ \A t \in Threads : InCall(t)

(* The count is off by one while a thread is about to change it. *)
Counted ==
    /\ (\A t \in Threads : ~Updates(t)) => currentElements = Cardinality(Entries)
    /\ \A t \in Threads : Updates(t) =>
          /\ answer[t] = "new" => currentElements + 1 = Cardinality(Entries)
          /\ answer[t] = "erased" => currentElements = Cardinality(Entries) + 1
          /\ pc[t] = "writeCount" => read[t] = currentElements

CountInv == MapInv /\ Counted

(* An iteration has visited once those stable entries that it has passed,    *)
(* and no other stable one.                                                  *)
Iterates(t) == pc[t] \in {"iterLock", "iterate"}
Home(h) == BucketOf[UidOf[h]]

Passed(t, h) == \/ Home(h) < bucket[t]
                \/ /\ Home(h) = bucket[t]
                   /\ \E i \in 1..(node[t] - 1) : i <= Len(chain[bucket[t]]) /\ chain[bucket[t]][i] = h

Once(s, h) == \E i \in 1..Len(s) : s[i] = h /\ \A j \in 1..Len(s) : s[j] = h => j = i
Never(s, h) == \A i \in 1..Len(s) : s[i] # h

Progress(t) ==
    /\ ~Iterates(t) => bucket[t] = 0 /\ visited[t] = <<>> /\ stable[t] = {}
    /\ pc[t] # "iterate" => node[t] = 1
    /\ \A h \in stable[t] : /\ h \in Range(chain[Home(h)])
                            /\ Passed(t, h) => Once(visited[t], h)
                            /\ ~Passed(t, h) => Never(visited[t], h)

IterInv == MapInv /\ \A t \in Threads : Progress(t)

-----------------------------------------------------------------------------
LEMMA BucketType == BucketOf \in [Uids -> Buckets]
<1>1. ASSUME NEW u \in Uids PROVE Bucket(u) \in Buckets
  <2>1. StrToULong(u) \in Nat /\ HashSize \in Nat \ {0}
    BY MapAssumption, UidAssumption DEF MapAssumption, UidAssumption
  <2> QED BY <2>1 DEF Bucket, Buckets
<1> QED BY <1>1 DEF BucketOf

LEMMA ChainMembers ==
  ASSUME NEW s \in Seq(Handlers)
  PROVE  /\ Range(s) \subseteq Handlers
         /\ \A i \in 1..Len(s) : s[i] \in Range(s)
         /\ \A x \in Range(s) : \E i \in 1..Len(s) : s[i] = x
<1>1. DOMAIN s = 1..Len(s) /\ \A i \in 1..Len(s) : s[i] \in Handlers
  BY LenProperties, ElementOfSeq
<1> QED BY <1>1 DEF Range

(* What the three updates do to the chain of the bucket. *)
LEMMA ChainAppend ==
  ASSUME NEW b, NEW s, Chain(s, b), NEW h \in Handlers, BucketOf[UidOf[h]] = b,
         \A i \in 1..Len(s) : UidOf[s[i]] # UidOf[h]
  PROVE  Chain(Append(s, h), b) /\ Range(Append(s, h)) = Range(s) \cup {h}
<1> DEFINE a == Append(s, h)
<1>1. s \in Seq(Handlers) /\ a \in Seq(Handlers) /\ Len(a) = Len(s) + 1 /\ Len(s) \in Nat
  BY DEF Chain
<1>2. a[Len(s) + 1] = h /\ \A i \in 1..Len(s) : a[i] = s[i]
  BY <1>1
<1> HIDE DEF a
<1>3. Chain(a, b)
  BY <1>1, <1>2 DEF Chain
<1>4. ASSUME NEW x \in Range(a) PROVE x \in Range(s) \/ x = h
  <2>1. PICK i \in 1..Len(a) : a[i] = x
    BY <1>1, ChainMembers
  <2> QED BY <1>1, <1>2, <2>1, ChainMembers
<1>5. ASSUME NEW x, x \in Range(s) \/ x = h PROVE x \in Range(a)
  <2>1. CASE x = h
    BY <1>1, <1>2, <2>1, ChainMembers
  <2>2. CASE x \in Range(s)
    <3>1. PICK i \in 1..Len(s) : s[i] = x
      BY <1>1, <2>2, ChainMembers
    <3>2. i \in 1..Len(a) /\ a[i] = x
      BY <1>1, <1>2, <3>1
    <3> QED BY <1>1, <3>2, ChainMembers
  <2> QED BY <1>5, <2>1, <2>2
<1> QED BY <1>3, <1>4, <1>5 DEF a

LEMMA ChainReplace ==
  ASSUME NEW b, NEW s, Chain(s, b), NEW h \in Handlers, NEW p \in 1..Len(s), UidOf[s[p]] = UidOf[h]
  PROVE  Chain([s EXCEPT ![p] = h], b) /\ Range([s EXCEPT ![p] = h]) = (Range(s) \ {s[p]}) \cup {h}
<1> DEFINE a == [s EXCEPT ![p] = h]
<1>1. s \in Seq(Handlers) /\ a \in Seq(Handlers) /\ Len(a) = Len(s) /\ Len(s) \in Nat
  BY ExceptSeq DEF Chain
<1>2. \A i \in 1..Len(s) : a[i] = IF i = p THEN h ELSE s[i]
  BY <1>1, ExceptSeq
<1> HIDE DEF a
<1>3. Chain(a, b)
  BY <1>1, <1>2 DEF Chain
<1>4. \A i \in 1..Len(s) : s[i] = s[p] => i = p
  BY DEF Chain
<1>5. ASSUME NEW x \in Range(a) PROVE x = h \/ (x \in Range(s) /\ x # s[p])
  <2>1. PICK i \in 1..Len(s) : a[i] = x
    BY <1>1, <1>5, ChainMembers
  <2> QED BY <1>1, <1>2, <1>4, <2>1, ChainMembers
<1>6. ASSUME NEW x, x = h \/ (x \in Range(s) /\ x # s[p]) PROVE x \in Range(a)
  <2>1. CASE x = h
    BY <1>1, <1>2, <2>1, ChainMembers
  <2>2. CASE x \in Range(s) /\ x # s[p]
    <3>1. PICK i \in 1..Len(s) : s[i] = x
      BY <1>1, <2>2, ChainMembers
    <3>2. a[i] = x
      BY <1>2, <2>2, <3>1
    <3> QED BY <1>1, <3>2, ChainMembers
  <2> QED BY <1>6, <2>1, <2>2
<1> QED BY <1>3, <1>5, <1>6 DEF a

LEMMA ChainRemove ==
  ASSUME NEW b, NEW s, Chain(s, b), NEW p \in 1..Len(s)
  PROVE  Chain(RemoveAt(s, p), b) /\ Range(RemoveAt(s, p)) = Range(s) \ {s[p]}
<1> DEFINE a == RemoveAt(s, p)
           front == SubSeq(s, 1, p - 1)
           back == SubSeq(s, p + 1, Len(s))
<1>1. s \in Seq(Handlers) /\ Len(s) \in Nat /\ p \in Nat
  BY DEF Chain
<1>2. front \in Seq(Handlers) /\ Len(front) = p - 1 /\ \A i \in 1..(p - 1) : front[i] = s[i]
  BY <1>1, SubSeqProperties
<1>3. back \in Seq(Handlers) /\ Len(back) = Len(s) - p /\ \A i \in 1..(Len(s) - p) : back[i] = s[p + i]
  BY <1>1, SubSeqProperties
<1>4. a = front \o back
  BY DEF RemoveAt
<1> HIDE DEF a, front, back
<1>5. a \in Seq(Handlers) /\ Len(a) = Len(s) - 1
  <2>1. a \in Seq(Handlers) /\ Len(a) = Len(front) + Len(back)
    BY <1>2, <1>3, <1>4, ConcatProperties
  <2> QED BY <1>1, <1>2, <1>3, <2>1
<1>6. \A i \in 1..(Len(s) - 1) : a[i] = IF i < p THEN s[i] ELSE s[i + 1]
  <2> SUFFICES ASSUME NEW i \in 1..(Len(s) - 1) PROVE a[i] = IF i < p THEN s[i] ELSE s[i + 1]
    OBVIOUS
  <2>1. a[i] = IF i <= Len(front) THEN front[i] ELSE back[i - Len(front)]
    BY <1>1, <1>2, <1>3, <1>4, ConcatProperties
  <2>2. CASE i < p
    BY <1>1, <1>2, <2>1, <2>2
  <2>3. CASE i >= p
    <3>1. i - (p - 1) \in 1..(Len(s) - p) /\ p + (i - (p - 1)) = i + 1
      BY <1>1, <2>3
    <3> QED BY <1>1, <1>2, <1>3, <2>1, <2>3, <3>1
  <2> QED BY <1>1, <2>2, <2>3
<1> DEFINE from(i) == IF i < p THEN i ELSE i + 1
<1>7. ASSUME NEW i \in 1..Len(a), NEW j \in 1..Len(a)
      PROVE  /\ from(i) \in 1..Len(s) /\ a[i] = s[from(i)] /\ from(i) # p
             /\ from(i) = from(j) => i = j
  BY <1>1, <1>5, <1>6
<1> HIDE DEF from
<1>8. Chain(a, b)
  <2>1. ASSUME NEW i \in 1..Len(a) PROVE BucketOf[UidOf[a[i]]] = b
    BY <1>7 DEF Chain
  <2>2. ASSUME NEW i \in 1..Len(a), NEW j \in 1..Len(a), UidOf[a[i]] = UidOf[a[j]] PROVE i = j
    <3>1. from(i) = from(j)
      BY <1>7, <2>2 DEF Chain
    <3> QED BY <1>7, <3>1
  <2> QED BY <1>5, <2>1, <2>2 DEF Chain
<1>9. \A i \in 1..Len(s) : s[i] = s[p] => i = p
  BY DEF Chain
<1>10. ASSUME NEW x \in Range(a) PROVE x \in Range(s) /\ x # s[p]
  <2>1. PICK i \in 1..Len(a) : a[i] = x
    BY <1>5, <1>10, ChainMembers
  <2> QED BY <1>1, <1>7, <1>9, <2>1, ChainMembers
<1>11. ASSUME NEW x \in Range(s), x # s[p] PROVE x \in Range(a)
  <2>1. PICK i \in 1..Len(s) : s[i] = x
    BY <1>1, ChainMembers
  <2>2. CASE i < p
    <3>1. i \in 1..Len(a) /\ a[i] = x
      BY <1>1, <1>5, <1>6, <2>1, <2>2
    <3> QED BY <1>5, <3>1, ChainMembers
  <2>3. CASE i > p
    <3>1. i - 1 \in 1..Len(a) /\ a[i - 1] = x
      BY <1>1, <1>5, <1>6, <2>1, <2>3
    <3> QED BY <1>5, <3>1, ChainMembers
  <2> QED BY <1>1, <1>11, <2>1, <2>2, <2>3
<1> QED BY <1>8, <1>10, <1>11 DEF a

-----------------------------------------------------------------------------
(* The walk ends at u's node, or behind a chain in which u does not occur.   *)
LEMMA PlaceFound ==
  ASSUME Chains, NEW u \in Uids, NEW s, s = chain[BucketOf[u]]
  PROVE  /\ Chain(s, BucketOf[u])
         /\ Place(u) \in 1..(Len(s) + 1)
         /\ Present(u) <=> Place(u) <= Len(s)
         /\ Present(u) => UidOf[s[Place(u)]] = u
         /\ ~Present(u) => \A j \in 1..Len(s) : UidOf[s[j]] # u
<1>1. Chain(s, BucketOf[u]) /\ s \in Seq(Handlers) /\ Len(s) \in Nat
  BY BucketType DEF Chains, Chain
<1> DEFINE Stops(i) == /\ \A j \in 1..(i - 1) : UidOf[s[j]] # u
                       /\ i <= Len(s) => UidOf[s[i]] = u
<1>2. \E i \in 1..(Len(s) + 1) : Stops(i)
  <2>1. CASE \E i \in 1..Len(s) : UidOf[s[i]] = u
    <3>1. PICK i \in 1..Len(s) : UidOf[s[i]] = u
      BY <2>1
    <3>2. \A j \in 1..(i - 1) : UidOf[s[j]] # u
      BY <1>1, <3>1 DEF Chain
    <3>3. i \in 1..(Len(s) + 1) /\ Stops(i)
      BY <1>1, <3>1, <3>2
    <3> QED BY <3>3
  <2>2. CASE \A i \in 1..Len(s) : UidOf[s[i]] # u
    <3>1. Len(s) + 1 \in 1..(Len(s) + 1) /\ Stops(Len(s) + 1)
      BY <1>1, <2>2
    <3> QED BY <3>1
  <2> QED BY <2>1, <2>2
<1>3. Place(u) = CHOOSE i \in 1..(Len(s) + 1) : Stops(i)
  BY DEF Place
<1> HIDE DEF Stops
<1>4. Place(u) \in 1..(Len(s) + 1) /\ Stops(Place(u))
  BY <1>2, <1>3
<1>5. Present(u) <=> Place(u) <= Len(s)
  BY DEF Present
<1>6. Present(u) => UidOf[s[Place(u)]] = u
  BY <1>4, <1>5 DEF Stops
<1>7. ASSUME ~Present(u), NEW j \in 1..Len(s) PROVE UidOf[s[j]] # u
  BY <1>1, <1>4, <1>5, <1>7 DEF Stops
<1> QED BY <1>1, <1>4, <1>5, <1>6, <1>7

(* Entries are told apart by their uids, and find returns the one with u's.  *)
LEMMA EntriesDiffer ==
  ASSUME Chains
  PROVE  /\ Entries \subseteq Handlers
         /\ \A h \in Handlers : h \in Entries <=> h \in Range(chain[Home(h)])
         /\ \A b \in Buckets : \A h \in Range(chain[b]) : h \in Handlers /\ Home(h) = b
         /\ \A h, g \in Entries : UidOf[h] = UidOf[g] => h = g
<1>1. ASSUME NEW b \in Buckets, NEW h \in Range(chain[b])
      PROVE  h \in Handlers /\ Home(h) = b /\ \E i \in 1..Len(chain[b]) : chain[b][i] = h
  <2>1. Chain(chain[b], b)
    BY DEF Chains
  <2>2. chain[b] \in Seq(Handlers)
    BY <2>1 DEF Chain
  <2>3. PICK i \in 1..Len(chain[b]) : chain[b][i] = h
    BY <2>2, ChainMembers
  <2>4. BucketOf[UidOf[h]] = b
    BY <2>1, <2>3 DEF Chain
  <2> QED BY <2>2, <2>3, <2>4, ChainMembers DEF Home
<1>2. \A h \in Entries : \E b \in Buckets : h \in Range(chain[b])
  BY DEF Entries
<1>3. \A h \in Handlers : Home(h) \in Buckets
  BY BucketType, MapAssumption DEF MapAssumption, Home
<1>4. \A h \in Handlers : h \in Range(chain[Home(h)]) => h \in Entries
  BY <1>3 DEF Entries
<1>5. ASSUME NEW h \in Entries PROVE h \in Handlers /\ h \in Range(chain[Home(h)])
  BY <1>1, <1>2
<1>6. ASSUME NEW h \in Entries, NEW g \in Entries, UidOf[h] = UidOf[g] PROVE h = g
  <2>1. Home(h) = Home(g) /\ Home(h) \in Buckets
    BY <1>3, <1>5, <1>6 DEF Home
  <2> DEFINE s == chain[Home(h)]
  <2>2. PICK i \in 1..Len(s), j \in 1..Len(s) : s[i] = h /\ s[j] = g
    BY <1>1, <1>5, <2>1
  <2>3. i = j
    BY <1>6, <2>1, <2>2 DEF Chains, Chain
  <2> QED BY <2>2, <2>3
<1> QED BY <1>1, <1>4, <1>5, <1>6

LEMMA EntryIs ==
  ASSUME Chains, NEW u \in Uids
  PROVE  /\ Present(u) => Entry(u) \in Entries /\ UidOf[Entry(u)] = u
         /\ ~Present(u) => Entry(u) = NULL /\ \A h \in Entries : UidOf[h] # u
<1> DEFINE s == chain[BucketOf[u]]
<1>1. BucketOf[u] \in Buckets
  BY BucketType
<1>2. s \in Seq(Handlers) /\ Len(s) \in Nat
  BY <1>1 DEF Chains, Chain
<1>3. CASE Present(u)
  <2>1. Place(u) \in 1..Len(s) /\ UidOf[s[Place(u)]] = u
    BY <1>2, <1>3, PlaceFound
  <2>2. Entry(u) = s[Place(u)]
    BY <1>3 DEF Entry
  <2>3. Entry(u) \in Range(s)
    BY <1>2, <2>1, <2>2, ChainMembers
  <2> QED BY <1>1, <1>3, <2>1, <2>2, <2>3 DEF Entries
<1>4. CASE ~Present(u)
  <2>1. \A j \in 1..Len(s) : UidOf[s[j]] # u
    BY <1>4, PlaceFound
  <2>2. ASSUME NEW h \in Entries, UidOf[h] = u PROVE FALSE
    <3>1. h \in Range(s)
      BY <2>2, EntriesDiffer DEF Home
    <3> QED BY <1>2, <2>1, <2>2, <3>1, ChainMembers
  <2> QED BY <1>4, <2>2 DEF Entry
<1> QED BY <1>3, <1>4

(* The same of the chains as a step leaves them. *)
Leads(u) ==
    \/ Present(u) /\ Entry(u) \in Entries /\ UidOf[Entry(u)] = u
    \/ ~Present(u) /\ Entry(u) = NULL /\ \A h \in Entries : UidOf[h] # u

Distinct == \A h, g \in Entries : UidOf[h] = UidOf[g] => h = g

Found == Entries \subseteq Handlers /\ Distinct /\ \A u \in Uids : Leads(u)

LEMMA ChainsFound == Chains => Found
  BY EntriesDiffer, EntryIs DEF Found, Distinct, Leads

LEMMA ChainsFoundNext == Chains' => Found'
  BY ChainsFound, PTL

-----------------------------------------------------------------------------
LEMMA InsertEffect ==
  ASSUME MapInv, NEW h \in Handlers, Insert(h)
  PROVE  /\ chain' \in [Buckets -> Seq(Handlers)] /\ Chains'
         /\ Entries' = (Entries \ {Entry(UidOf[h])}) \cup {h}
         /\ \A b \in Buckets : b # Home(h) => chain'[b] = chain[b]
<1> DEFINE u == UidOf[h]
           b == BucketOf[u]
           s == chain[b]
<1>1. key[h] = u /\ u \in Uids /\ b \in Buckets /\ Chains
  BY MapAssumption, BucketType DEF MapInv, InCall, Insert, MapAssumption, Threads
<1>2. chain \in [Buckets -> Seq(Handlers)] /\ Chain(s, b) /\ Len(s) \in Nat
  BY <1>1 DEF MapInv, TypeOK, Chains, Chain
<1>3. ASSUME NEW a, chain' = [chain EXCEPT ![b] = a], Chain(a, b),
             Range(a) = (Range(s) \ {Entry(u)}) \cup {h}
      PROVE  /\ chain' \in [Buckets -> Seq(Handlers)] /\ Chains'
             /\ Entries' = (Entries \ {Entry(u)}) \cup {h}
             /\ \A c \in Buckets : c # b => chain'[c] = chain[c]
  <2>1. chain'[b] = a /\ \A c \in Buckets : c # b => chain'[c] = chain[c]
    BY <1>1, <1>2, <1>3
  <2>2. chain' \in [Buckets -> Seq(Handlers)]
    BY <1>2, <1>3 DEF Chain
  <2>3. Chains'
    BY <1>1, <1>3, <2>1 DEF Chains, Chain
  <2>4. ASSUME NEW c \in Buckets, c # b PROVE Entry(u) \notin Range(chain[c])
    <3>1. CASE Present(u)
      BY <1>1, <2>4, <3>1, EntryIs, EntriesDiffer DEF Home
    <3>2. CASE ~Present(u)
      BY <1>1, <3>2, EntryIs, EntriesDiffer, MapAssumption DEF MapAssumption, Threads
    <3> QED BY <3>1, <3>2
  <2>5. ASSUME NEW x PROVE x \in Entries' <=> x \in (Entries \ {Entry(u)}) \cup {h}
    <3>1. x \in Entries' <=> \E c \in Buckets : x \in Range(chain'[c])
      BY DEF Entries, Buckets
    <3>2. x \in Entries <=> \E c \in Buckets : x \in Range(chain[c])
      BY DEF Entries
    <3> QED BY <1>1, <1>3, <2>1, <2>4, <3>1, <3>2
  <2> QED BY <2>1, <2>2, <2>3, <2>5
<1>4. CASE Present(u)
  <2>1. Place(u) \in 1..Len(s) /\ UidOf[s[Place(u)]] = u /\ Entry(u) = s[Place(u)]
    BY <1>1, <1>2, <1>4, PlaceFound DEF Entry
  <2>2. chain' = [chain EXCEPT ![b] = [s EXCEPT ![Place(u)] = h]]
    BY <1>1, <1>2, <1>4 DEF Insert
  <2> QED BY <1>2, <1>3, <2>1, <2>2, ChainReplace DEF Home
<1>5. CASE ~Present(u)
  <2>1. /\ Entry(u) = NULL /\ NULL \notin Handlers
        /\ \A j \in 1..Len(s) : UidOf[s[j]] # u
    <3>1. Entry(u) = NULL /\ NULL \notin Handlers
      BY <1>1, <1>5, EntryIs, MapAssumption DEF MapAssumption, Threads
    <3>2. \A j \in 1..Len(s) : UidOf[s[j]] # u
      BY <1>1, <1>5, PlaceFound
    <3> QED BY <3>1, <3>2
  <2>2. chain' = [chain EXCEPT ![b] = Append(s, h)]
    BY <1>1, <1>2, <1>5 DEF Insert
  <2>3. Entry(u) \notin Range(s)
    BY <1>1, <2>1, EntriesDiffer
  <2>4. Chain(Append(s, h), b) /\ Range(Append(s, h)) = Range(s) \cup {h}
    BY <1>2, <2>1, ChainAppend
  <2> QED BY <1>3, <2>2, <2>3, <2>4 DEF Home
<1> QED BY <1>4, <1>5

LEMMA EraseEffect ==
  ASSUME MapInv, NEW h \in Handlers, Erase(h)
  PROVE  /\ chain' \in [Buckets -> Seq(Handlers)] /\ Chains'
         /\ Entries' = Entries \ {Entry(UidOf[h])}
         /\ \A b \in Buckets : b # Home(h) => chain'[b] = chain[b]
<1> DEFINE u == UidOf[h]
           b == BucketOf[u]
           s == chain[b]
<1>1. key[h] = u /\ u \in Uids /\ b \in Buckets /\ Chains
  BY MapAssumption, BucketType DEF MapInv, InCall, Erase, MapAssumption, Threads
<1>2. chain \in [Buckets -> Seq(Handlers)] /\ Chain(s, b) /\ Len(s) \in Nat
  BY <1>1 DEF MapInv, TypeOK, Chains, Chain
<1>3. CASE Present(u)
  <2> DEFINE a == RemoveAt(s, Place(u))
  <2>1. Place(u) \in 1..Len(s) /\ UidOf[s[Place(u)]] = u /\ Entry(u) = s[Place(u)]
    BY <1>1, <1>2, <1>3, PlaceFound DEF Entry
  <2>2. Chain(a, b) /\ Range(a) = Range(s) \ {Entry(u)}
    BY <1>2, <2>1, ChainRemove
  <2>3. chain' = [chain EXCEPT ![b] = a]
    BY <1>1, <1>2, <1>3 DEF Erase
  <2> HIDE DEF a
  <2>4. chain'[b] = a /\ \A c \in Buckets : c # b => chain'[c] = chain[c]
    BY <1>1, <1>2, <2>3
  <2>5. chain' \in [Buckets -> Seq(Handlers)] /\ Chains'
    <3>1. chain' \in [Buckets -> Seq(Handlers)]
      BY <1>2, <2>2, <2>3 DEF Chain
    <3>2. Chains'
      BY <1>1, <2>2, <2>4 DEF Chains, Chain
    <3> QED BY <3>1, <3>2
  <2>6. \A c \in Buckets : c # b => Entry(u) \notin Range(chain[c])
    BY <1>1, <1>3, EntryIs, EntriesDiffer DEF Home
  <2>7. ASSUME NEW x PROVE x \in Entries' <=> x \in Entries \ {Entry(u)}
    <3>1. x \in Entries' <=> \E c \in Buckets : x \in Range(chain'[c])
      BY DEF Entries, Buckets
    <3>2. x \in Entries <=> \E c \in Buckets : x \in Range(chain[c])
      BY DEF Entries
    <3> QED BY <1>1, <2>2, <2>4, <2>6, <3>1, <3>2
  <2> QED BY <2>4, <2>5, <2>7 DEF Home
<1>4. CASE ~Present(u)
  <2>1. UNCHANGED chain
    BY <1>1, <1>4 DEF Erase
  <2>2. Entry(u) \notin Entries
    BY <1>1, <1>4, EntryIs, EntriesDiffer, MapAssumption DEF MapAssumption, Threads
  <2> QED BY <1>1, <1>2, <2>1, <2>2 DEF Chains, Entries, Buckets
<1> QED BY <1>3, <1>4

-----------------------------------------------------------------------------
LEMMA MapInitial == Init => MapInv
<1> SUFFICES ASSUME Init PROVE MapInv
  OBVIOUS
<1> USE MapAssumption, UidAssumption DEF MapAssumption, UidAssumption
<1>1. NoUid \in Uids /\ 0 \in Buckets /\ 0 \in 0..(SizeMod - 1)
  BY DEF NoUid, Buckets
<1>2. <<>> \in Seq(Handlers) /\ Len(<<>>) = 0
  OBVIOUS
<1>3. TypeOK
  BY <1>1, <1>2 DEF Init, TypeOK, Responses
<1>4. Chains
  BY <1>2 DEF Init, Chains, Chain
<1>5. \A t \in Threads : InCall(t)
  BY DEF Init, InCall, Updates, Leaves
<1> QED BY <1>3, <1>4, <1>5 DEF MapInv

(* A step of one thread takes no mutex away from another. *)
Frame(t) ==
    /\ \A d \in Threads : d # t => /\ pc'[d] = pc[d] /\ key'[d] = key[d] /\ answer'[d] = answer[d]
                                  /\ bucket'[d] = bucket[d] /\ node'[d] = node[d]
    /\ \A b \in Buckets : mutex'[b] = mutex[b] \/ mutex[b] \in {NULL, t}

LEMMA OthersInCall ==
  ASSUME MapInv, NEW t \in Threads, Frame(t), NEW d \in Threads, d # t
  PROVE  InCall(d)'
<1>1. BucketOf[key[d]] \in Buckets /\ bucket[d] \in Buckets /\ InCall(d) /\ d # NULL
  BY BucketType, MapAssumption DEF MapInv, TypeOK, MapAssumption
<1>2. /\ pc'[d] = pc[d] /\ key'[d] = key[d] /\ answer'[d] = answer[d]
      /\ bucket'[d] = bucket[d] /\ node'[d] = node[d]
      /\ mutex[BucketOf[key[d]]] = d => mutex'[BucketOf[key[d]]] = d
      /\ mutex[bucket[d]] = d => mutex'[bucket[d]] = d
  BY <1>1 DEF Frame
<1> QED BY <1>1, <1>2 DEF InCall, Leaves, Updates, BucketOf

LEMMA MapStep == MapInv /\ [Next]_vars => MapInv'
<1> SUFFICES ASSUME MapInv, [Next]_vars PROVE MapInv'
  OBVIOUS
<1> USE MapAssumption DEF MapAssumption
<1>1. TypeOK /\ Chains /\ \A t \in Threads : InCall(t)
  BY DEF MapInv
<1>2. ASSUME NEW t \in Threads, TypeOK', Chains', Frame(t), InCall(t)' PROVE MapInv'
  BY <1>2, OthersInCall DEF MapInv
<1>3. CASE UNCHANGED vars
  <2>1. TypeOK' /\ Chains'
    BY <1>1, <1>3 DEF vars, countVars, iterVars, TypeOK, Chains, Buckets
  <2>2. \A t \in Threads : InCall(t)'
    BY <1>1, <1>3 DEF vars, iterVars, InCall, Leaves, Updates, BucketOf
  <2> QED BY <2>1, <2>2 DEF MapInv
<1>4. ASSUME NEW t \in Threads, NEW what \in {"find", "insert", "erase"}, NEW u \in Uids,
             Call(t, what, u), what # "find" => t \in Handlers /\ u = UidOf[t]
      PROVE  MapInv'
  <2>1. TypeOK' /\ Chains'
    BY <1>1, <1>4 DEF Call, Goto, countVars, iterVars, TypeOK, Chains
  <2>2. Frame(t)
    BY <1>1, <1>4 DEF Call, Goto, iterVars, Frame, TypeOK
  <2>3. InCall(t)'
    BY <1>1, <1>4 DEF Call, Goto, iterVars, InCall, Leaves, Updates, TypeOK
  <2> QED BY <1>2, <2>1, <2>2, <2>3
<1>5. ASSUME NEW t \in Threads, CallIterate(t) PROVE MapInv'
  <2>1. Entries \subseteq Handlers
    BY <1>1, EntriesDiffer
  <2>2. TypeOK' /\ Chains'
    BY <1>1, <1>5, <2>1 DEF CallIterate, Goto, countVars, iterVars, TypeOK, Chains
  <2>3. Frame(t)
    BY <1>1, <1>5 DEF CallIterate, Goto, iterVars, Frame, TypeOK
  <2>4. InCall(t)'
    BY <1>1, <1>5 DEF CallIterate, Goto, iterVars, InCall, Leaves, Updates, TypeOK
  <2> QED BY <1>2, <2>2, <2>3, <2>4
<1>6. ASSUME NEW t \in Threads, Find(t) PROVE MapInv'
  <2>1. key[t] \in Uids /\ BucketOf[key[t]] \in Buckets
    BY <1>1, BucketType DEF TypeOK
  <2>2. Entry(key[t]) \in Handlers \cup {NULL} /\ Entry(key[t]) # "none"
    BY <1>1, <2>1, EntryIs, EntriesDiffer DEF Responses, Threads
  <2>3. TypeOK' /\ Chains'
    BY <1>1, <1>6, <2>1, <2>2 DEF Find, Lock, Respond, Goto, countVars, iterVars, TypeOK, Chains
  <2>4. Frame(t)
    BY <1>1, <1>6 DEF Find, Lock, Respond, Goto, iterVars, Frame, TypeOK
  <2>5. InCall(t)'
    <3>1. pc'[t] = "unlock" /\ answer'[t] # "none" /\ mutex'[BucketOf[key[t]]] = t
      BY <1>1, <1>6, <2>1, <2>2 DEF Find, Lock, Respond, Goto, TypeOK
    <3>2. UNCHANGED <<key, bucket, node>> /\ node[t] >= 1
      BY <1>1, <1>6 DEF Find, iterVars, InCall
    <3> QED BY <3>1, <3>2 DEF InCall, Leaves, Updates, BucketOf
  <2> QED BY <1>2, <2>3, <2>4, <2>5
<1>7. ASSUME NEW t \in Threads, IterLock(t) PROVE MapInv'
  <2>1. TypeOK' /\ Chains'
    BY <1>1, <1>7 DEF IterLock, Lock, Goto, countVars, iterVars, TypeOK, Chains
  <2>2. Frame(t)
    BY <1>1, <1>7 DEF IterLock, Lock, Goto, iterVars, Frame, TypeOK
  <2>3. InCall(t)'
    BY <1>1, <1>7 DEF IterLock, Lock, Goto, iterVars, InCall, Leaves, Updates, TypeOK
  <2> QED BY <1>2, <2>1, <2>2, <2>3
<1>8. ASSUME NEW t \in Threads, IterVisit(t) PROVE MapInv'
  <2>1. chain[bucket[t]][node[t]] \in Handlers /\ node[t] + 1 \in Nat
    <3>1. bucket[t] \in Buckets /\ node[t] \in Nat /\ node[t] >= 1
      BY <1>1 DEF TypeOK, InCall
    <3>2. chain[bucket[t]] \in Seq(Handlers)
      BY <1>1, <3>1 DEF TypeOK
    <3>3. node[t] <= Len(chain[bucket[t]])
      BY <1>8 DEF IterVisit
    <3>4. node[t] \in 1..Len(chain[bucket[t]])
      BY <3>1, <3>2, <3>3
    <3> QED BY <3>1, <3>2, <3>4, ElementOfSeq
  <2>2. TypeOK' /\ Chains'
    <3>1. visited' \in [Threads -> Seq(Handlers)]
      BY <1>1, <1>8, <2>1, AppendProperties DEF IterVisit, TypeOK
    <3>2. node' \in [Threads -> Nat]
      BY <1>1, <1>8, <2>1 DEF IterVisit, TypeOK
    <3> QED BY <1>1, <1>8, <3>1, <3>2 DEF IterVisit, countVars, TypeOK, Chains
  <2>3. Frame(t)
    BY <1>1, <1>8 DEF IterVisit, Frame, TypeOK
  <2>4. InCall(t)'
    <3>1. node'[t] = node[t] + 1 /\ node[t] \in Nat /\ InCall(t)
      BY <1>1, <1>8 DEF IterVisit, TypeOK
    <3> QED BY <1>8, <2>1, <3>1 DEF IterVisit, InCall, Leaves, Updates, BucketOf
  <2> QED BY <1>2, <2>2, <2>3, <2>4
<1>9. ASSUME NEW t \in Threads, IterUnlock(t) PROVE MapInv'
  <2>1. /\ pc[t] = "iterate" /\ bucket[t] \in Buckets /\ mutex[bucket[t]] = t
        /\ 0 \in Buckets /\ (~LastVisited(t) => bucket[t] + 1 \in Buckets)
    <3>1. /\ pc[t] = "iterate" /\ node[t] > Len(chain[bucket[t]])
          /\ bucket[t] \in Buckets /\ mutex[bucket[t]] = t
      BY <1>1, <1>9 DEF IterUnlock, InCall, TypeOK
    <3>2. ~LastVisited(t) => bucket[t] # HashSize - 1
      BY <3>1 DEF LastVisited
    <3> QED BY <3>1, <3>2, UidAssumption DEF Buckets, UidAssumption
  <2>2. TypeOK' /\ Chains'
    <3>1. mutex' \in [Buckets -> Threads \cup {NULL}]
      BY <1>1, <1>9, <2>1 DEF IterUnlock, Unlock, TypeOK
    <3>2. node' \in [Threads -> Nat]
      BY <1>1, <1>9 DEF IterUnlock, TypeOK
    <3>3. /\ bucket' \in [Threads -> Buckets] /\ visited' \in [Threads -> Seq(Handlers)]
          /\ stable' \in [Threads -> SUBSET Handlers]
      <4>1. CASE LastVisited(t)
        <5>1. /\ bucket' = [bucket EXCEPT ![t] = 0] /\ visited' = [visited EXCEPT ![t] = <<>>]
              /\ stable' = [stable EXCEPT ![t] = {}]
          BY <1>9, <4>1 DEF IterUnlock
        <5> QED BY <1>1, <2>1, <5>1 DEF TypeOK
      <4>2. CASE ~LastVisited(t)
        <5>1. /\ bucket' = [bucket EXCEPT ![t] = bucket[t] + 1]
              /\ UNCHANGED <<visited, stable>>
          BY <1>9, <4>2 DEF IterUnlock
        <5> QED BY <1>1, <2>1, <4>2, <5>1 DEF TypeOK
      <4> QED BY <4>1, <4>2
    <3>4. pc' \in [Threads -> {"idle", "find", "insert", "erase", "readCount", "writeCount",
                               "unlock", "iterLock", "iterate"}]
      <4>1. pc' = [pc EXCEPT ![t] = "idle"] \/ pc' = [pc EXCEPT ![t] = "iterLock"]
        BY <1>9 DEF IterUnlock, Goto
      <4> QED BY <1>1, <4>1 DEF TypeOK
    <3>5. UNCHANGED <<chain, countVars, inserted, key, answer>>
      BY <1>9 DEF IterUnlock
    <3> QED BY <1>1, <3>1, <3>2, <3>3, <3>4, <3>5 DEF countVars, TypeOK, Chains
  <2>3. /\ pc'[t] \in {"idle", "iterLock"} /\ node'[t] = 1 /\ UNCHANGED <<key, answer>>
        /\ \A d \in Threads : d # t => pc'[d] = pc[d] /\ bucket'[d] = bucket[d] /\ node'[d] = node[d]
    BY <1>1, <1>9 DEF IterUnlock, Goto, TypeOK
  <2>4. Frame(t)
    <3>1. \A b \in Buckets : mutex'[b] = mutex[b] \/ mutex[b] = t
      BY <1>1, <1>9, <2>1 DEF IterUnlock, Unlock, TypeOK
    <3> QED BY <2>3, <3>1 DEF Frame
  <2>5. InCall(t)'
    <3>1. answer[t] = "none"
      BY <1>1, <2>1 DEF InCall, Leaves
    <3> QED BY <2>3, <3>1 DEF InCall, Leaves, Updates
  <2> QED BY <1>2, <2>2, <2>4, <2>5
<1>10. ASSUME NEW t \in Threads, UnlockBucket(t) PROVE MapInv'
  <2>1. /\ pc[t] = "unlock" /\ NoUid \in Uids /\ key[t] \in Uids
        /\ BucketOf[key[t]] \in Buckets /\ mutex[BucketOf[key[t]]] = t
    BY <1>1, <1>10, BucketType DEF UnlockBucket, InCall, Leaves, TypeOK, NoUid
  <2>2. TypeOK' /\ Chains'
    BY <1>1, <1>10, <2>1 DEF UnlockBucket, Unlock, Respond, Goto, countVars, iterVars, TypeOK, Chains, Responses
  <2>3. Frame(t)
    BY <1>1, <1>10, <2>1 DEF UnlockBucket, Unlock, Respond, Goto, iterVars, Frame, TypeOK
  <2>4. InCall(t)'
    BY <1>1, <1>10, <2>1 DEF UnlockBucket, Unlock, Respond, Goto, iterVars, InCall, Leaves, Updates, TypeOK
  <2> QED BY <1>2, <2>2, <2>3, <2>4
<1>11. ASSUME NEW t \in Threads, ReadCount(t) PROVE MapInv'
  <2>1. TypeOK' /\ Chains'
    BY <1>1, <1>11 DEF ReadCount, Goto, iterVars, TypeOK, Chains
  <2>2. Frame(t)
    BY <1>1, <1>11 DEF ReadCount, Goto, iterVars, Frame, TypeOK
  <2>3. InCall(t)'
    <3>1. /\ pc[t] = "readCount" /\ pc'[t] = "writeCount"
          /\ UNCHANGED <<mutex, key, answer, bucket, node>>
      BY <1>1, <1>11 DEF ReadCount, Goto, iterVars, TypeOK
    <3> QED BY <1>1, <3>1 DEF InCall, Leaves, Updates, BucketOf
  <2> QED BY <1>2, <2>1, <2>2, <2>3
<1>12. ASSUME NEW t \in Threads, WriteCount(t) PROVE MapInv'
  <2>1. currentElements' \in 0..(SizeMod - 1) /\ 0 \in 0..(SizeMod - 1)
    <3>1. SizeMod \in Nat \ {0} /\ read[t] \in Nat
      BY <1>1 DEF TypeOK
    <3> DEFINE more == read[t] + 1
               less == read[t] + (SizeMod - 1)
    <3>2. more \in Nat /\ less \in Nat
      BY <3>1
    <3>3. currentElements' = more % SizeMod \/ currentElements' = less % SizeMod
      BY <1>12 DEF WriteCount
    <3> HIDE DEF more, less
    <3>4. more % SizeMod \in 0..(SizeMod - 1)
      BY <3>1, <3>2
    <3>5. less % SizeMod \in 0..(SizeMod - 1)
      BY <3>1, <3>2
    <3> QED BY <3>1, <3>3, <3>4, <3>5
  <2>2. TypeOK' /\ Chains'
    BY <1>1, <1>12, <2>1 DEF WriteCount, Goto, iterVars, TypeOK, Chains
  <2>3. Frame(t)
    BY <1>1, <1>12 DEF WriteCount, Goto, iterVars, Frame, TypeOK
  <2>4. InCall(t)'
    <3>1. /\ pc[t] = "writeCount" /\ pc'[t] = "unlock"
          /\ UNCHANGED <<mutex, key, answer, bucket, node>>
      BY <1>1, <1>12 DEF WriteCount, Goto, iterVars, TypeOK
    <3> QED BY <1>1, <3>1 DEF InCall, Leaves, Updates, BucketOf
  <2> QED BY <1>2, <2>2, <2>3, <2>4
<1>13. ASSUME NEW h \in Handlers, Insert(h) PROVE MapInv'
  <2>1. h \in Threads /\ key[h] \in Uids /\ BucketOf[key[h]] \in Buckets
    BY <1>1, BucketType DEF TypeOK, Threads
  <2>2. chain' \in [Buckets -> Seq(Handlers)] /\ Chains'
    BY <1>13, InsertEffect
  <2>3. /\ inserted' \in [Handlers -> BOOLEAN]
        /\ mutex' \in [Buckets -> Threads \cup {NULL}]
    BY <1>1, <1>13, <2>1 DEF Insert, Lock, TypeOK
  <2>4. stable' \in [Threads -> SUBSET Handlers]
    BY <1>1, <1>13 DEF Insert, Unstable, TypeOK
  <2>5. /\ answer' \in [Threads -> Handlers \cup {NULL} \cup Responses]
        /\ pc' \in [Threads -> {"idle", "find", "insert", "erase", "readCount", "writeCount",
                                "unlock", "iterLock", "iterate"}]
    <3>1. \/ answer' = [answer EXCEPT ![h] = "new"]
          \/ answer' = [answer EXCEPT ![h] = "replaced"]
      BY <1>13 DEF Insert, Respond
    <3>2. pc' = [pc EXCEPT ![h] = "readCount"] \/ pc' = [pc EXCEPT ![h] = "unlock"]
      BY <1>13 DEF Insert, Goto
    <3> QED BY <1>1, <3>1, <3>2 DEF TypeOK, Responses
  <2>6. TypeOK'
    BY <1>1, <1>13, <2>2, <2>3, <2>4, <2>5 DEF Insert, countVars, iterVars, TypeOK
  <2>7. Frame(h)
    <3>1. \A b \in Buckets : mutex'[b] = mutex[b] \/ mutex[b] = NULL
      BY <1>1, <1>13, <2>1 DEF Insert, Lock, TypeOK
    <3>2. \A d \in Threads : d # h => pc'[d] = pc[d] /\ answer'[d] = answer[d]
      <4>1. \/ answer' = [answer EXCEPT ![h] = "new"]
            \/ answer' = [answer EXCEPT ![h] = "replaced"]
        BY <1>13 DEF Insert, Respond
      <4>2. pc' = [pc EXCEPT ![h] = "readCount"] \/ pc' = [pc EXCEPT ![h] = "unlock"]
        BY <1>13 DEF Insert, Goto
      <4> QED BY <1>1, <4>1, <4>2 DEF TypeOK
    <3>3. UNCHANGED <<key, bucket, node>>
      BY <1>13 DEF Insert, iterVars
    <3> QED BY <3>1, <3>2, <3>3 DEF Frame
  <2>8. InCall(h)'
    <3>1. /\ key'[h] = UidOf[h] /\ key'[h] = key[h] /\ node'[h] = node[h]
      BY <1>1, <1>13, <2>1 DEF Insert, iterVars, InCall
    <3>2. mutex'[BucketOf[key[h]]] = h
      BY <1>1, <1>13, <2>1 DEF Insert, Lock, TypeOK
    <3>3. /\ pc'[h] \in {"readCount", "unlock"} /\ answer'[h] \in {"new", "replaced"}
          /\ pc'[h] = "readCount" => answer'[h] \in {"new", "erased"}
      BY <1>1, <1>13, <2>1 DEF Insert, Goto, Respond, TypeOK
    <3> QED BY <1>1, <2>1, <3>1, <3>2, <3>3 DEF InCall, Leaves, Updates, BucketOf
  <2> QED BY <1>2, <2>1, <2>2, <2>6, <2>7, <2>8
<1>14. ASSUME NEW h \in Handlers, Erase(h) PROVE MapInv'
  <2>1. h \in Threads /\ key[h] \in Uids /\ BucketOf[key[h]] \in Buckets
    BY <1>1, BucketType DEF TypeOK, Threads
  <2>2. chain' \in [Buckets -> Seq(Handlers)] /\ Chains'
    BY <1>14, EraseEffect
  <2>3. /\ inserted' \in [Handlers -> BOOLEAN]
        /\ mutex' \in [Buckets -> Threads \cup {NULL}]
    BY <1>1, <1>14, <2>1 DEF Erase, Lock, TypeOK
  <2>4. stable' \in [Threads -> SUBSET Handlers]
    BY <1>1, <1>14 DEF Erase, Unstable, TypeOK
  <2>5. /\ answer' \in [Threads -> Handlers \cup {NULL} \cup Responses]
        /\ pc' \in [Threads -> {"idle", "find", "insert", "erase", "readCount", "writeCount",
                                "unlock", "iterLock", "iterate"}]
    <3>1. answer' = [answer EXCEPT ![h] = "erased"]
      BY <1>14 DEF Erase, Respond
    <3>2. pc' = [pc EXCEPT ![h] = "readCount"] \/ pc' = [pc EXCEPT ![h] = "unlock"]
      BY <1>14 DEF Erase, Goto
    <3> QED BY <1>1, <3>1, <3>2 DEF TypeOK, Responses
  <2>6. TypeOK'
    BY <1>1, <1>14, <2>2, <2>3, <2>4, <2>5 DEF Erase, countVars, iterVars, TypeOK
  <2>7. Frame(h)
    <3>1. \A b \in Buckets : mutex'[b] = mutex[b] \/ mutex[b] = NULL
      BY <1>1, <1>14, <2>1 DEF Erase, Lock, TypeOK
    <3>2. \A d \in Threads : d # h => pc'[d] = pc[d] /\ answer'[d] = answer[d]
      <4>1. answer' = [answer EXCEPT ![h] = "erased"]
        BY <1>14 DEF Erase, Respond
      <4>2. pc' = [pc EXCEPT ![h] = "readCount"] \/ pc' = [pc EXCEPT ![h] = "unlock"]
        BY <1>14 DEF Erase, Goto
      <4> QED BY <1>1, <4>1, <4>2 DEF TypeOK
    <3>3. UNCHANGED <<key, bucket, node>>
      BY <1>14 DEF Erase, iterVars
    <3> QED BY <3>1, <3>2, <3>3 DEF Frame
  <2>8. InCall(h)'
    <3>1. /\ key'[h] = UidOf[h] /\ key'[h] = key[h] /\ node'[h] = node[h]
      BY <1>1, <1>14, <2>1 DEF Erase, iterVars, InCall
    <3>2. mutex'[BucketOf[key[h]]] = h
      BY <1>1, <1>14, <2>1 DEF Erase, Lock, TypeOK
    <3>3. /\ pc'[h] \in {"readCount", "unlock"} /\ answer'[h] \in {"erased"}
          /\ pc'[h] = "readCount" => answer'[h] \in {"new", "erased"}
      BY <1>1, <1>14, <2>1 DEF Erase, Goto, Respond, TypeOK
    <3> QED BY <1>1, <2>1, <3>1, <3>2, <3>3 DEF InCall, Leaves, Updates, BucketOf
  <2> QED BY <1>2, <2>1, <2>2, <2>6, <2>7, <2>8
<1>15. ASSUME NEW t \in Threads, CallFind(t) \/ CallIterate(t) \/ Waits(t) \/ Runs(t)
       PROVE  MapInv'
  BY <1>4, <1>5, <1>6, <1>7, <1>8, <1>9, <1>10, <1>11, <1>12, <1>13, <1>14, <1>15
     DEF CallFind, Waits, Runs
<1>16. ASSUME NEW h \in Handlers, CallInsert(h) \/ CallErase(h) PROVE MapInv'
  BY <1>4, <1>16 DEF CallInsert, CallErase, Threads
<1> QED BY <1>3, <1>15, <1>16 DEF Next

THEOREM MapInvariant == Spec => []MapInv
  BY MapInitial, MapStep, PTL DEF Spec

(* Every variable of the map keeps its type.                                 *)
THEOREM MapTypeCorrect == Spec => []TypeOK
<1>1. MapInv => TypeOK
  BY DEF MapInv
<1> QED BY <1>1, MapInvariant, PTL

(* However insertions, erasures and look-ups interleave, the map never holds *)
(* two entries of one uid: find and erase stop at the first (hash_map.c:99).  *)
THEOREM NoSecondEntry == Spec => []OneEntryPerUid
<1>1. MapInv => OneEntryPerUid
  <2> SUFFICES ASSUME MapInv, NEW b \in Buckets, NEW c \in Buckets,
                      NEW i \in 1..Len(chain[b]), NEW j \in 1..Len(chain[c]),
                      UidOf[chain[b][i]] = UidOf[chain[c][j]]
               PROVE  b = c /\ i = j
    BY DEF OneEntryPerUid
  <2>1. Chain(chain[b], b) /\ Chain(chain[c], c)
    BY DEF MapInv, Chains
  <2> QED BY <2>1 DEF Chain
<1> QED BY <1>1, MapInvariant, PTL

-----------------------------------------------------------------------------
(* The entry of a uid none of whose connections came or went is the same.    *)
LEMMA EntryKept ==
  ASSUME Found, Found', NEW v \in Uids,
         \A h \in Handlers : UidOf[h] = v => (h \in Entries' <=> h \in Entries)
  PROVE  Entry(v)' = Entry(v)
<1>1. Leads(v) /\ Leads(v)' /\ Distinct' /\ Entries \subseteq Handlers
  BY DEF Found
<1>2. CASE Entry(v) \in Entries /\ UidOf[Entry(v)] = v
  <2>1. Entry(v) \in Entries'
    BY <1>1, <1>2
  <2>2. Entry(v)' \in Entries' /\ UidOf[Entry(v)'] = v
    BY <1>1, <1>2, <2>1 DEF Leads
  <2> QED BY <1>1, <1>2, <2>1, <2>2 DEF Distinct
<1>3. CASE Entry(v) = NULL /\ \A h \in Entries : UidOf[h] # v
  <2>1. \A h \in Entries' : UidOf[h] # v
    BY <1>1, <1>3 DEF Found
  <2> QED BY <1>1, <1>3, <2>1 DEF Leads
<1> QED BY <1>1, <1>2, <1>3 DEF Leads

LEMMA RegistryInitial == Init => Table!Init
<1> SUFFICES ASSUME Init PROVE Table!Init
  OBVIOUS
<1>1. Chains /\ Entries = {}
  <2>1. MapInv /\ \A b \in Buckets : chain[b] = <<>>
    BY MapInitial DEF Init
  <2>2. Range(<<>>) = {}
    BY DEF Range
  <2> QED BY <2>1, <2>2 DEF MapInv, Entries
<1>2. \A u \in Uids : Entry(u) = NULL
  BY <1>1, EntryIs
<1> QED BY <1>2 DEF Table!Init, Init

LEMMA RegistryStep == MapInv /\ [Next]_vars => [Table!Next]_(Table!vars)
<1> SUFFICES ASSUME MapInv, [Next]_vars PROVE [Table!Next]_(Table!vars)
  OBVIOUS
<1>1. TypeOK /\ Found /\ Found' /\ \A t \in Threads : InCall(t)
  BY MapStep, ChainsFound, ChainsFoundNext DEF MapInv
<1>2. ASSUME UNCHANGED chain PROVE \A u \in Uids : Entry(u)' = Entry(u)
  BY <1>2 DEF Entry, Present, Place, BucketOf
<1>3. ASSUME UNCHANGED <<chain, answer>> PROVE UNCHANGED Table!vars
  BY <1>2, <1>3 DEF Table!vars
<1>4. NULL \notin Handlers /\ \A h \in Handlers : h \in Threads /\ UidOf[h] \in Uids
  BY MapAssumption DEF MapAssumption, Threads
<1>5. ASSUME NEW t \in Threads, Find(t) PROVE Table!Next
  <2>1. key[t] \in Uids /\ answer[t] = "none"
    BY <1>1, <1>5 DEF Find, TypeOK, InCall, Leaves
  <2>2. UNCHANGED chain /\ answer' = [answer EXCEPT ![t] = Entry(key[t])]
    BY <1>5 DEF Find, Respond
  <2>3. Table!Find(t, key[t])
    BY <1>2, <2>1, <2>2 DEF Table!Find, Table!Respond
  <2> QED BY <2>1, <2>3 DEF Table!Next
<1>6. ASSUME NEW h \in Handlers, Insert(h) PROVE Table!Next
  <2> DEFINE u == UidOf[h]
  <2>1. u \in Uids /\ key[h] = u /\ answer[h] = "none" /\ h \in Threads
    BY <1>1, <1>4, <1>6 DEF Insert, InCall, Leaves
  <2>2. Entries' = (Entries \ {Entry(u)}) \cup {h}
    BY <1>6, InsertEffect
  <2>3. Leads(u) /\ Leads(u)' /\ Distinct /\ Distinct' /\ Entries \subseteq Handlers
    BY <1>1, <2>1 DEF Found
  <2>4. Entry(u) = NULL \/ UidOf[Entry(u)] = u
    BY <2>3 DEF Leads
  <2>5. Entry(u)' = h
    BY <2>1, <2>2, <2>3 DEF Leads, Distinct
  <2>6. ASSUME NEW v \in Uids, v # u PROVE Entry(v)' = Entry(v)
    BY <1>1, <1>4, <2>2, <2>4, <2>6, EntryKept
  <2>7. answer' = [answer EXCEPT ![h] = IF Entry(u) = NULL THEN "new" ELSE "replaced"]
    <3>1. Present(u) <=> Entry(u) # NULL
      BY <1>4, <2>3 DEF Leads
    <3> QED BY <1>6, <2>1, <3>1 DEF Insert, Respond
  <2> HIDE DEF u
  <2>8. Table!Insert(h)
    <3>1. [v \in Uids |-> Entry(v)]' = [[v \in Uids |-> Entry(v)] EXCEPT ![u] = h]
      BY <2>1, <2>5, <2>6
    <3> QED BY <2>1, <2>7, <3>1 DEF Table!Insert, Table!Respond, u
  <2> QED BY <2>8 DEF Table!Next
<1>7. ASSUME NEW h \in Handlers, Erase(h) PROVE Table!Next
  <2> DEFINE u == UidOf[h]
  <2>1. u \in Uids /\ key[h] = u /\ answer[h] = "none" /\ h \in Threads
    BY <1>1, <1>4, <1>7 DEF Erase, InCall, Leaves
  <2>2. Entries' = Entries \ {Entry(u)}
    BY <1>7, EraseEffect
  <2>3. Leads(u) /\ Leads(u)' /\ Distinct /\ Distinct' /\ Entries \subseteq Handlers
    BY <1>1, <2>1 DEF Found
  <2>4. Entry(u) = NULL \/ UidOf[Entry(u)] = u
    BY <2>3 DEF Leads
  <2>5. Entry(u)' = NULL
    BY <2>2, <2>3 DEF Leads, Distinct
  <2>6. ASSUME NEW v \in Uids, v # u PROVE Entry(v)' = Entry(v)
    BY <1>1, <1>4, <2>2, <2>4, <2>6, EntryKept
  <2>7. answer' = [answer EXCEPT ![h] = "erased"]
    BY <1>7 DEF Erase, Respond
  <2> HIDE DEF u
  <2>8. Table!Erase(h, u)
    <3>1. [v \in Uids |-> Entry(v)]' = [[v \in Uids |-> Entry(v)] EXCEPT ![u] = NULL]
      BY <2>1, <2>5, <2>6
    <3> QED BY <2>1, <2>7, <3>1 DEF Table!Erase, Table!Respond
  <2> QED BY <2>1, <2>8 DEF Table!Next
<1>8. ASSUME NEW t \in Threads, UnlockBucket(t) PROVE Table!Next
  <2>1. answer[t] # "none" /\ UNCHANGED chain /\ answer' = [answer EXCEPT ![t] = "none"]
    BY <1>1, <1>8 DEF UnlockBucket, Respond, InCall, Leaves
  <2>2. Table!Return(t)
    BY <1>2, <2>1 DEF Table!Return
  <2> QED BY <2>2 DEF Table!Next
<1>9. ASSUME NEW t \in Threads, CallFind(t) \/ CallIterate(t) \/ IterLock(t) \/ IterVisit(t)
                                \/ IterUnlock(t) \/ ReadCount(t) \/ WriteCount(t)
      PROVE  UNCHANGED <<chain, answer>>
  BY <1>9 DEF CallFind, Call, CallIterate, IterLock, IterVisit, IterUnlock, ReadCount, WriteCount
<1>10. ASSUME NEW h \in Handlers, CallInsert(h) \/ CallErase(h) PROVE UNCHANGED <<chain, answer>>
  BY <1>10 DEF CallInsert, CallErase, Call
<1>11. CASE UNCHANGED vars
  BY <1>3, <1>11 DEF vars
<1> QED
  BY <1>3, <1>5, <1>6, <1>7, <1>8, <1>9, <1>10, <1>11 DEF Next, Waits, Runs

(* Every call takes effect at one instant between its invocation and its     *)
(* return, for any number of threads, uids and buckets: the map is the table *)
(* of Registry (hash_map.c:87-195).                                          *)
THEOREM MapImplementsRegistry == Spec => ImplementsRegistry
  BY RegistryInitial, RegistryStep, MapInvariant, PTL DEF Spec, ImplementsRegistry, Table!Spec

-----------------------------------------------------------------------------
(* The uids of users are longer than an unsigned long: strtoul saturates,    *)
(* and all users are in one bucket.                                          *)
Saturated == \A u \in Uids : StrToULong(u) = UlongMax

LEMMA OneBucket == ASSUME Saturated PROVE \A u, v \in Uids : BucketOf[u] = BucketOf[v]
  BY DEF Saturated, BucketOf, Bucket

(* So one thread at a time is between its update and its unlock.             *)
LEMMA OneUpdater ==
  ASSUME MapInv, Saturated, NEW t \in Threads, Leaves(t)
  PROVE  /\ \A d \in Threads : Leaves(d) => d = t
         /\ \A u \in Uids : mutex[BucketOf[u]] # NULL
<1>1. \A d \in Threads : Leaves(d) => key[d] \in Uids /\ mutex[BucketOf[key[d]]] = d /\ d # NULL
  BY MapAssumption DEF MapInv, TypeOK, InCall, MapAssumption
<1> QED BY <1>1, OneBucket

LEMMA EntryCount ==
  ASSUME IsFiniteSet(Handlers), Cardinality(Handlers) < SizeMod
  PROVE  Chains => IsFiniteSet(Entries) /\ Cardinality(Entries) \in 0..(SizeMod - 1)
<1> SUFFICES ASSUME Chains PROVE IsFiniteSet(Entries) /\ Cardinality(Entries) \in 0..(SizeMod - 1)
  OBVIOUS
<1>1. Entries \in SUBSET Handlers
  BY EntriesDiffer
<1>2. IsFiniteSet(Entries) /\ Cardinality(Entries) <= Cardinality(Handlers)
  BY <1>1, FS_Subset
<1>3. Cardinality(Entries) \in Nat /\ Cardinality(Handlers) \in Nat /\ SizeMod \in Nat
  BY <1>2, FS_CardinalityType, MapAssumption DEF MapAssumption
<1> QED BY <1>2, <1>3

LEMMA EntryCountNext ==
  ASSUME IsFiniteSet(Handlers), Cardinality(Handlers) < SizeMod
  PROVE  Chains' => IsFiniteSet(Entries)' /\ (Cardinality(Entries) \in 0..(SizeMod - 1))'
  BY EntryCount, PTL

(* size_t arithmetic adds and subtracts one inside its range.                *)
LEMMA PlusMinusOne ==
  ASSUME NEW m \in Nat \ {0}, NEW x \in 0..(m - 1)
  PROVE  /\ x + 1 < m => (x + 1) % m = x + 1
         /\ x >= 1 => (x + (m - 1)) % m = x - 1
<1>1. \A y \in 0..(m - 1) : y % m = y
  OBVIOUS
<1>2. \A y \in 0..(m - 1) : (y + m) % m = y
  OBVIOUS
<1>3. x >= 1 => x - 1 \in 0..(m - 1) /\ (x - 1) + m = x + (m - 1)
  OBVIOUS
<1> QED BY <1>1, <1>2, <1>3

LEMMA CountInitial == Init => CountInv
<1> SUFFICES ASSUME Init PROVE CountInv
  OBVIOUS
<1>1. \A b \in Buckets : chain[b] = <<>>
  BY DEF Init
<1>2. Entries = {} /\ Cardinality({}) = 0
  <2>1. Range(<<>>) = {}
    BY DEF Range
  <2> QED BY <1>1, <2>1, FS_EmptySet DEF Entries
<1> QED BY <1>2, MapInitial DEF Init, CountInv, Counted, Updates

LEMMA CountStep ==
  ASSUME Saturated, IsFiniteSet(Handlers), Cardinality(Handlers) < SizeMod, CountInv, [Next]_vars
  PROVE  CountInv'
<1> DEFINE n == Cardinality(Entries)
<1>1. TypeOK /\ Found /\ Found' /\ Chains /\ Chains' /\ MapInv /\ MapInv' /\ \A t \in Threads : InCall(t)
  BY MapStep, ChainsFound, ChainsFoundNext DEF MapInv, CountInv
<1>2. IsFiniteSet(Entries) /\ n \in Nat /\ n' \in 0..(SizeMod - 1)
  BY <1>1, EntryCount, EntryCountNext
<1>3. Counted
  BY DEF CountInv
<1> HIDE DEF n
<1>4. ASSUME NEW t \in Threads, ~Updates(t), ~Updates(t)', UNCHANGED <<chain, countVars>>,
             \A d \in Threads : d # t => pc'[d] = pc[d] /\ answer'[d] = answer[d]
      PROVE  Counted'
  <2>1. Entries' = Entries
    BY <1>4 DEF Entries, Buckets
  <2>2. \A d \in Threads : /\ Updates(d)' <=> Updates(d)
                           /\ Updates(d) => pc'[d] = pc[d] /\ answer'[d] = answer[d]
    BY <1>4 DEF Updates
  <2> QED BY <1>3, <1>4, <2>1, <2>2 DEF Counted, countVars
<1>5. ASSUME UNCHANGED chain PROVE n' = n
  BY <1>5 DEF n, Entries, Buckets
<1>6. ASSUME NEW h \in Handlers, mutex[BucketOf[key[h]]] = NULL
      PROVE  /\ h \in Threads
             /\ \A t \in Threads : ~Updates(t)
             /\ currentElements = n
  <2>1. h \in Threads /\ key[h] \in Uids
    BY <1>1 DEF TypeOK, Threads
  <2>2. \A t \in Threads : ~Leaves(t)
    BY <1>1, <1>6, <2>1, OneUpdater
  <2>3. \A t \in Threads : ~Updates(t)
    BY <2>2 DEF Leaves, Updates
  <2> QED BY <1>3, <2>1, <2>3 DEF Counted, n
<1>7. ASSUME NEW h \in Handlers, Insert(h) PROVE Counted'
  <2> DEFINE u == UidOf[h]
  <2>1. h \in Threads /\ currentElements = n /\ \A t \in Threads : ~Updates(t)
    BY <1>6, <1>7 DEF Insert, Lock
  <2>2. key[h] = u /\ u \in Uids
    BY <1>1, <1>7, <2>1, MapAssumption DEF Insert, InCall, MapAssumption
  <2>3. Entries' = (Entries \ {Entry(u)}) \cup {h}
    BY <1>1, <1>7, InsertEffect
  <2>4. Leads(u) /\ Distinct
    BY <1>1, <2>2 DEF Found
  <2>5. \A t \in Threads : t # h => ~Updates(t)'
    BY <1>1, <1>7, <2>1 DEF Insert, Goto, Updates, TypeOK
  <2>6. CASE Present(u)
    <3>1. Entry(u) \in Entries /\ (h \in Entries => Entry(u) = h)
      BY <2>4, <2>6 DEF Leads, Distinct
    <3>2. n' = n
      <4> DEFINE rest == Entries \ {Entry(u)}
      <4>1. IsFiniteSet(rest) /\ Cardinality(rest) = n - 1
        BY <1>2, <3>1, FS_RemoveElement DEF n
      <4>2. Entries' = rest \cup {h} /\ h \notin rest
        BY <2>3, <3>1
      <4> HIDE DEF rest
      <4>3. Cardinality(rest \cup {h}) = Cardinality(rest) + 1
        BY <4>1, <4>2, FS_AddElement
      <4> QED BY <1>2, <4>1, <4>2, <4>3 DEF n
    <3>3. ~Updates(h)' /\ UNCHANGED countVars
      BY <1>1, <1>7, <2>1, <2>2, <2>6 DEF Insert, Goto, Updates, TypeOK
    <3> QED BY <2>1, <2>5, <3>2, <3>3 DEF Counted, countVars, n
  <2>7. CASE ~Present(u)
    <3>1. h \notin Entries /\ Entry(u) \notin Entries
      BY <1>1, <2>4, <2>7, MapAssumption DEF Leads, Found, MapAssumption, Threads
    <3>2. Entries' = Entries \cup {h}
      BY <2>3, <3>1
    <3>3. n' = n + 1
      BY <1>2, <3>1, <3>2, FS_AddElement DEF n
    <3>4. UNCHANGED countVars /\ answer'[h] = "new" /\ pc'[h] = "readCount"
      BY <1>1, <1>7, <2>1, <2>2, <2>7 DEF Insert, Goto, Respond, TypeOK
    <3> QED BY <2>1, <2>5, <3>3, <3>4 DEF Counted, Updates, countVars, n
  <2> QED BY <2>6, <2>7
<1>8. ASSUME NEW h \in Handlers, Erase(h) PROVE Counted'
  <2> DEFINE u == UidOf[h]
  <2>1. h \in Threads /\ currentElements = n /\ \A t \in Threads : ~Updates(t)
    BY <1>6, <1>8 DEF Erase, Lock
  <2>2. key[h] = u /\ u \in Uids
    BY <1>1, <1>8, <2>1, MapAssumption DEF Erase, InCall, MapAssumption
  <2>3. Entries' = Entries \ {Entry(u)}
    BY <1>1, <1>8, EraseEffect
  <2>4. Leads(u)
    BY <1>1, <2>2 DEF Found
  <2>5. \A t \in Threads : t # h => ~Updates(t)'
    BY <1>1, <1>8, <2>1 DEF Erase, Goto, Updates, TypeOK
  <2>6. CASE Present(u)
    <3>1. Entry(u) \in Entries
      BY <2>4, <2>6 DEF Leads
    <3>2. n' = n - 1
      BY <1>2, <2>3, <3>1, FS_RemoveElement DEF n
    <3>3. UNCHANGED countVars /\ answer'[h] = "erased" /\ pc'[h] = "readCount"
      BY <1>1, <1>8, <2>1, <2>2, <2>6 DEF Erase, Goto, Respond, TypeOK
    <3> QED BY <1>2, <2>1, <2>5, <3>2, <3>3 DEF Counted, Updates, countVars, n
  <2>7. CASE ~Present(u)
    <3>1. UNCHANGED chain /\ ~Updates(h)' /\ UNCHANGED countVars
      BY <1>1, <1>8, <2>1, <2>2, <2>7 DEF Erase, Goto, Updates, TypeOK
    <3> QED BY <1>5, <2>1, <2>5, <3>1 DEF Counted, countVars, n
  <2> QED BY <2>6, <2>7
<1>9. ASSUME NEW t \in Threads, Updates(t)
      PROVE  /\ \A d \in Threads : Updates(d) => d = t
             /\ answer[t] \in {"new", "erased"}
             /\ answer[t] = "new" => currentElements + 1 = n
             /\ answer[t] = "erased" => currentElements = n + 1
             /\ pc[t] = "writeCount" => read[t] = currentElements
  <2>1. \A d \in Threads : Updates(d) => Leaves(d)
    BY DEF Updates, Leaves
  <2>2. \A d \in Threads : Updates(d) => d = t
    BY <1>1, <1>9, <2>1, OneUpdater
  <2> QED BY <1>1, <1>3, <1>9, <2>2 DEF InCall, Counted, n
<1>10. ASSUME NEW t \in Threads, ReadCount(t) PROVE Counted'
  <2>1. Updates(t) /\ \A d \in Threads : d # t => ~Updates(d)'
    BY <1>1, <1>9, <1>10 DEF ReadCount, Goto, Updates, TypeOK
  <2>2. /\ pc'[t] = "writeCount" /\ read'[t] = currentElements /\ n' = n
        /\ UNCHANGED <<answer, currentElements>>
    BY <1>1, <1>5, <1>10 DEF ReadCount, Goto, TypeOK
  <2> QED BY <1>9, <2>1, <2>2 DEF Counted, Updates, n
<1>11. ASSUME NEW t \in Threads, WriteCount(t) PROVE Counted'
  <2>1. Updates(t) /\ \A d \in Threads : ~Updates(d)'
    BY <1>1, <1>9, <1>11 DEF WriteCount, Goto, Updates, TypeOK
  <2>2. n' = n /\ n \in 0..(SizeMod - 1) /\ currentElements \in 0..(SizeMod - 1) /\ SizeMod \in Nat \ {0}
    BY <1>1, <1>2, <1>5, <1>11, MapAssumption DEF WriteCount, TypeOK, MapAssumption
  <2>3. read[t] = currentElements
    BY <1>9, <1>11, <2>1 DEF WriteCount
  <2>4. currentElements' = n
    <3>1. CASE answer[t] = "new"
      <4>1. currentElements + 1 = n
        BY <1>9, <2>1, <3>1
      <4>2. currentElements' = (currentElements + 1) % SizeMod
        BY <1>11, <2>3, <3>1 DEF WriteCount
      <4> QED BY <2>2, <4>1, <4>2, PlusMinusOne
    <3>2. CASE answer[t] = "erased"
      <4>1. currentElements = n + 1
        BY <1>9, <2>1, <3>2
      <4>2. currentElements' = (currentElements + (SizeMod - 1)) % SizeMod
        BY <1>11, <2>3, <3>2 DEF WriteCount
      <4> QED BY <2>2, <4>1, <4>2, PlusMinusOne
    <3> QED BY <1>9, <2>1, <3>1, <3>2
  <2> QED BY <2>1, <2>2, <2>4 DEF Counted, n
<1>12. ASSUME NEW t \in Threads, CallFind(t) \/ CallIterate(t) \/ Find(t) \/ IterLock(t)
                                 \/ UnlockBucket(t) \/ IterVisit(t) \/ IterUnlock(t)
       PROVE  Counted'
  <2>1. UNCHANGED <<chain, countVars>>
    BY <1>12 DEF CallFind, Call, CallIterate, Find, IterLock, UnlockBucket, IterVisit, IterUnlock
  <2>2. ~Updates(t)
    BY <1>12 DEF CallFind, Call, CallIterate, Find, IterLock, UnlockBucket, IterVisit, IterUnlock, Updates
  <2>3. ~Updates(t)'
    BY <1>1, <1>12 DEF CallFind, Call, CallIterate, Find, IterLock, UnlockBucket, IterVisit, IterUnlock,
                       Updates, Goto, TypeOK
  <2>4. \A d \in Threads : d # t => pc'[d] = pc[d] /\ answer'[d] = answer[d]
    BY <1>1, <1>12 DEF CallFind, Call, CallIterate, Find, IterLock, UnlockBucket, IterVisit, IterUnlock,
                       Goto, Respond, TypeOK
  <2> QED BY <1>4, <2>1, <2>2, <2>3, <2>4
<1>13. ASSUME NEW h \in Handlers, CallInsert(h) \/ CallErase(h) PROVE Counted'
  <2>1. h \in Threads /\ UNCHANGED <<chain, countVars>> /\ ~Updates(h)
    BY <1>13 DEF CallInsert, CallErase, Call, Updates, Threads
  <2>2. ~Updates(h)'
    BY <1>1, <1>13, <2>1 DEF CallInsert, CallErase, Call, Goto, Updates, TypeOK
  <2>3. \A d \in Threads : d # h => pc'[d] = pc[d] /\ answer'[d] = answer[d]
    BY <1>1, <1>13 DEF CallInsert, CallErase, Call, Goto, TypeOK
  <2> QED BY <1>4, <2>1, <2>2, <2>3
<1>14. ASSUME UNCHANGED vars PROVE Counted'
  <2>1. UNCHANGED <<chain, currentElements, read, pc, answer>>
    BY <1>14 DEF vars, countVars
  <2>2. Cardinality(Entries') = Cardinality(Entries)
    BY <1>5, <2>1 DEF n
  <2> QED BY <1>3, <2>1, <2>2 DEF Counted, Updates
<1>15. ASSUME NEW t \in Threads, CallFind(t) \/ CallIterate(t) \/ Waits(t) \/ Runs(t)
       PROVE  Counted'
  BY <1>7, <1>8, <1>10, <1>11, <1>12, <1>15 DEF Waits, Runs
<1>16. Counted'
  BY <1>13, <1>14, <1>15 DEF Next
<1> QED BY <1>1, <1>16 DEF CountInv

(* Between updates the element count is the number of entries, for any       *)
(* number of threads and users: the buckets have a mutex each and share the  *)
(* count, but every user is in the same bucket (hash_map.c:90, 152, 187).    *)
THEOREM CountIsExact ==
  ASSUME Saturated, IsFiniteSet(Handlers), Cardinality(Handlers) < SizeMod
  PROVE  Spec => []CountExact
<1>1. CountInv => CountExact
  BY DEF CountInv, Counted, CountExact, Updates
<1>2. CountInv /\ [Next]_vars => CountInv'
  BY CountStep
<1> QED BY <1>1, <1>2, CountInitial, PTL DEF Spec

-----------------------------------------------------------------------------
(* An entry is in the chain of its own bucket, now and after a step.         *)
AtHome == \A h \in Handlers : h \in Entries <=> h \in Range(chain[Home(h)])

LEMMA EntriesAtHome == Chains => AtHome
  BY EntriesDiffer DEF AtHome

LEMMA EntriesAtHomeNext == Chains' => AtHome'
  BY EntriesAtHome, PTL

(* An iteration is not disturbed by what happens in other buckets, nor, as   *)
(* long as it waits for a bucket, by what happens in that one.               *)
LEMMA ProgressKept ==
  ASSUME NEW t \in Threads, Progress(t),
         Iterates(t)' <=> Iterates(t),
         pc[t] = "iterate" => pc'[t] = "iterate" /\ chain'[bucket[t]] = chain[bucket[t]],
         bucket'[t] = bucket[t], node'[t] = node[t], visited'[t] = visited[t],
         stable'[t] \subseteq stable[t],
         \A h \in stable'[t] : h \in Range(chain'[Home(h)])
  PROVE  Progress(t)'
<1>1. ASSUME NEW h PROVE Passed(t, h)' <=> Passed(t, h)
  <2>1. CASE pc[t] = "iterate"
    BY <2>1 DEF Passed, Home, BucketOf
  <2>2. CASE pc[t] # "iterate"
    BY <2>2 DEF Passed, Home, BucketOf, Progress
  <2> QED BY <2>1, <2>2
<1>2. ASSUME NEW h \in stable'[t]
      PROVE  /\ Passed(t, h)' => Once(visited'[t], h)
             /\ ~Passed(t, h)' => Never(visited'[t], h)
  BY <1>1, <1>2 DEF Progress
<1>3. /\ ~Iterates(t)' => bucket'[t] = 0 /\ visited'[t] = <<>> /\ stable'[t] = {}
      /\ pc'[t] # "iterate" => node'[t] = 1
  BY DEF Progress
<1> QED BY <1>2, <1>3 DEF Progress, Home, BucketOf, Once, Never

LEMMA VisitOnce ==
  ASSUME NEW v \in Seq(Handlers), NEW x \in Handlers
  PROVE  /\ Never(v, x) => Once(Append(v, x), x)
         /\ \A h : h # x /\ Once(v, h) => Once(Append(v, x), h)
         /\ \A h : h # x /\ Never(v, h) => Never(Append(v, x), h)
<1> DEFINE w == Append(v, x)
<1>1. /\ Len(v) \in Nat /\ Len(w) = Len(v) + 1 /\ w[Len(v) + 1] = x
      /\ \A i \in 1..Len(v) : w[i] = v[i]
  OBVIOUS
<1> HIDE DEF w
<1>2. Never(v, x) => Once(w, x)
  BY <1>1 DEF Never, Once
<1>3. ASSUME NEW h, h # x, Once(v, h) PROVE Once(w, h)
  <2>1. PICK i \in 1..Len(v) : v[i] = h /\ \A j \in 1..Len(v) : v[j] = h => j = i
    BY <1>3 DEF Once
  <2>2. i \in 1..Len(w) /\ w[i] = h /\ \A j \in 1..Len(w) : w[j] = h => j = i
    BY <1>1, <1>3, <2>1
  <2> QED BY <2>2 DEF Once
<1>4. ASSUME NEW h, h # x, Never(v, h) PROVE Never(w, h)
  BY <1>1, <1>4 DEF Never
<1> QED BY <1>2, <1>3, <1>4 DEF w

LEMMA IterInitial == Init => IterInv
<1> SUFFICES ASSUME Init PROVE IterInv
  OBVIOUS
<1>1. \A t \in Threads : Progress(t)
  BY DEF Init, Progress, Iterates
<1> QED BY <1>1, MapInitial DEF IterInv

LEMMA IterStep == IterInv /\ [Next]_vars => IterInv'
<1> SUFFICES ASSUME IterInv, [Next]_vars PROVE \A t \in Threads : Progress(t)'
  BY MapStep DEF IterInv
<1>1. /\ TypeOK /\ Chains /\ Chains' /\ MapInv /\ MapInv' /\ Found /\ AtHome /\ AtHome'
      /\ \A t \in Threads : InCall(t) /\ Progress(t)
  BY MapStep, ChainsFound, EntriesAtHome, EntriesAtHomeNext DEF MapInv, IterInv
<1>2. ASSUME NEW t \in Threads, UNCHANGED chain,
             Iterates(t)' <=> Iterates(t), pc[t] = "iterate" => pc'[t] = "iterate",
             bucket'[t] = bucket[t], node'[t] = node[t], visited'[t] = visited[t], stable'[t] = stable[t]
      PROVE  Progress(t)'
  BY <1>1, <1>2, ProgressKept DEF Progress
<1>3. ASSUME UNCHANGED <<chain, bucket, node, visited, stable>>,
             \A d \in Threads : /\ Iterates(d)' <=> Iterates(d)
                                /\ pc[d] = "iterate" => pc'[d] = "iterate"
      PROVE  \A d \in Threads : Progress(d)'
  BY <1>2, <1>3
<1>4. ASSUME NEW t \in Threads, CallFind(t) \/ Find(t) \/ ReadCount(t) \/ WriteCount(t)
                                \/ UnlockBucket(t) \/ IterLock(t)
      PROVE  \A d \in Threads : Progress(d)'
  <2>1. UNCHANGED <<chain, bucket, node, visited, stable>>
    BY <1>4 DEF CallFind, Call, Find, ReadCount, WriteCount, UnlockBucket, IterLock, iterVars
  <2>2. \A d \in Threads : /\ Iterates(d)' <=> Iterates(d)
                           /\ pc[d] = "iterate" => pc'[d] = "iterate"
    BY <1>1, <1>4 DEF CallFind, Call, Find, ReadCount, WriteCount, UnlockBucket, IterLock, Iterates,
                      Goto, TypeOK
  <2> QED BY <1>3, <2>1, <2>2
<1>5. ASSUME NEW h \in Handlers, CallInsert(h) \/ CallErase(h) PROVE \A d \in Threads : Progress(d)'
  <2>1. UNCHANGED <<chain, bucket, node, visited, stable>>
    BY <1>5 DEF CallInsert, CallErase, Call, iterVars
  <2>2. \A d \in Threads : /\ Iterates(d)' <=> Iterates(d)
                           /\ pc[d] = "iterate" => pc'[d] = "iterate"
    BY <1>1, <1>5 DEF CallInsert, CallErase, Call, Iterates, Goto, TypeOK
  <2> QED BY <1>3, <2>1, <2>2
<1>6. ASSUME UNCHANGED vars PROVE \A d \in Threads : Progress(d)'
  BY <1>3, <1>6 DEF vars, iterVars, Iterates
<1>7. ASSUME NEW t \in Threads, CallIterate(t), NEW d \in Threads PROVE Progress(d)'
  <2>1. CASE d # t
    BY <1>1, <1>2, <1>7, <2>1 DEF CallIterate, Goto, iterVars, Iterates, TypeOK
  <2>2. CASE d = t
    <3>1. /\ bucket[t] = 0 /\ visited[t] = <<>> /\ node[t] = 1
          /\ UNCHANGED <<chain, bucket, node, visited>> /\ pc'[t] = "iterLock" /\ stable'[t] = Entries
      BY <1>1, <1>7 DEF CallIterate, Goto, iterVars, Progress, Iterates, TypeOK
    <3>2. ASSUME NEW h \in Entries
          PROVE  /\ h \in Range(chain'[Home(h)])
                 /\ ~Passed(t, h)' /\ Never(visited'[t], h)
      <4>1. h \in Handlers /\ h \in Range(chain[Home(h)]) /\ ~(Home(h) < 0)
        BY <1>1, <3>2, BucketType, MapAssumption, UidAssumption
           DEF Found, AtHome, Home, MapAssumption, UidAssumption, Buckets
      <4> QED BY <3>1, <4>1 DEF Passed, Never, Home, BucketOf
    <3> QED BY <2>2, <3>1, <3>2 DEF Progress, Iterates, Home, BucketOf, Once, Never
  <2> QED BY <2>1, <2>2
<1>8. ASSUME NEW t \in Threads, IterVisit(t), NEW d \in Threads PROVE Progress(d)'
  <2>1. CASE d # t
    BY <1>1, <1>2, <1>8, <2>1 DEF IterVisit, Iterates, TypeOK
  <2>2. CASE d = t
    <3> DEFINE s == chain[bucket[t]]
               n == node[t]
               x == s[n]
    <3>1. /\ pc[t] = "iterate" /\ n \in 1..Len(s) /\ s \in Seq(Handlers) /\ Len(s) \in Nat
          /\ bucket[t] \in Buckets /\ Chain(s, bucket[t]) /\ visited[t] \in Seq(Handlers)
      BY <1>1, <1>8 DEF IterVisit, InCall, TypeOK, Chains
    <3>2. /\ pc'[t] = "iterate" /\ bucket'[t] = bucket[t] /\ chain' = chain /\ stable'[t] = stable[t]
          /\ node'[t] = n + 1 /\ visited'[t] = Append(visited[t], x)
      BY <1>1, <1>8, <3>1 DEF IterVisit, TypeOK
    <3>3. x \in Handlers /\ Home(x) = bucket[t] /\ \A i \in 1..Len(s) : s[i] = x => i = n
      BY <3>1 DEF Chain, Home
    <3>4. ~Passed(t, x)
      BY <3>1, <3>3 DEF Passed, Buckets
    <3>5. ASSUME NEW h PROVE Passed(t, h)' <=> Passed(t, h) \/ h = x
      BY <3>1, <3>2, <3>3 DEF Passed, Home, BucketOf
    <3>6. ASSUME NEW h \in stable[t]
          PROVE  /\ h \in Range(chain'[Home(h)])
                 /\ Passed(t, h)' => Once(visited'[t], h)
                 /\ ~Passed(t, h)' => Never(visited'[t], h)
      <4>1. /\ h \in Range(chain[Home(h)])
            /\ Passed(t, h) => Once(visited[t], h)
            /\ ~Passed(t, h) => Never(visited[t], h)
        BY <1>1 DEF Progress
      <4> QED BY <3>1, <3>2, <3>3, <3>4, <3>5, <4>1, VisitOnce
    <3>7. Progress(t)'
      BY <3>2, <3>6 DEF Progress, Iterates, Home, BucketOf, Once, Never
    <3> QED BY <2>2, <3>7
  <2> QED BY <2>1, <2>2
<1>9. ASSUME NEW t \in Threads, IterUnlock(t), NEW d \in Threads PROVE Progress(d)'
  <2>1. CASE d # t
    BY <1>1, <1>2, <1>9, <2>1 DEF IterUnlock, Goto, Iterates, TypeOK
  <2>2. CASE d = t /\ LastVisited(t)
    BY <1>1, <1>9, <2>2 DEF IterUnlock, Goto, Progress, Iterates, TypeOK
  <2>3. CASE d = t /\ ~LastVisited(t)
    <3> DEFINE s == chain[bucket[t]]
    <3>1. /\ node[t] \in Nat /\ node[t] > Len(s) /\ s \in Seq(Handlers) /\ Len(s) \in Nat
          /\ bucket[t] \in Buckets
      BY <1>1, <1>9 DEF IterUnlock, TypeOK
    <3>2. /\ pc'[t] = "iterLock" /\ bucket'[t] = bucket[t] + 1 /\ node'[t] = 1
          /\ UNCHANGED chain /\ visited'[t] = visited[t] /\ stable'[t] = stable[t]
      BY <1>1, <1>9, <2>3 DEF IterUnlock, Goto, TypeOK
    <3>3. ASSUME NEW h \in stable[t]
          PROVE  /\ h \in Range(chain'[Home(h)])
                 /\ Passed(t, h)' => Once(visited'[t], h)
                 /\ ~Passed(t, h)' => Never(visited'[t], h)
      <4>1. /\ h \in Range(chain[Home(h)])
            /\ Passed(t, h) => Once(visited[t], h)
            /\ ~Passed(t, h) => Never(visited[t], h)
        BY <1>1 DEF Progress
      <4>2. Home(h) \in Buckets
        BY <1>1, <3>3, BucketType, MapAssumption DEF TypeOK, Home, MapAssumption
      <4>3. Home(h) = bucket[t] => Passed(t, h)
        <5>1. Home(h) = bucket[t] => \E i \in 1..Len(s) : s[i] = h
          BY <3>1, <4>1, ChainMembers
        <5> QED BY <3>1, <5>1 DEF Passed
      <4>4. Passed(t, h) <=> Home(h) < bucket[t] + 1
        BY <3>1, <4>2, <4>3 DEF Passed, Buckets
      <4>5. Passed(t, h)' <=> Home(h) < bucket[t] + 1
        BY <3>1, <3>2, <4>2 DEF Passed, Buckets, Home, BucketOf
      <4> QED BY <3>2, <4>1, <4>4, <4>5
    <3>4. Progress(t)'
      BY <3>2, <3>3 DEF Progress, Iterates, Home, BucketOf, Once, Never
    <3> QED BY <2>3, <3>4
  <2> QED BY <2>1, <2>2, <2>3
<1>10. ASSUME NEW h \in Handlers, Insert(h) \/ Erase(h), NEW d \in Threads PROVE Progress(d)'
  <2> DEFINE u == UidOf[h]
  <2>1. h \in Threads /\ u \in Uids /\ key[h] = u /\ ~Iterates(h) /\ mutex[Home(h)] = NULL
    BY <1>1, <1>10, MapAssumption DEF Insert, Erase, Lock, InCall, Home, Iterates, Threads, MapAssumption
  <2>2. UNCHANGED iterVars /\ \A c \in Buckets : c # Home(h) => chain'[c] = chain[c]
    BY <1>1, <1>10, InsertEffect, EraseEffect DEF Insert, Erase
  <2>3. Iterates(d)' <=> Iterates(d)
    BY <1>1, <1>10, <2>1 DEF Insert, Erase, Iterates, Goto, TypeOK
  <2>4. pc[d] = "iterate" => pc'[d] = "iterate" /\ chain'[bucket[d]] = chain[bucket[d]]
    <3> SUFFICES ASSUME pc[d] = "iterate"
                 PROVE  pc'[d] = "iterate" /\ chain'[bucket[d]] = chain[bucket[d]]
      OBVIOUS
    <3>1. bucket[d] \in Buckets /\ mutex[bucket[d]] = d /\ d # NULL
      BY <1>1, MapAssumption DEF InCall, TypeOK, MapAssumption
    <3>2. pc'[d] = "iterate"
      BY <1>1, <1>10, <2>1 DEF Insert, Erase, Goto, Iterates, TypeOK
    <3> QED BY <2>1, <2>2, <3>1, <3>2
  <2>5. /\ stable'[d] \subseteq stable[d]
        /\ \A g \in stable'[d] : g \in Entries /\ g # Entry(u)
    <3>1. \A g \in stable[d] : g \in Handlers /\ g \in Entries
      BY <1>1 DEF Progress, AtHome, TypeOK
    <3>2. CASE Present(u)
      <4>1. stable'[d] = stable[d] \ {Entry(u)}
        BY <1>1, <1>10, <2>1, <3>2 DEF Insert, Erase, Unstable, TypeOK
      <4> QED BY <3>1, <4>1
    <3>3. CASE ~Present(u)
      <4>1. stable' = stable
        BY <1>10, <2>1, <3>3 DEF Insert, Erase
      <4>2. Entry(u) \notin Handlers
        BY <1>1, <2>1, <3>3, EntryIs, MapAssumption DEF MapAssumption, Threads
      <4> QED BY <3>1, <4>1, <4>2
    <3> QED BY <3>2, <3>3
  <2>6. \A g \in stable'[d] : g \in Range(chain'[Home(g)])
    <3>1. Entries \ {Entry(u)} \subseteq Entries'
      BY <1>1, <1>10, InsertEffect, EraseEffect
    <3>2. \A g \in stable'[d] : g \in Handlers /\ g \in Entries'
      BY <1>1, <2>5, <3>1 DEF Found
    <3> QED BY <1>1, <3>2 DEF AtHome, Home, BucketOf
  <2> QED BY <1>1, <2>2, <2>3, <2>4, <2>5, <2>6, ProgressKept DEF iterVars
<1> QED BY <1>4, <1>5, <1>6, <1>7, <1>8, <1>9, <1>10 DEF Next, Waits, Runs

(* An iteration calls back exactly once for every entry that stays in the    *)
(* map while it runs, for any number of threads that insert, replace and     *)
(* erase meanwhile, and any number of buckets (hash_map.c:227-237).          *)
THEOREM IterationVisitsAll == Spec => []IterationComplete
<1>1. ASSUME IterInv, NEW t \in Threads, LastVisited(t), NEW h \in stable[t]
      PROVE  h \in Range(visited[t]) /\ Cardinality({i \in DOMAIN visited[t] : visited[t][i] = h}) = 1
  <2> DEFINE v == visited[t]
             s == chain[bucket[t]]
  <2>1. v \in Seq(Handlers) /\ s \in Seq(Handlers) /\ Len(s) \in Nat /\ node[t] \in Nat
        /\ node[t] > Len(s) /\ bucket[t] = HashSize - 1
    BY <1>1, UidAssumption DEF IterInv, MapInv, TypeOK, LastVisited, Buckets, UidAssumption
  <2>2. h \in Handlers /\ h \in Range(chain[Home(h)]) /\ (Passed(t, h) => Once(v, h))
    BY <1>1 DEF IterInv, MapInv, TypeOK, Progress
  <2>3. Home(h) \in Buckets
    BY <2>2, BucketType, MapAssumption DEF Home, MapAssumption
  <2>4. Home(h) = bucket[t] => \E i \in 1..Len(s) : s[i] = h
    BY <2>1, <2>2, ChainMembers
  <2>5. Passed(t, h)
    BY <2>1, <2>3, <2>4, UidAssumption DEF Passed, Buckets, UidAssumption
  <2>6. PICK i \in 1..Len(v) : v[i] = h /\ \A j \in 1..Len(v) : v[j] = h => j = i
    BY <2>2, <2>5 DEF Once
  <2>7. {j \in DOMAIN v : v[j] = h} = {i}
    BY <2>1, <2>6
  <2> QED BY <2>1, <2>6, <2>7, FS_Singleton, ChainMembers
<1>2. IterInv => IterationComplete
  BY <1>1 DEF IterationComplete
<1> QED BY <1>2, IterInitial, IterStep, PTL DEF Spec
=============================================================================
