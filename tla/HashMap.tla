------------------------------- MODULE HashMap -------------------------------
(***************************************************************************)
(* The map of logged-in clients, common/src/hash_map.c: buckets of linked  *)
(* nodes, a mutex per bucket and one element count for the whole map.      *)
(*                                                                         *)
(* A node is named by the connection it points to, and a connection by the *)
(* handler thread on whose stack it lives (server.c:241).  What a call     *)
(* does to a chain while it holds the bucket's mutex is one step; the      *)
(* count is shared by all buckets, so current_elements++ is a read and a   *)
(* write.  The callbacks of an iteration are those that do not call the    *)
(* map again; kick_unresponsive, which does, is in module Server.          *)
(***************************************************************************)
EXTENDS Integers, FiniteSets, Uid

CONSTANTS Handlers,   \* handle_client threads: find, insert, erase, iterate2
          Others,     \* router, pinger, CLI: find, iterate
          Uids,       \* the strings the map is asked for, as in module Uid
          UidOf,      \* the uid of each handler's connection
          SizeMod,    \* size_t arithmetic is modulo SizeMod
          NULL

Threads == Handlers \cup Others
Buckets == 0..(HashSize - 1)
BucketOf == [u \in Uids |-> Bucket(u)]
NoUid == CHOOSE u \in Uids : TRUE    \* a thread that is in no call
Responses == {"none", "new", "replaced", "erased"}

ASSUME MapAssumption ==
    /\ Handlers \cap Others = {} /\ NULL \notin Threads
    /\ Responses \cap (Threads \cup {NULL}) = {}
    /\ UidOf \in [Handlers -> Uids]
    /\ SizeMod \in Nat \ {0}
    /\ Uids \subseteq Seq(0..Base) /\ Uids # {}
    /\ \A u \in Uids : StrToULong(u) \in 0..UlongMax

VARIABLES chain,            \* the connections in each bucket, head first
          mutex,            \* the thread that holds each bucket's mutex, or NULL
          currentElements,
          inserted,         \* cl.is_inserted
          pc, key,          \* what each thread executes next, and the uid of its call
          read,             \* the value of current_elements it has loaded
          answer,           \* what its call is going to return, or "none"
          bucket, node,     \* hash_map_iterate: loop counter and place in the chain
          visited,          \* history: connections the callback was called with
          stable            \* history: entries in the map since the iteration began

countVars == <<currentElements, read>>
iterVars == <<bucket, node, visited>>
vars == <<chain, mutex, countVars, inserted, pc, key, answer, iterVars, stable>>

TypeOK ==
    /\ chain \in [Buckets -> Seq(Handlers)]
    /\ mutex \in [Buckets -> Threads \cup {NULL}]
    /\ currentElements \in 0..(SizeMod - 1)
    /\ inserted \in [Handlers -> BOOLEAN]
    /\ pc \in [Threads -> {"idle", "find", "insert", "erase", "readCount", "writeCount",
                           "unlock", "iterLock", "iterate"}]
    /\ key \in [Threads -> Uids]
    /\ read \in [Threads -> 0..(SizeMod - 1)]
    /\ answer \in [Threads -> Handlers \cup {NULL} \cup Responses]
    /\ bucket \in [Threads -> Buckets]
    /\ node \in [Threads -> Nat]
    /\ visited \in [Threads -> Seq(Handlers)]
    /\ stable \in [Threads -> SUBSET Handlers]

(* hash_map_create *)
Init ==
    /\ chain = [b \in Buckets |-> <<>>]
    /\ mutex = [b \in Buckets |-> NULL]
    /\ currentElements = 0
    /\ inserted = [h \in Handlers |-> FALSE]
    /\ pc = [t \in Threads |-> "idle"]
    /\ key = [t \in Threads |-> NoUid]
    /\ read = [t \in Threads |-> 0]
    /\ answer = [t \in Threads |-> "none"]
    /\ bucket = [t \in Threads |-> 0]
    /\ node = [t \in Threads |-> 1]
    /\ visited = [t \in Threads |-> <<>>]
    /\ stable = [t \in Threads |-> {}]

-----------------------------------------------------------------------------
(* Where the walk along u's bucket stops: u's node, or the end of the chain. *)
Place(u) ==
    LET s == chain[BucketOf[u]]
    IN CHOOSE i \in 1..(Len(s) + 1) : /\ \A j \in 1..(i - 1) : UidOf[s[j]] # u
                                      /\ i <= Len(s) => UidOf[s[i]] = u

Present(u) == Place(u) <= Len(chain[BucketOf[u]])

Entry(u) == IF Present(u) THEN chain[BucketOf[u]][Place(u)] ELSE NULL

Entries == UNION {Range(chain[b]) : b \in Buckets}

Goto(t, to) == pc' = [pc EXCEPT ![t] = to]

Respond(t, a) == answer' = [answer EXCEPT ![t] = a]

Lock(t, b) == mutex[b] = NULL /\ mutex' = [mutex EXCEPT ![b] = t]

Unlock(b) == mutex' = [mutex EXCEPT ![b] = NULL]

(* The entry of `gone` left the map: no iteration can count on meeting it. *)
Unstable(gone) == stable' = [t \in Threads |-> stable[t] \ gone]

-----------------------------------------------------------------------------
(* A thread calls one of the operations. *)
Call(t, what, u) ==
    /\ pc[t] = "idle"
    /\ Goto(t, what)
    /\ key' = [key EXCEPT ![t] = u]
    /\ UNCHANGED <<chain, mutex, countVars, inserted, answer, iterVars, stable>>

(* A handler looks users up before it inserts its connection (user_auth),   *)
(* iterates after that, and erases its uid when the client has gone.        *)
InMap(t) == t \in Handlers /\ inserted[t]

CallFind(t) == ~InMap(t) /\ \E u \in Uids : Call(t, "find", u)
CallInsert(h) == ~InMap(h) /\ Call(h, "insert", UidOf[h])
CallErase(h) == InMap(h) /\ Call(h, "erase", UidOf[h])

CallIterate(t) ==
    /\ pc[t] = "idle" /\ (t \in Others \/ InMap(t))
    /\ Goto(t, "iterLock")
    /\ stable' = [stable EXCEPT ![t] = Entries]
    /\ UNCHANGED <<chain, mutex, countVars, inserted, key, answer, iterVars>>

(* hash_map_find: lock the bucket and walk *)
Find(t) ==
    /\ pc[t] = "find"
    /\ Lock(t, BucketOf[key[t]])
    /\ Respond(t, Entry(key[t]))
    /\ Goto(t, "unlock")
    /\ UNCHANGED <<chain, countVars, inserted, key, iterVars, stable>>

(* Mutant: a uid that is in the map is appended once more. *)
Insert_NoWalk(h) ==
    /\ pc[h] = "insert"
    /\ Lock(h, BucketOf[key[h]])
    /\ inserted' = [inserted EXCEPT ![h] = TRUE]
    /\ chain' = [chain EXCEPT ![BucketOf[key[h]]] = Append(@, h)]
    /\ Respond(h, "new")
    /\ Goto(h, "readCount")
    /\ UNCHANGED <<countVars, key, iterVars, stable>>

(* hash_map_insert: lock, walk, append a node or repoint the one found *)
Insert(h) ==
    /\ pc[h] = "insert"
    /\ Lock(h, BucketOf[key[h]])
    /\ inserted' = [inserted EXCEPT ![h] = TRUE]
    /\ IF Present(key[h])
       THEN /\ chain' = [chain EXCEPT ![BucketOf[key[h]]][Place(key[h])] = h]
            /\ Unstable({Entry(key[h])})
            /\ Respond(h, "replaced")
            /\ Goto(h, "unlock")
       ELSE /\ chain' = [chain EXCEPT ![BucketOf[key[h]]] = Append(@, h)]
            /\ UNCHANGED stable
            /\ Respond(h, "new")
            /\ Goto(h, "readCount")
    /\ UNCHANGED <<countVars, key, iterVars>>

(* Mutant: everything behind the erased node is dropped with it. *)
Erase_CutsChain(h) ==
    /\ pc[h] = "erase"
    /\ Lock(h, BucketOf[key[h]])
    /\ inserted' = [inserted EXCEPT ![h] = FALSE]
    /\ Respond(h, "erased")
    /\ IF Present(key[h])
       THEN /\ chain' = [chain EXCEPT ![BucketOf[key[h]]] = SubSeq(@, 1, Place(key[h]) - 1)]
            /\ Unstable({Entry(key[h])})
            /\ Goto(h, "readCount")
       ELSE UNCHANGED <<chain, stable>> /\ Goto(h, "unlock")
    /\ UNCHANGED <<countVars, key, iterVars>>

(* hash_map_erase: lock, walk, unlink and free the node found *)
Erase(h) ==
    /\ pc[h] = "erase"
    /\ Lock(h, BucketOf[key[h]])
    /\ inserted' = [inserted EXCEPT ![h] = FALSE]
    /\ Respond(h, "erased")
    /\ IF Present(key[h])
       THEN /\ chain' = [chain EXCEPT ![BucketOf[key[h]]] = RemoveAt(@, Place(key[h]))]
            /\ Unstable({Entry(key[h])})
            /\ Goto(h, "readCount")
       ELSE UNCHANGED <<chain, stable>> /\ Goto(h, "unlock")
    /\ UNCHANGED <<countVars, key, iterVars>>

(* current_elements++ of an insertion, current_elements-- of an erasure *)
ReadCount(h) ==
    /\ pc[h] = "readCount"
    /\ read' = [read EXCEPT ![h] = currentElements]
    /\ Goto(h, "writeCount")
    /\ UNCHANGED <<chain, mutex, currentElements, inserted, key, answer, iterVars, stable>>

WriteCount(h) ==
    /\ pc[h] = "writeCount"
    /\ currentElements' = (read[h] + (IF answer[h] = "new" THEN 1 ELSE SizeMod - 1)) % SizeMod
    /\ read' = [read EXCEPT ![h] = 0]
    /\ Goto(h, "unlock")
    /\ UNCHANGED <<chain, mutex, inserted, key, answer, iterVars, stable>>

(* Unlock and return. *)
UnlockBucket(t) ==
    /\ pc[t] = "unlock"
    /\ Unlock(BucketOf[key[t]])
    /\ Respond(t, "none")
    /\ Goto(t, "idle")
    /\ key' = [key EXCEPT ![t] = NoUid]
    /\ UNCHANGED <<chain, countVars, inserted, iterVars, stable>>

(* hash_map_iterate, hash_map_iterate2: bucket by bucket *)
IterLock(t) ==
    /\ pc[t] = "iterLock"
    /\ Lock(t, bucket[t])
    /\ Goto(t, "iterate")
    /\ UNCHANGED <<chain, countVars, inserted, key, answer, iterVars, stable>>

IterVisit(t) ==
    /\ pc[t] = "iterate" /\ node[t] <= Len(chain[bucket[t]])
    /\ visited' = [visited EXCEPT ![t] = Append(@, chain[bucket[t]][node[t]])]
    /\ node' = [node EXCEPT ![t] = @ + 1]
    /\ UNCHANGED <<chain, mutex, countVars, inserted, pc, key, answer, bucket, stable>>

(* Mutant: the loop over the buckets runs while i <= hash_size. *)
LastVisited_OneMore(t) ==
    pc[t] = "iterate" /\ node[t] > Len(chain[bucket[t]]) /\ bucket[t] = HashSize

(* the end of the last bucket's chain *)
LastVisited(t) ==
    pc[t] = "iterate" /\ node[t] > Len(chain[bucket[t]]) /\ bucket[t] = HashSize - 1

IterUnlock(t) ==
    /\ pc[t] = "iterate" /\ node[t] > Len(chain[bucket[t]])
    /\ Unlock(bucket[t])
    /\ IF LastVisited(t)
       THEN /\ Goto(t, "idle")
            /\ bucket' = [bucket EXCEPT ![t] = 0]
            /\ visited' = [visited EXCEPT ![t] = <<>>]
            /\ stable' = [stable EXCEPT ![t] = {}]
       ELSE /\ Goto(t, "iterLock")
            /\ bucket' = [bucket EXCEPT ![t] = @ + 1]
            /\ UNCHANGED <<visited, stable>>
    /\ node' = [node EXCEPT ![t] = 1]
    /\ UNCHANGED <<chain, countVars, inserted, key, answer>>

-----------------------------------------------------------------------------
(* A thread waits for a bucket's mutex, or holds it and goes on. *)
Waits(t) == \/ Find(t) \/ IterLock(t)
            \/ t \in Handlers /\ (Insert(t) \/ Erase(t))

Runs(t) == UnlockBucket(t) \/ IterVisit(t) \/ IterUnlock(t) \/ ReadCount(t) \/ WriteCount(t)

Next == \/ \E t \in Threads : CallFind(t) \/ CallIterate(t) \/ Waits(t) \/ Runs(t)
        \/ \E h \in Handlers : CallInsert(h) \/ CallErase(h)

Spec == Init /\ [][Next]_vars

-----------------------------------------------------------------------------
(* No two entries have the same uid, wherever they are: find and erase stop  *)
(* at the first match (hash_map.c:99, 174), a second one would be unreachable. *)
OneEntryPerUid ==
    \A b, c \in Buckets : \A i \in 1..Len(chain[b]), j \in 1..Len(chain[c]) :
        UidOf[chain[b][i]] = UidOf[chain[c][j]] => b = c /\ i = j

(* Between updates the count that `list`, the log and the client ids are     *)
(* computed from is the number of entries, although current_elements is      *)
(* changed under a different mutex for each bucket (hash_map.c:152, 187).    *)
(* It holds because StrToULong saturates: all users share a bucket.          *)
CountExact ==
    (\A t \in Threads : pc[t] \notin {"readCount", "writeCount"}) =>
        currentElements = Cardinality(Entries)

(* An iteration calls back exactly once for every entry that stays in the    *)
(* map from its start to its end, whatever is inserted, replaced and erased  *)
(* meanwhile (hash_map.c:227-237).                                           *)
IterationComplete ==
    \A t \in Threads : LastVisited(t) =>
        /\ stable[t] \subseteq Range(visited[t])
        /\ \A h \in stable[t] : Cardinality({i \in DOMAIN visited[t] : visited[t][i] = h}) = 1

(* Every call takes effect at one instant: the map is the table of Registry. *)
Table == INSTANCE Registry WITH registered <- [u \in Uids |-> Entry(u)]
ImplementsRegistry == Table!Spec
=============================================================================
