# A verification of secure-chat

secure-chat is a TLS chat: a server process with one thread per connection and four service
threads, and a graphical client with four threads of its own. This directory holds TLA+ modules
that model its concurrent core, its start over crashes, and what passes over a connection, TLC
configurations that check them on small instances, and theorems about the message queue, the client
map, the server's handlers and router, the login dialogue seen from the client, the protocol, the
log, the start-up and the acceptor that TLAPS proves for every instance.

Paths below are relative to the repository's root; `x.c:n` names a line of the source.

## The system

| Part | Source | State it keeps | Operations | What is hard |
|---|---|---|---|---|
| Message queue | `common/src/sts_queue.c` | `head`, `tail`, elements on the heap, a mutex that is never initialised | `push`, `pop` | interleaved pointer updates, elements freed while `tail` still names them |
| Client map | `common/src/hash_map.c` | buckets of linked nodes, a mutex per bucket, `current_elements` for all | `find`, `insert`, `erase`, `iterate`, `iterate2` | a count shared by buckets with separate locks, callbacks under a lock, `strtoul` on 128-digit uids |
| Connection handler | `server.c:234-315` | `client_connection` on its stack | log in, insert, announce, read, erase, leave | its record is used and overwritten by other threads |
| Authentication | `server_auth.c` | attempts, the pointer `cl`, the users table | name, choice, passwords, online check | check and insertion are separate; `cl` is overwritten by the search |
| Router | `server.c:353-398` | the message and record at hand | pop, find, send, mark pings, free | uses a record after the bucket is unlocked, blocks on a client that does not read |
| Pinger | `server.c:157-198, 317-327` | `ping_sent` of each client | ping all, wait, kick those that did not answer | erases from within an iteration |
| Operator commands | `server.c:72-150`, `server_cli.c` | command history | kick, kick all, broadcast, ... | uses records without a lock |
| Start-up | `main.c`, `server.c:518-668`, `server_db.c`, `server_openssl.c` | tables, `server.key`, `server.crt` | tables, key and certificate, socket, service threads | what a crash leaves is found by the next start |
| Acceptor | `server.c:435-516, 658-668` | `thread_count`, `threads`, descriptors | accept, hand over to a thread | the count only goes up, two threads change it, a handshake may never end, descriptors are closed twice, by others or never |
| Statistics | `server.c:400-433` | counters | log them | - |
| Protocol | `common/src/protocol.c` | - | create, parse, send a message | buffers and messages used again, empty payloads, results nobody looks at |
| Client threads | `client.c`, `client_msg_handler.c` | `cl`, `cl_state`, `reconnect_flag` | receive, reconnect, ping | all of it is shared without a lock |
| Client window | `client_gui.c` | input line, prompt flags, ten lines | Enter, add a line | flags of old prompts decide how a line is sent; two threads add lines |
| Logging | `common/src/log.c` | log files, `log_mutex` | `init_logging`, `log_message`, `finish_logging` | waits for a file lock under the mutex |

The handlers, the pinger and the command line push messages to the queue; the router pops them,
looks the recipient up in the map and writes to its connection. The handler of that connection
reads the client's answers. Uids are the SHA-512 of usernames, in hexadecimal. Every thread logs.
The database, the key and the certificate are persistent; the server's memory does not survive a
restart, which `docker-compose.yml` orders whenever the server ends.

What makes each part correct:

* queue: FIFO, nothing lost, no access to a freed element, and every message delivered in the end;
* map: each call takes effect at one instant; one entry per uid; the count is the number of
  entries; an iteration meets every entry that stays; a mutex is held only within a call;
* handlers and authentication: an entry leads to a live record with its own uid; one entry per
  user; no two handlers serve or close one connection; a uid in use belongs to an account; a client
  that is ready can be reached; a handler whose client has gone gets out;
* router and pinger: a message goes to the user it is for; the queue drains; a kicked client is
  gone;
* start-up: a server that listens has every table and a certificate for its own key, a complete
  pair is kept, and a server that nothing has stranded comes up again;
* acceptor: a descriptor is used by its owner only and is closed by it, every thread is in the
  registry, and who connects is admitted unless a limit has been reached or a handshake stalls;
* log: whoever writes holds `log_mutex`, a file that is open and its lock, and no call waits for ever;
* protocol: a message is handled as it was written, whatever buffers held before, pings are answered,
  and the client's alarm about a missing answer is justified;
* client: window and server agree on what is being asked and on who the client is, a prompt that
  was sent is shown, and a reconnection leads to a dialogue; the screen shows the lines in order.

`PROJECT.json` lists the hazards line by line with the properties that are for them.

## The modules

    FifoQueue <--refines-- StsQueue <-- MCStsQueue
                               ^------- StsQueueProofs
    Registry  <--refines-- HashMap  <-- MCHashMap
                      Uid <---^  ^-- HashMapProofs
    Log <-- Startup         Acceptor              Server <-- MCServer
     ^---- LogProofs            ^-- AcceptorProofs      ^-- ServerProofs
     ^---- StartupProofs    Wire <-- MCWire        Client
                              ^-- WireProofs        ^-- ClientProofs

* **`StsQueue`** - `push` and `pop`, one action per access to shared memory; only the value of an
  element, which nobody rewrites, is read in the step that moves `head`. An element is an
  address; `next`, `value` and `allocated` are the heap. `excludes` says what the uninitialised
  mutex does, and Init chooses it from `MutexOutcomes`: zeroed memory gives a mutex that works,
  the fill pattern of the sanitised build gives one whose `pthread_mutex_lock` returns an error
  that nobody reads. `chain`, `pushed` and `taken` are history. **`FifoQueue`** is what the
  server expects of it.
* **`Uid`** - `strtoul` and the choice of a bucket. **`MCUid`** compares the conversion with a
  reference definition over all strings up to a length (an assumption that TLC evaluates).
* **`HashMap`** - the map. What a call does to a chain under the bucket's mutex is one action;
  locking, the two accesses of `current_elements++`, unlocking, and each visit of an iteration
  are actions. **`Registry`** is what its callers expect: a table whose calls are atomic.
* **`Server`** - handlers, authentication, router, pinger, commands. Because all uids share one
  bucket (see `UidsSaturate`, an assumption of `MCHashMap` that TLC evaluates) the map is one list with one mutex; the queue is the FIFO
  sequence. A pointer to a `client_connection` is the session whose stack it points to, `Dead`
  when that handler has ended. `auth[s].cl` is `user_auth`'s parameter `cl`, which a search
  overwrites. Undefined behaviour (a dead record, `free` of a stack address, a wild uid) sets
  `fault` and stops the model; what uninitialised fields hold is chosen among the `*Garbage`
  constants. `Astray(r)` says that a dialogue has gone on after its user was found online and has
  written to that session's record. `LogIn` writes uid and request in one step (`server_auth.c:367-402`).
  `rivals` is history: the sessions that have been past their insertion together with another session
  of the same user.
* **`Log`** - the log's table of files, `log_mutex` and the lock of each file, as operations that any
  thread may call (`LogSpec` is the log under arbitrary callers and with other processes that lock its
  files). The retries are counted, `MaxRetries` of them; `unopened` is history.
* **`Startup`** extends `Log` with the main thread from `main` to its wait loop and the two service
  threads that log. `tables`, `key` and `cert` survive `Crash` and `Exit`; `RemoveFile` is the
  operator's. A decision of the code is an action; calls that follow one another without a decision
  are a series, `main.calls`, which `FollowCalls` works off, with the series that end in `exit`
  for the failures. Each failure, crash or intervention uses up one of `MaxFaults`.
* **`Acceptor`** - the acceptor's loop, run_server's registration of the acceptor beside it
  (`main`), handlers for what they open and close, and the table of descriptors. `req` is each handler's
  `cl.req`, which a dialogue that found a user online may overwrite (`TakeOver`): from then on that
  user's handler reads from and closes the other connection (`Leave`). Which dialogues do so is
  `Server`'s business; here any one may. The increment of `thread_count` is three steps on both
  sides. `raced` and `doubled` are history: they say that the two registrations overlapped, and that
  a second `close` hit somebody else's descriptor. The second `sqlite3_close` of a dialogue that has
  used up its attempts (`server_auth.c:424, 433`) is undefined for SQLite and not modelled.
* **`Wire`** - one logged-in connection: the handler, which uses one buffer and one message for
  all it reads, the router, and the client's receiving thread, pinger and window. A record is what
  one `SSL_write` sends; `Unparsable` is one without fields, of which `parse_message` takes nothing:
  the zero it still writes behind the payload (`protocol.c:59`) is out of bounds if the message has never
  been set, which the model leaves out. `overlap` stops the model where two threads are in `SSL_write` at one end.
* **`Client`** - the client's four threads against the server's end of the login dialogue, with
  the connection in between. `flags` is `cl_state`; `ssl` says whether the SSL object is absent,
  valid or freed; `recv.current` whether the receive thread reads the newest connection. Whether a
  user is online elsewhere and whether a registration is overtaken is a choice: the server's side
  of that is in `Server`. Messages that only print are left out, so are empty lines and the
  client's own pings, which are in `Wire`.

## Runs

| Run | Module, cfg | Result | Shows |
|---|---|---|---|
| `queue` | `MCStsQueue`, `StsQueue.cfg` | holds | with a working mutex the list is a FIFO queue, touches no freed element, delivers everything |
| `queue_mutex` | `MCStsQueue`, `StsQueueBroken.cfg` | **violated** | with the mutex as `create` leaves it, two pushes to an empty queue lose a message |
| `map` | `MCHashMap`, `HashMap.cfg` | holds | the map implements `Registry`; count, entries and iterations are right; no deadlock |
| `server_login` | `MCServer`, `ServerLogin.cfg` | holds | two connections race for alice, one may register bob, dialogues go on with the online session's record; who serves, reaches and is sent what; texts and a command |
| `server_live` | `MCServer`, `ServerLive.cfg` | holds | two sessions that may both be alice, a round of the pinger; clients leave, the queue drains |
| `one_login` | `MCServer`, `OneLogin.cfg` | **violated** | two sessions of one user |
| `kick_removes` | `MCServer`, `KickRemoves.cfg` | **violated** | kicking locks the pinger out by itself |
| `client` | `Client`, `Client.cfg` | holds | prompts, attempts and identity agree at both ends |
| `client_recovers` | `Client`, `ClientRecovers.cfg` | **violated** | after a reconnection the receive thread waits for ever |
| `startup` | `Startup`, `Startup.cfg` | holds | starts over crashes, failures and removed files; the log while files are opened, written, closed and locked by others |
| `acceptor` | `Acceptor`, `Acceptor.cfg` | holds | three connections against a registry of seven and three descriptors, beside run_server's registration; requests overwritten by dialogues gone astray |
| `wire` | `MCWire`, `Wire.cfg` | holds | empty and long lines, pings of both sides, the ring of lines |

The violated ones are disagreements between the code and what the repository says of it, quoted
under "findings" in `PROJECT.json`. Where a passing property makes an exception, the exception is a
behaviour of the code that the run reaches and that nothing in the repository rules out:

* `Stuck` in the liveness properties of `Server` is the lock-out of `kick_removes`, and `fault` the
  stop after undefined behaviour, among it the `free` of a recipient's stack after each message
  that is delivered (`server.c:390`).
* `DeliveredToAddressee`, `EntriesLive`, `OneEntryPerUser` and `ReadyReachable` hold while no dialogue
  is astray (`NobodyAstray`): once `user_auth` has gone on with the pointer its search returned
  (`server_auth.c:276`), it renames the online session's record. It takes a third session of the
  new name for the map to have two entries of one user, of which the leaving of one erases the
  other's: the map then leads to a handler that has ended. `AccountsExist` and `ConnectionsNotShared` hold all
  the same: the handler of the dialogue that has gone astray has no uid in its own record, so that
  it does not get past its insertion and never reads from the connection it has given away.
* `rivals` in `ReadyReachable`: of two sessions of one user (`one_login`) only one can be found, and none
  once one of them has left, since it erases by uid (`server.c:311`).
* `QueueDrains` has a premise: the router comes back from every client it writes to. `SSL_write`
  (`server.c:381`) has no timeout, and a client that stays connected and reads nothing keeps the only
  router, and so all delivery, waiting.
* `SessionAgrees` is for users who type only when asked: a line typed before the first prompt is
  taken as the name by the server and not by the client. It leaves out the flags of the choice and of
  the confirmation, which are not cleared by logging in (`client_gui.c:108`).
* `Stranded` in `Startup.Recovers`: a crash between `fopen` and the end of the writing leaves a
  `server.key` or `server.crt` that every later start takes for granted, and a removed key is
  replaced beside the certificate of the old one. No restart mends either; the server never serves
  with such a pair (`ServesOwnCertificate`).
* `raced`, `doubled` and `TakenOver` in `Acceptor`: a registration that overlaps another may lose a
  slot, the second `close` of a refused connection may close a descriptor that `accept` has just
  returned, and a handler whose `cl.req` has been overwritten closes another's socket.
  `DescriptorsAccounted` holds through all of that and names the two ways a descriptor is never
  closed: a client that leaves before it gives a name, and the socket of a handler that has closed
  another one instead. `Admitted` names the three ways nobody is admitted any more: the registry is
  full (every connection of the server's life counts), no descriptor is free, a handshake stalls.
* `overlap` in `Wire`, and `early` in `AlarmFounded`: an answer that arrives before
  `server_answer = 0` (`client.c:148`) is forgotten.

### Bounds, and why they are enough

* Queue: two pushers and the router, three messages, three addresses: empty, one-element and longer
  lists, a push racing a pop on each, and addresses that are used again. The proofs cover every
  other size of the safety part.
* Map: two sessions of alice, one of bob, the router; two buckets; base 4 and 3-bit unsigned longs
  in place of base 16 and 64 bits. alice's and bob's uids would fall into different buckets if the
  conversion wrapped around, and then `CountExact` fails.
* Server: two sessions are what a race of the login needs (one overtakes, replaces or is erased by
  the other, or writes to the other's record). That an entry can be replaced by one session and erased
  by another takes three: `ServerProofs` covers any number. `MaxAttempts` is the code's 3 where attempts matter. One text per client, one
  command, one round of the pinger: each thread meets the others in every state of their calls.
  In every run the two sessions may
  use the same name. `Cautious` clients (all runs but `server_login`) leave before a dialogue goes
  astray, so that what these runs show is not a consequence of that.
* Client: 3 attempts, two connections (a first and a reconnection), two failures or losses, one
  line typed unasked, one message of a session. That is enough for any old thread's late step to
  meet a new connection. `ClientProofs` covers every number of attempts, losses and lines. A third connection is excluded by `ClientAssumption`: it may be made while
  the second is still open, with the receive thread reading it, which the model does not follow.
* Start-up: two faults, so that a start finds what one has left and another may hit the repair; two
  keys (a removed one and its replacement), two tables, two attempts where the code has 10 or 120,
  one retry of the file lock where it has 5000, one contended file (`server.log`, which everybody
  writes), one that cannot be opened. `MaxFaults` also bounds how often the server ends.
* Acceptor: four services registered and three connections reach `MaxThreads` = 7 if the acceptor
  has slots for two, so that the limit stops the third; three descriptors run out when two
  dialogues hold a socket and a database. `MaxEarly` = 1 connection may be handed over while
  run_server has not gone on; more would need a handshake to be faster than one line of the log.
* Wire: a ring of two lines wraps with the lines that are typed and received (ten in the code); a
  line longer than the payloads of pings stays behind them in the handler's buffer; two pings, so
  that an answer to the first can meet the second.

`CHECK_DEADLOCK FALSE` is set where the system may stop: clients and users need not act, bounded
events are used up, and a model with `fault` set has no steps. `queue` and `map` check for
deadlock: their threads can always go on.

### Fairness

Threads that the kernel runs are given weak fairness (`WF`); a thread that waits for a mutex
others take again and again is given strong fairness (`SF`), one conjunct per thread of the server:
glibc's mutexes do not promise more than this, and none of the loops holds a mutex without end
except the one reported by `kick_removes`. In `Startup` the fairness of `Start` is docker-compose's
`restart: unless-stopped`, and a thread in the log is given strong fairness because it waits for
`log_mutex`. Nothing is assumed of clients, users, the operator, other processes that lock log files,
or the network: they may stop at any time. Two steps of the server's own threads depend on a client,
because they block without a timeout, and are given no fairness: the handshake in the acceptor
(`server.c:473`) and the router's `SSL_write` (`RouterSend`, `server.c:381`). `Admitted` and
`QueueDrains` take as premises that these return.

## Proofs

### The queue

`StsQueueProofs` proves, for all sets of threads, messages and addresses:

* `TypeCorrect`: `Spec => []TypeOK`, whatever the mutex does. The strengthening `TypeInv` says that
  a thread past `PushAlloc` has an element with a value, which is what makes `pop` return messages.
* `ListCorrect`: `Spec => []ListInv`. `ListInv` is about a mutex that excludes: who is between lock and
  unlock holds it, elements that are not linked belong to one thread, the linked ones are the list
  from `head` to `tail`, and local pointers are still right where they are used. The inductive
  invariant is `ListIInv == TypeInv /\ (excludes => Guarded)`, where `Guarded` adds to the parts
  of `ListInv` that no fault has happened; there is one lemma per action, with one step per
  conjunct. `ListInv` is needed because memory safety alone is not inductive: that `tail` may
  dangle while the queue is empty (`pop` never resets it) is harmless only because `push` tests
  `head` first.
* `SafeWithMutex`: `ASSUME MutexOutcomes = {TRUE} PROVE Spec => []MemorySafe`: an initialised mutex
  would be enough.
* `QueueIsFifo`: under the same assumption `Spec => ImplementsFifo`, the refinement of `FifoQueue`:
  linking an element is the push, advancing `head` the pop, everything else a stutter. On top of
  `Guarded` it needs `Fresh`: what a `push` is about to link is neither in the list nor handed out nor
  about to be linked by another, or `FifoQueue` would not allow the push.

They rest on `QueueAssumption` (`NULL` is no address, thread or message; producers and consumers
differ) and nothing else.

### The map

`HashMapProofs` proves everything the run `map` checks, for any number of threads, uids and buckets:

* `MapTypeCorrect` and `NoSecondEntry`, from `MapInv`: every chain holds entries of its own bucket
  and at most one for a uid (`Chains`), and a thread in a call holds the mutex it is about to release
  and updates the map under its own uid only (`InCall`). `InsertEffect` and `EraseEffect` say what the
  two updates do to the set of entries; the lemmas on sequences under them are about appending to a
  chain, replacing in it and removing from it.
* `MapImplementsRegistry`: `Spec => ImplementsRegistry`, the refinement: a call takes effect when it
  has walked its bucket, and every other step stutters. It rests on `Found`: the walk ends at the one
  entry of the uid, or there is none.
* `CountIsExact`: if `strtoul` saturates for every uid (`Saturated`) and fewer handlers than `SizeMod`
  exist, then `Spec => []CountExact`. One bucket means one updater (`OneUpdater`), for which `CountInv`
  says by how much the count is off. Without `Saturated` the theorem is false: two buckets are two
  mutexes, and an update of the count is lost.
* `IterationVisitsAll`: `Spec => []IterationComplete`, by `Progress`: an iteration has visited once the
  stable entries it has passed, and no other stable one. Updates do not disturb it because they are
  made under the mutex of a bucket in which it is not (`ProgressKept`).

They rest on `UidAssumption` and `MapAssumption`. That `StrToULong` returns an unsigned long is part of
`MapAssumption`, which TLC evaluates: it is a fold over the digits, for which there is no induction.

### The server

`ServerProofs` proves every invariant of the run `server_login`, for any number of
sessions, users, texts, pings and commands, and whatever uninitialised memory holds. The inductive
invariant is `ServerInv == TypeInv /\ PointerInv /\ Owned /\ Accounted /\ Orderly`:

* `TypeInv` is the types together with what a handler's point implies for the values it will use
  (attempts left, a name given). `ServerTypeCorrect`: `Spec => []TypeOK`.
* `PointerInv` is about the pointers that `hash_map_find` hands out: a dialogue's `cl` leads away from
  its own record only after a failed attempt, and then to a session past its login; entries belong to
  such sessions; and a record with another's connection, or freed by another, has a dialogue
  that still points to it.
* `Accounted`: a name that a dialogue is going to log in with, and every uid in a record, is a row of
  the users table. `UidsAreAccounts`: `Spec => []AccountsExist`.
* `Owned` says what keeps a dialogue that has gone astray from going further: its own record has no
  uid as long as the dialogue lasts, and still has none if the login went to another record.
  `HandlersServeApart`: `Spec => []ConnectionsNotShared`, without any exception: who serves has
  logged in to its own record, and who has put its request into another's record has not.
* `Orderly`: as long as nobody's record has been touched by another dialogue (`Untouched`), a record
  holds its own session's name (`OwnUid`), entries are alive and have different uids (`Listed`), a
  session past its insertion is in the map or has met a rival, and if its user has no entry left a
  rival has taken it along (`Reached`), and what the router has found has the uid it looked for
  (`Addressed`). None survives without the others: an entry is erased by its uid, and that this leaves
  no entry of the handler behind needs both that its uid is still its own and that it has no second
  entry. The induction also needs that a record once touched stays touched (`UntouchedBefore`),
  since `Orderly` says nothing of the steps before that.

`MapLeadsToTheLiving` (`EntriesLive`), `UserHasOneEntry` (`OneEntryPerUser`), `MessagesReachTheirUser`
(`DeliveredToAddressee`) and `ReadyClientsAreReachable` (`ReadyReachable`) follow, because a record can only be
touched by a dialogue that is astray (`NobodyAstray`, the premise of the four). None assumes anything of the names
that sessions use.

Next has some thirty actions, and most do the same to what these invariants are about. `StepKinds`
therefore sorts every step into `Quiet` (nobody's point, dialogue, uid, entry or rival changes) and seven kinds of steps
of one handler (`Passes`, `Answers`, `LogsIn`, `Collides`, `Cleans`, `Inserts`, `Erases`), and each
invariant is proved over these eight. That the walk of the list ends at the first entry with a uid, or
that there is none (`WalkEnds`), is the well-foundedness of `<` on the naturals.

They rest on `ServerAssumption`.

### The connection

`WireProofs` proves the four invariants of the run `wire` for any lines, any size of the ring and any
number of lines, pings and messages, from `WireAssumption` and the inductive invariant `WireInv`:

* `WireTypeCorrect`: `Spec => []TypeOK`, with owed answers never more than pings sent.
* `MessagesAreParsedAsWritten`: `Spec => []ParsedAsWritten`. `ParseIsExact` says that `parse_message` cuts off what
  an earlier, longer message left in the buffer; the rest is that nobody else touches a message between
  its reading and its handling.
* `ScreenKeepsOrder`: `Spec => []ScreenInOrder`, by `Shown`: a thread that adds a line alone has written it to where
  the count points (`NextCount` is the arithmetic of the ring).
* `AlarmsAreFounded`: `Spec => []AlarmFounded`, by `Alarms`: until the pinger waits an answer is still owed, or
  one has come early.

Steps are sorted by what they have in common (`Works`: one thread's step, others keep place and message).

### The client

`ClientProofs` proves the three invariants of the run `client`, for any users, passwords, losses and
lines typed unasked, over the first connection and the second. The inductive invariant
`SessionIInv` has its parts in three layers, each a theorem of its own:

* `ClientTypeCorrect`: `Spec => []TypeOK`, by `TypeInv`: as long as a dialogue lasts there is an attempt left.
* `WindowAsksWhatTheServerAwaits`: `Spec => []PromptsAgree`. `PromptsAgree` speaks of moments at which nothing is on
  its way; in between flags and server need not agree at all. `Prompting` therefore
  says what the window *will* show: `Shown(now, On, Off, s)` is whether a flag will be set when the
  messages `s` have been handled, those in `On` setting it and those in `Off` clearing it. What the
  server says is appended to `s`, what the client handles is taken from its front and noted in the flags, and
  neither changes what `Shown` says of the rest (`ShownAppend`, `ShownTail`). It needs `Messages`, the order in which
  a dialogue and the session after it speak, and `Threads`: nobody reconnects while the first connection is
  alive, a second one begins without prompts, and a message that an old
  connection has left is not handled in a new one.
* `SessionIsTheUsers`: `ASSUME MaxAttempts <= 6 PROVE Spec => []SessionAgrees`. After a wrong password the
  server prompts for the password again and then asks for the username (`server_auth.c:349`), so that a user
  who types only when asked can still be up to three answers ahead, and a password
  can be read as a name. `Owes(p)` says that the prompts not answered yet, or whose answers
  have not been read yet, are the sequence `p`: the answers on their way, the prompt in the window, the prompts
  on their way. `Ahead` lists which `p` each point of the dialogue allows after how many
  attempts; `LastName` says that what the server reads as the last name is what the
  client has stored as its `username`. Running further ahead costs further attempts, and six are too few
  for a user to type the next name while the password of the last one is still unread; with
  seven TLC finds a session of alice in a client that takes itself for bob and drops what it is sent. The
  code's `USER_LOGIN_ATTEMPTS` is three.

They rest on `ClientAssumption`: names, passwords and choices are told apart by what they are, and there
are at most two connections (see above for the third).

### The log

`LogProofs` is about `LogSpec`, the log under any calls by any threads at any time, with other
processes that lock its files and exits of the process, for all threads, files and limits:
`LogTypeCorrect` (`LogSpec => []LogTypeOK`) and `LogIsConsistent` (`LogSpec => []LogConsistent`).
`LogConsistent` is inductive together with the types: that the file a thread found is still open when
it writes holds because whoever closes files needs the mutex, that the lock is held for one thread
because a thread in `write` holds the mutex. The assumption is `LogAssumption`.

### The start of the server

* `StartupImplementsLog`: `Spec => LogSpec`. Every action of `Startup` is a step of the log or leaves
  the log alone, so `StartupLogIsConsistent` (`Spec => []LogConsistent`) follows from `LogIsConsistent`
  and not from another induction.
* `ServerServesOwnCertificate`: `Spec => []ServesOwnCertificate`, by the inductive invariant
  `StartIInv == StartTypes /\ Ordered`. `StartTypes` is the part of the types the argument needs;
  `Ordered` says what each point of the start has behind it: how far the tables are, that a
  file which is being written is incomplete, that a key is there once it has been looked for, and
  that beyond the loading of the pair key and certificate belong together. It is needed because key and certificate may
  be in any state when the server starts, and only `LoadPair`, in the middle, rejects the others.
* `PairIsKept`: `Spec => PairKept`, from the same invariant: with a complete pair the points at which
  files are written are not reached.
* `StartupTypeCorrect`: `Spec => []TypeOK`, with the lemmas on `main.calls` as a sequence of `Calls`.
* `ServicesLogToOpenFiles`: `Spec => []EarlyLines`, by `EarlyInv`: a service that runs has its log open
  (`ServicesOpen`), because the series of calls that creates it has opened that log before, or has the
  opening still ahead of the creation (`CallsInOrder`); an `exit` or a crash takes the services with it.

They rest on `LogAssumption` and `StartupAssumption`.

### The acceptor

`AcceptorProofs` proves the four invariants of the run, for any number of connections, threads and
descriptors, from `AcceptorAssumption`. Each rests on an invariant of its own, built on `CountsInv`:

* `AcceptorTypeCorrect`: `Spec => []TypeOK`. That `count` stays within `threads` needs `Counts`: the
  acceptor tests the limit at `accept` and nobody else fills the registry up before it stores, since
  run_server's one registration happens while few connections have been accepted (`MaxEarly`).
* `NoOtherLeak`, from `NotedInv`: whatever is open for a connection is the descriptor that it has
  noted (`Noted`), and its handler has yet to close it, or is one of the two that never will. That
  holds whoever closes what, since a close too many only frees a descriptor.
* `ConnectionsKeepApart`, from `DescriptorsInv`: as long as no second close has hit an open
  descriptor and no request has been overwritten (`Meddled`), what a connection uses is open for it
  (`InUse`). It needs `Noted`: a descriptor is closed by the number noted, which must be open for
  nobody else. `Handed` says that a connection has no handler before the acceptor gives it one. Steps
  on behalf of one connection are lifted to all by `OthersKeep`.
* `SlotsAreKept`, from `RegistryInv`: as long as run_server and the acceptor have not met at the registry,
  only one of them is between writing its slot and storing the count, and it will store the count it
  loaded plus one (`Ordered`); slots up to the last differ, and nobody is in one before his
  registration (`Slotted`), without which the next entry might be a second one.

### Only model-checked

Liveness (`Delivered`, `LeavesEventually`, `QueueDrains`, `PromptComes`, `LogReturns`, `Recovers`,
`Admitted`, `PingAnswered`), which needs fairness and ENABLED, and the conversion in `Uid`, a fold
over data, for which there is no induction. Every invariant of a passing run is a theorem.

## Not modelled

* `destroy`, `hash_map_clear`, `hash_map_destroy` and the rest of the shutdown: nothing in
  the server ever sets `quit_flag` (`server.c:40` has the assignment commented out), `!exit` ends the
  process at once.
* Failures of `malloc`, SQLite statements and hashing in `user_auth`.
* The counters that `handle_info_update` logs: nothing depends on them.
* The texts of message types and codes, hashes and timestamps, and the limits of `create_message`
  on sizes. What users type in the window stays below them; a line the operator broadcasts need not
  (`server_cli.c` takes any line from `readline`), and is then refused, with an uninitialised message
  enqueued (`server.c:213`).
* The loop around `readline` in `handle_cli` (`server.c:329-351`): its commands come at any time.
  Parsing and history of commands, commands that only print or are not implemented (`list`,
  `mute`, `ban`). `kick` is documented for usernames and looks up uids (`server_cli.h:72`); the model's
  users are their uids.
* The failures of `init_ssl` in the client, its drawing, and what OpenSSL does with two writers.
* A failing `mkdir` or `malloc` in `init_logging`, errors of `flock` other than "would block".

## Plan

Done: the queue, the map, the server, the client, the protocol on a logged-in connection, the log, the
start-up and the acceptor, with their proofs. Next, in this order:

1. Refinement: `Server`'s queue and map replaced by `StsQueue` and `HashMap` on two sessions, or an
   abstract `Chat` (who is logged in, what has been sent to whom) that `Server` implements.
2. A third connection in `Client`, made while the receive thread still reads the second.
3. `Client` and `Wire` composed: pings while the connection is lost and made again.
