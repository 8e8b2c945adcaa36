# A TLA+ model of snp_exams

The repository holds small C programs written for the exams of a course on systems and network
programming, one directory per exam. They have no tests. What makes them worth modelling is what
they are about: threads, condition variables, signals, shared memory, barriers, `select` and TCP
connections, in programs of 50 to 300 lines where every interleaving counts.

This directory models them one exam at a time. Every action is one step of the code at the grain at
which another thread, process or the network can get in between. The texts the code is held against
are the exercise (`esameSNPnn.txt`), the author's README or leggimi, the comments and the messages
the programs print.

## 1. The system

| Directory | Programs | State they keep | Who interacts, and how |
| --- | --- | --- | --- |
| esameSNP04 | `client`, `server` | client: mutex, condition variable, one socket; server: `master`, `fdmax`, `read_fds`, descriptors | two client threads over a mutex, a condition variable and the socket; clients and server over TCP, `select` in the server |
| esameSNP06 | `proc1`, `proc2` | a character of System V memory, and in each process a mutex, `run`, the pid of the other | SIGUSR1, SIGUSR2 and SIGINT between the processes; main and a `sigwait` thread in each over the mutex |
| esameSNP08 | `server`, `client` | ten listeners in an `fd_set` | one thread with `select`, `accept`, `recv` |
| esameSNP09 | `server`, `client`, `multicaster` | the mapped file, its copy for `strtok` | TCP, a pipe, multicast |
| esameSNP10 | `esame10` | a list of nodes, linked by index, in POSIX shared memory | processes over the memory, with no lock |
| esameSNP12 | `server`, `client` | server: list of players, `master`, `newclient`; client: its map and the last line parsed | main, one thread per client and a writer over unlocked memory; TCP |
| esameSNP14 | `primo`, `secondo` | a mutex and ten characters in shared memory | parent and child, or two processes, over a process-shared mutex |
| esameSNP29 | `esame29` | buffer, mutex, condition variable, `run` | reader, writer and signal thread |
| esameSNP38 | `wmstdin`, and a copy of the APUE library | path buffer, inode looked for; the library: semaphores, child table, flag of the last signal | the file system; System V semaphores; UNIX domain sockets; pipes; SIGUSR1 and SIGUSR2 |
| esameSNP40 | `Server`, `Client`, `pthread_barrier.c` | `speed`, `connected`, `total`; the barrier's `left` and `round` | threads over unlocked variables and a barrier; TCP |
| gtramonte953.esameSNP44 | `server1`, `server2`, `client` | descriptors, children | ten client threads against a fork or a thread server |
| esameSNP21, esameSNP39 | none | | only the text of the exercise |

Every directory also has a `lib/` with the same error, flag, terminal (`ttymodes.c`) and daemon
(`daemonize.c`) routines; the client of esameSNP12 calls the first, the server of esameSNP08 the second.

What is hard in them, and what would make them correct:

* **esameSNP29**: each block read is saved once, in order, and SIGINT ends the program; a condition
  variable that is signalled without a flag makes each of these a race.
* **esameSNP40, barrier**: nobody returns before the last arrival and nobody sleeps on, although
  threads come back for the next round before others have woken and the round counter wraps.
* **esameSNP06**: one writer at a time and a process that resumes when it is told; standard signals
  merge and overtake each other.
* **esameSNP04**: a thread reads its own reply; the server never blocks in `recv`, answers everybody
  and mixes nobody's messages, while descriptors are closed and reused.
* **esameSNP12**: each client has a thread and a node, leaves nothing behind and is told of
  everybody; the map of the client shows true places. Nothing is locked in the server, a socket is
  handed over through a variable that is reused, and lines are not separated in the stream.
* **esameSNP10**: one list for all, and no walk beyond its memory, with concurrent and killed users.
* **esameSNP40, programs**: a served client leaves and the next one is taken; the bytes counted are
  those received.
* **esameSNP44, 08, 09**: each client is answered from what it sent, and a connection is closed when it
  has been served; with children nobody waits for, one descriptor held by several processes, and
  servers that wait for one client at a time.
* **esameSNP14**: one process at a time at the text and nobody passed over, when either program can be
  killed and started again.
* **esameSNP38**: `wmstdin` names the file itself in a tree that others change; the library's
  semaphores count their users although any process can die between two calls, and its calls for
  descriptors, commands and turns give what they promise, and return.
* **Every `lib/`**: the terminal is left as it was found, and a daemon keeps nothing of its caller.

`PROJECT.json` lists the hazards at the lines where they bite, with the properties that cover them.

## 2. The modules

| Module | Models | Composed of |
| --- | --- | --- |
| `CondPipeline` | esameSNP29/esame29.c | |
| `CondPipelineProofs` | its theorems | `CondPipeline` |
| `Barrier` | what a barrier promises | |
| `PthreadBarrier` | esameSNP40/lib/pthread_barrier.c | refines `Barrier` |
| `PthreadBarrierProofs` | its theorems, with the refinement | `PthreadBarrier` |
| `SpeedServer` | esameSNP40/src/Server.c | |
| `SpeedClient` | esameSNP40/src/Client.c | |
| `SignalHandshake` | esameSNP06: proc1.c and proc2.c | |
| `EchoLink` | one connection of esameSNP04 as its client may see it | |
| `TurnClient` | esameSNP04/src/client.c | `EchoLink` is its server |
| `TwoThreadsProofs` | the theorems of `TurnClient` and `SignalHandshake` | `TurnClient`, `SignalHandshake` |
| `SelectEcho` | esameSNP04/src/server.c with its clients | refines `EchoLink`, for each connection |
| `SelectEchoProofs` | its theorems, with the refinement | `SelectEcho` |
| `PlayerList` | the list of players its users may count on | |
| `PlayersServer` | esameSNP12/src/server.c with its clients | refines `PlayerList` |
| `PlayersMap` | coordinates from key to map: server.c and client.c of esameSNP12 | |
| `PlayersProofs` | the theorems of both, with the refinement | `PlayersServer`, `PlayersMap` |
| `SharedStack` | what insert, pop and count promise | |
| `SharedList` | esameSNP10 (macOS build) | refines `SharedStack` |
| `SharedListProofs` | its theorems, with the refinement | `SharedList` |
| `OneShotClients` | client.c of esameSNP08, 09 and gtramonte953.esameSNP44, and multicaster.c | |
| `EchoServers` | server1.c and server2.c of gtramonte953.esameSNP44 | `OneShotClients` |
| `PortServer` | esameSNP08/src/server.c | `OneShotClients` |
| `LineServer` | esameSNP09/src/server.c | `OneShotClients` |
| `OneShot`, `MCOneShot` | a behaviour of one of these four servers | the three above |
| `OneShotProofs` | its theorems | `OneShot` |
| `SharedMutex` | esameSNP14: primo.c and secondo.c | |
| `TtyModes` | lib/ttymodes.c, with the client of esameSNP12 around it | |
| `Daemon` | lib/daemonize.c | |
| `Semaph` | esameSNP38/lib/semaph.c | |
| `PassFd` | esameSNP38/lib: servlisten, servaccept, cliconn, sendfd, senderr, writen, recvfd | |
| `FindStdin` | esameSNP38/src/wmstdin.c and lib/pathalloc.c | |
| `Popen` | esameSNP38/lib/popen.c | |
| `TellWait` | esameSNP38/lib/tellwait.c | |
| `Parts`, `MCParts` | a behaviour of one of `SpeedServer`, `SpeedClient` and the eight above | instances of them |
| `PartsProofs` | the safety theorems of all ten | `Parts` |

How they are written:

* A thread is a program counter; its values name the call that comes next. A step that touches
  shared state is one action. Calls without effect on shared state (`printf`, local assignments) are
  part of the action next to them.
* `pthread_mutex_lock` is an action that waits until the mutex is free. `pthread_cond_wait` is three:
  release and sleep, wake (by a signal or without one), take the mutex again. `pthread_cond_signal`
  wakes a sleeper or is lost.
* A variable that is written by one thread and read by another without a lock is read and written in
  separate steps where the code does so (`total += n`, `FD_SET` on a shared set, `pop`).
* What the code does not define (an uninitialised `msg[0]`, unlocking a mutex of another thread,
  writing through an unset `prev`, reading a freed node) is a choice over what the build can do.
* A connection is a sequence of parts in each direction. `recv` returns some of what has come;
  `send` waits while the buffers are full. A client that closes turns the connection to `left` or
  `closed`, a reset to `reset`; the `send` after that may raise SIGPIPE, which no program handles.
* `Parts` is a sum, not a product: the variable `part` is chosen at the start and only that part takes
  steps, while the others stay in one of their initial states. What holds of `Parts` holds of each
  part alone, and each part keeps its own fairness. `OneShot` chooses its server in the same way, but
  there the clients and their connections are shared.
* A process that can be killed has an action `Kill`, possible between any two of its steps; what the
  kernel does then (closed descriptors, `SEM_UNDO`) is part of that action.
* Each module's operators written above a definition as "a plausible error" are not part of the
  specification: they say what bug in that definition the properties would notice.

Where they depart from the code, beyond wording and layout:

* Set-up code that ends the program when a call fails is left out; the models start after it.
* `CondPipeline`: file contents are block numbers; the two halves of the buffer are told apart, so
  that a half-filled buffer and a short last block show.
* `PlayersServer`: coordinates are left to `PlayersMap`, whose list of players is fixed. A freed node
  keeps `next` until it is reused, its id may read as anything. `main` looks at nothing that `accept` and
  `pthread_create` return; the model takes descriptors and threads to suffice, and has `main` wait where
  one is given back (in the code a thread would be made for socket -1, or none for the client).
  A player takes 8 bytes of `malloc` (server.c:115) and uses 24, the least the allocator of glibc gives.
* `PlayersMap`: the players are there from the start; one that leaves is unlinked and freed at once.
  The writer reads x and y of a node in two steps in either order, the id with the second. What it
  finds in a node that is freed is not told apart, but for the id, which may be one of `Junk`. A key
  that does not change the place adds none to `trail`.
* `SharedList`: the values of a count stop one above the limit, since all greater ones are treated
  alike. `Objects` bounds the shared memory objects ever created, `Crowded` those created while users do
  not wait for each other; what a process printed is kept only while they do.
* `OneShotClients`: a message is a sequence of pieces, any number of which one `recv` returns; for the
  line server a piece is a digit. A line of the file is what `strtok` finds. The mapped file is taken to
  end in a NUL, which it does unless it fills its last page, and so is its copy `str`, which the code
  leaves without one.
* `SharedMutex`: the text is left out; where a mutex is initialised while somebody waits for it, that
  waiter may have been lost.
* `Daemon`: calls that fail and end the process (`getrlimit`, `fork`, `sigaction`, `chdir`) are left out.
* `TtyModes`: the settings are those found, those of the mode asked for, and those in between that
  `tcsetattr` leaves when it makes a change in part. A `tty_reset` that fails is left out.
* `Semaph`: one key, and users that take the semaphore for mutual exclusion; `sem_rm` is called from
  `sem_close` only. An explicit `sem_rm` would remove the set under its users.
* `PassFd`: no program here calls these routines, so server and clients are written around them in
  the order the comments ask for; the server closes each connection after its answer and goes on,
  and what it sent can still be read. A name is there, fit or unfit (no socket, open to others, too
  old). The buffer `serv_accept` gets from `malloc(sizeof(un.sun_path + 1))`
  is taken to be large enough. Text is a count of bytes.
* `FindStdin`: the root and one directory below it, two names; hard links to a directory and errors of
  `malloc` are left out.
* `Popen`: the stream given to `pclose` is one that `popen` returned. A shell that finds its pipe in
  the wrong place is counted as not wired and ends when it likes.
* `TellWait`: the two processes meet as the comments ask; SIGUSR1 and SIGUSR2 play the same part.
* `SpeedServer`, `SpeedClient`: neither goes beyond the code that can be reached: `connected` of the
  server is never cleared, and the client's thread at the barrier of two is alone there.

## 3. What is checked

Each component's type invariant is part of the first of its properties here (`NothingLeft`, `MapTrue`,
`SpeedCommanded`, ...), or is proved.

| Run | Properties | What they say |
| --- | --- | --- |
| `pipeline` | `RecordsFollowReads`, `WriterNotAhead`, `ReaderStops`, `OrderlyShutdown` | records are whole reads in order; only a spurious wakeup puts the writer ahead of the reader; SIGINT ends reader and signal thread, and the program if the writer waits in time |
| `barrier` | `LeftCounts`, `NobodyLeftAsleep`, `Implements`, `ReleasedReturn` | the code implements `Barrier` and released threads return |
| `handshake` | `ReleaseIsComing`, `StopsAfterInt` | whoever waits for SIGUSR2 can still get one; SIGINT taken is a process ended |
| `turns` | `NoOverlap`, `BothServed` | with whole replies the exchanges never overlap and both threads go on |
| `select` | `RecvNeverBlocks`, `Implements`, `Answered` | the server never blocks in `recv`, each connection behaves as `EchoLink`, messages are answered |
| `players` | `NothingLeft`, `OwnThread`, `Implements`, `Told` | clients that arrive one at a time have a thread each, however they leave; if they also leave one at a time the list is `PlayerList`, nothing leaks, and those who stay are told of each other |
| `map` | `MapTrue`, `NeverBack`, `Current` | unless a line was read of a node already freed, the client draws players of the server, each at an x and a y it had, though perhaps not both at once, and neither ever goes back, although it drops lines; once it reads line by line it becomes current |
| `list` | `InBounds`, `ListEnds`, `Implements`, `CommandsEnd` | users in turn have the stack of `SharedStack`, and another one after somebody quit; overlapping commands leave no cycle and end; overlaps and kills never lead outside the nodes |
| `one_shot` | `OwnAnswer`, `NothingLeft`, `Answered` | nobody is sent what is another's; a connection is open while it is served and no longer, two exceptions named; whoever asks is sent a reply, unless it is killed, `server1` ends before its turn, a part of its request was read, the line it asks for is behind the last, no thread could be made for it, or the thread of 08 waits for a silent client for ever |
| `parts`: `SpeedServer`, `SpeedClient` | `SpeedCommanded`, `LeaverEnds`, `Settles` | speed moves by commands only; the client that leaves takes the server with it; a reset ends the receiving thread unless `main`'s `send` takes the error first; when nothing comes any more `total` rests at 0 although it is shared without a lock |
| `parts`: `SharedMutex` | `Exclusive`, `TurnComes` | one process at the text until `primo` initialises the mutex under another; a turn comes unless a holder was killed |
| `parts`: `TtyModes`, `Daemon` | `Restored`, `Detached` | every exit finds the terminal restored; the daemon has no terminal, can get none, and no descriptor of its caller below the limit, nor below 1024 where the limit is infinite |
| `parts`: `Semaph` | `Counted`, `CallsReturn` | once initialised [1] is `BIGCOUNT` less the users and [0] what the holders leave, whoever died; only the last user removes the set; nobody waits for the lock for ever |
| `parts`: `FindStdin` | `Found` | the answer is a name of the file itself, which the record of a run in esameSNP38/README contradicts (see below); there is none only if no such name stayed in place, readable, and within `PATH_MAX`; the buffer is never too short |
| `parts`: `PassFd`, `Popen`, `TellWait` | `Delivered`, `CallsReturn` | a client that returns has the descriptor or the low byte of the error that was meant for it, and all the text; each command has its pipe, and nobody else's unless an earlier `fdopen` failed; each wait answers one telling; all their calls return |
| `pipeline_shutdown` (violation) | `ShutdownCompletes` | refutes the message "termino i thread ed esco": the last signal can be sent before the writer waits, and main stays in `pthread_join` |
| `semaph_create` (violation) | `CreateSurvives` | refutes the comment at semaph.c:119: a set removed while `sem_create` sleeps on its lock gives EIDRM, not EINVAL, and `err_sys` ends the process |

### What the code does not promise

The models contain these behaviours, and TLC reaches each of them; the properties above are stated
so as to hold in spite of them.

* `CondPipeline`: a signal without a waiter is lost and the next read overwrites the block; a writer
  that is woken late saves a block, and is signalled for it again; a short block is followed by the
  tail of the last full one.
* `SignalHandshake`: both processes write at once, since each locks its own mutex only; a second
  SIGUSR1 is taken before a SIGUSR2 that is pending and the signal thread waits for itself; a SIGUSR2
  left over from merged signals frees a mutex main holds; a signal thread that tests `run` before
  main sets it ends, and SIGINT stays pending.
* `TurnClient` with `Parts = 2`: a thread reads the rest of the other's reply.
* `SelectEcho` with a client outside `Readers`: `send` to it blocks the server. After a `recv` that
  returned the end of one message and the start of the next, the second is not converted.
* `PlayersServer` with `{}` in `Spacings`: two clients that arrive together may be served by two threads
  on one socket; with `{"arrivals"}` a node linked behind one that is being deleted is lost. With fewer
  `Watched` descriptors than clients the last is told nothing. `send` to a client that left may end the
  server.
* `PlayersMap`: a player is drawn at the x of one place and the y of a later one, where it never was, since
  the writer reads them (server.c:95) while `thread_client` stores them; a line of a node that is freed
  before it is read is garbage, for the player or for an id that is nobody's, which is drawn and stays. A
  player who left stays drawn; its last key is applied again at the end, and twice after a reset; the
  terminal is not read while updates keep coming. With `Parts = 2`: the new id with the old coordinates.
* `SharedList`: two pops at once return one node; a process that quits and starts again works on another
  list than the one that stayed.
* `SpeedServer`: `connected` is never cleared, so no second client is ever served. `SpeedClient`: bytes
  printed twice or never; after the server has closed, after a
  reset that follows that, and once `main`'s `send` has taken the error of a reset, `recv` returns 0 for
  ever, nobody clears `connected` and the thread spins.
* `OneShot`: a client of 44 that is refused calls `send` and `recv` on a closed socket for ever; every
  child stays a zombie, and the `fork` that fails ends `server1`; a thread of `server2` whose client
  says nothing leaves its descriptor open; a reply of the echo servers ends in what `strlen` finds
  behind it. The thread of 08, and the server of 09 (whose README speaks of threads), serve one client at a
  time: one that says nothing and stays holds up 08 for ever, and 09 until it leaves, which its own client
  does at once. Where `fork` fails, the clients `server1` has not come to leave with nothing, and a client
  of which only a part was read may lose its reply to the reset. A request that comes in two pieces is answered with the wrong line, and a reply that
  does is multicast in part, or ends the client with SIGPIPE.
* `SharedMutex`: `primo` initialises the mutex at each start, so a second process may enter and a waiter
  may be lost; a holder that is killed leaves it locked; `secondo` started first touches memory its
  object does not have and dies of SIGBUS.
* `Semaph`: `sem_open` takes no lock and may slip in between the count and the removal; its caller finds
  the set gone. Removal does not wait for those who sleep in `sem_create`.
* `PassFd`: text that fills the buffer up to the null byte makes `recv_fd` abort with a format error,
  and a status of a multiple of 256 is sent as 1. Names stay behind when the server refuses a client or
  dies.
* `Popen`: a caller with standard input closed gives commands the wrong end of a pipe; a `fork` that
  fails leaves both ends of the pipe open; where `fdopen` fails the command runs, its pipe is not in the
  table, and later commands inherit the end the caller kept; `pclose` waits for nobody if `fclose` fails.
* `FindStdin`: a name that is moved while the walk goes on may be missed. (Outside the
  model: the exit status is 0 either way.) src/esameSNP38/README calls the file with the equal inode
  number the one that is looked for (line 6), and lines 19-36 record a run that reports
  `/sys/fs/cgroup/cpuset/release_agent`, which only shares the number 7 with the terminal. That is
  the mutant `SameInode`: the code here also compares the device (wmstdin.c:120), so `Found` holds and
  the record is of an earlier program. No run refutes the README, as this code gives no counterexample
  to itself; the disagreement is noted here.

### Bounds, and why they are enough

* `CondPipeline`: four reads of a file of two full blocks and a short one, one spurious wakeup. A record
  can repeat, skip or overtake a block; past the last read of the bound the reader's sleep lasts until
  SIGINT, so shutdown is met after every number of reads.
* `PthreadBarrier`: three threads, so that one can be in the next round while another sleeps in the
  last; `Wrap = 4`, the least that is above the count, so that old round numbers come back. The
  theorems remove both bounds.
* `SignalHandshake`: no bounds; signals pending are sets, as for the kernel.
* `TurnClient`, `SelectEcho`: a message in one or two parts, two or three messages, three connections
  over two descriptors, so that descriptors are reused while others are open.
* `PlayersServer`: two clients that come and go for ever, two descriptors, two nodes: a node and a
  descriptor are reused by the other client, while the writer or another thread may still point to
  it. Every race is between two threads, or a thread and the writer. `Told` starts where nobody comes
  or leaves any more: three clients are enough for one of them, coming and going for ever, to cut the
  writer's walk short each time.
* `PlayersMap`: two lines at most in a `recv`, two players, four places, two keys of three in all and
  those that are repeated when a player leaves: enough for a place to be left and entered again, for x and y
  of a line to be of places apart, and for the other player to be freed before, between and after their
  reads.
* `SharedList`: two processes, two nodes beside the head, two values: what a cycle, a lost node and a
  stale index beyond the end need. `turns` is chosen at the start: either the users always wait for
  each other, which `Implements` is about, on two objects, so that one process can stay with the first
  while the other has the second; or they do not, on one, and processes may be killed. A process that
  was killed is not started again. Theorems cover any number.
* `SpeedServer`, `SpeedClient`: two commands and three bytes: one lost, one doubled, one in `total`.
* `OneShot`: three clients, of which one sends two pieces, one a single one and one nothing, so that
  every server meets a split, a plain and a silent client, the last before or behind the others. Places
  for one or two workers: the limit is met with a client to spare. Two listening sockets, the last
  being the one `fdmax` may miss; a file of two lines with an empty one between them.
* `SharedMutex`: the two processes the code has; starts and kills without bound.
* `Semaph`: three users, so that one can come while one leaves and one waits; they come, die and start
  again without bound. The theorem is about any number.
* `Daemon`: descriptors below, among and above the standard three, and above 1024; limits below, between
  and above them, and none at all.
* `PassFd`: two clients, `MAXLINE` of 3, texts that are empty and that fill the buffer up to the null byte,
  errors -255 and -256 (the theorem is about all), short reads and writes of any length.
* `FindStdin`: one change of the tree at any moment (made, removed or renamed) on top of every initial
  tree; a name of one character and one of two; a `PATH_MAX` that paths of
  two names reach unless both are short, and a buffer of that size or one more.
* `Popen`: three calls, so that a third command can inherit two streams; seven descriptors.
* `TellWait`: three meetings: a telling can come early, late, or while the last is pending.

Deadlock is checked except in runs whose system may really stop: programs that exit, die of a
signal, run out of bounded input, or block for good as the finding says.

### Fairness

Every thread of a running process is scheduled (`WF` on the disjunction of a thread's actions). A
thread queued on a mutex gets it if it is released again and again (`SF` on the lock actions): in the
programs the other thread sleeps a second or more or blocks in a call between two uses. The lock [2] of
`Semaph` is one of the kernel's semaphores, which serve their sleepers in turn (`SF` as well). The
network delivers and the client in question reads only where the run says so (`Readers` in
`SelectEcho`). Nothing is assumed of users, of clients that may connect, stay silent or leave, of
programs that may be started or killed, of SIGINT, or of spurious wakeups. A command of `popen` that
reads to the end of its input, or writes until SIGPIPE, ends after that. `pipeline_shutdown` uses the
same fairness as `pipeline`; `semaph_create` refutes an invariant and needs none. `Current`, `Told` and
`CommandsEnd` have premises instead: that from some time on a `recv` returns one line, nobody comes or
leaves, and no command is given.

## 4. What is proved

The theorems hold for every value of the constants that the named assumptions allow; `tlapm` checks
them to the last leaf.

* **`CondPipelineProofs`** (any number of blocks, reads and wakeups). `TypeCorrect`: the mutex is held
  by exactly the thread between its lock and its unlock. `RecordsInOrder`: `RecordsFollowReads`; the
  invariant adds that outside the reader's critical section the buffer is `AfterRead(reads)` and that
  no record is newer than it. `WriterBehind`: `WriterNotAhead`; the invariant pays for every record
  written and every wakeup in progress by a read that was signalled or a spurious wakeup.
* **`PthreadBarrierProofs`** (any threads, any count not below their number, any width of the unsigned
  counters). `TypeCorrect`; `LeftCorrect`: `left` is the count minus the threads that sleep for this
  round, so it never wraps; `NoSleeperForgotten`; `Refinement`: `Implements`. The inductive invariant
  says for each thread inside whether its copy of `round` is the current one or the one before, which
  is why two values of the counter are enough.
* **`TwoThreadsProofs`**. Of `TurnClient`: `TypeCorrect` for every number of parts and size of the buffers; `Exclusive`:
  if a message arrives whole (`Parts = 1`), `NoOverlap`. The invariant says that while a thread is
  between send and recv exactly one message of its own is on the connection, and otherwise none.
  Of `SignalHandshake`: `ReleaseIsComingHolds`: `ReleaseIsComing`. Pending signals are taken by number, so SIGUSR2 stays pending while
  SIGUSR1 is: `Announced` says that while SIGUSR1 is pending the other main is still to send SIGUSR2, or
  has and it is pending. The rest keeps ends of threads out of the way: a signal thread that has the
  mutex does not end with it (`HandlerHas`), which takes that it runs only while `run` is set
  (`FlagTrue`), and a process that has exited has nothing pending (`Gone`).
* **`SelectEchoProofs`** (any connections, descriptors, parts and buffers). `RecvNeverBlocksHolds`:
  `RecvNeverBlocks`. The invariant says that the descriptors in `read_fds` which the loop has not come
  to are still ready (`StillReady`); what keeps it is that a connection is at one place only
  (`OnePlace`), so that neither `recv` on one descriptor nor `accept` of a new one touches another.
  `ImplementsHolds`: `Implements`, each step of the server or of a client is for every connection one
  step of `EchoLink` or none: `OnePlace` gives `recv` and `send` one connection at a time, and a count of
  the parts (`Sizes`) gives the echo room.
* **`PlayersProofs`** (any clients, descriptors, threads and finite set of nodes). `OwnThreadHolds`:
  `OwnThread`. Where arrivals are spaced `newclient` is only written when the thread that was to read
  it has done so (`HandOver`), which takes that no more than one client is on its way in
  (`OneArrival`). `NothingLeftHolds` and `ImplementsHolds`: `NothingLeft` and `Implements`, where
  departures are spaced as well. The invariant `PlayersInv` is that some sequence of nodes, none of
  them twice, is the list: it starts at `players` and ends at a null pointer (`IsList`); each thread
  that walks along it, links a node to its end or takes one out is at a place of it (`InWalk`); each
  linked node has one owner (`Owners`) and the set has the sockets of the served (`MasterTrue`).
  Nothing less is inductive: a `delete_player` that starts from a wrong `prev` loses nodes of others.
  The refinement mapping reads the nodes from the longest walk along `next`; a lemma shows that this
  is the sequence of the invariant.
  `MapTrueHolds` and `NeverBackHolds`: `MapTrue` and `NeverBack` for any number of players, moves and
  buffered lines, provided that lines come whole (`Parts = 1`; with `Parts = 2` TLC refutes `MapTrue`).
  The invariant is about every line that is known, under way or drawn: a sound one has an x and a y of
  its player (`KnownTrue`), lines of one player are in the order of its moves, none older than what the
  map shows (`Ordered`), and a coordinate the writer has read but not sent is not older than any of them
  (`LineTrue`), although the player moves between the two reads.
* **`SharedListProofs`** (any processes, values, limit and objects, overlapping and killed at will).
  `TypeCorrect`, and `Bounded`: `InBounds`. Neither follows from itself: the index linked is `c + 1`, and
  what bounds it is that the process that looks for the end has seen `c < MACLIMIT`, whatever the list
  has become since. `ListEndsHolds`: `ListEnds`, by `Opened`: every set of nodes that link to one another
  has a member that some process is still inserting. Linking may close a cycle, but then through the
  node that the same process has still to close with 0. `ListEnds` says this without walks: no set of
  nodes is closed under `next`. `ImplementsHolds`: `Implements`, for any number of objects. While the
  users wait for each other a number `n` for each object describes its list: the links lead from 0 over 1,
  2, ... to `n` (`Ahead`), and where the one process that works stands in the list of its object is known
  from that `n` (`Stands`); its writes leave the other objects alone (`Wrote`).
* **`OneShotProofs`** (any clients, messages, ports, files with a line, numbers of workers; each of the
  four servers). `OwnAnswerHolds`: `OwnAnswer`. The invariant `AnswerInv` says that until a connection
  is read nothing has been sent to its client, that what a server holds to send answers the message of
  that very client (`Told`), and that what a client has got is what its pipe and its hands hold until
  the multicaster has read (`Relayed`). `NothingLeftHolds`: `NothingLeft`. `KeptInv` says by which of
  main and the child a descriptor is open at each point (`ByFork`), and that a thread's is open from
  its start to its `close` or to a `recv` without a word (`ByThread`).
* **`PartsProofs`** (each part alone: a step of one leaves the variables of the others). The parameters
  are those of `PartsAssumption`: limits and sizes are numbers, `PATH_MAX` leaves room for the longest
  name, there are fewer processes than `BIGCOUNT`, and the values that stand for no client, no job and
  no file are not among the real ones.
  * `ExclusiveHolds`: `Exclusive`, by `OwnerInside`: until the mutex is initialised under somebody, who
    is inside owns it.
  * `RestoredHolds`: `Restored`, for any number of clients in a row; the invariant says where the saved
    settings are those found (`Saved`), where the terminal still is as found (`AsFound`), that a mode is
    recorded exactly while the terminal may have it (`Recorded`) and that the handler is only installed
    after the mode (`HandlerLate`).
  * `DetachedHolds`: `Detached`, for any descriptors and limits, finite or not; before the end the invariant follows
    session and terminal (`LedOut`, `TerminalGone`) and what is open (`OnlyCallers`, `ClosedBelow`,
    `NullOnly`).
  * `OrderedHolds`: `TellWait`'s `Ordered` for any number of meetings: `Turns` fixes how far each process
    is ahead and `OnePlace` keeps a telling from being pending and noted at once.
  * `CountedHolds`: `Counted` for any finite set of processes smaller than `BIGCOUNT` and any initial
    value. That a count is right is not inductive: the death of a process adds what the kernel kept
    for it, so the invariant ties each adjustment to where its process stands (`AdjustTrue`), has one
    process at most in the lock (`OneLocker`), says what is initialised where (`Initialised`: a `SETVAL`
    clears adjustments, and must find none) and that from the last user's count to the removal only
    `sem_open` can come (`OpenersOnly`).
  * `FoundHolds`: `Found`, for any names, files and number of changes. The invariant says of each name
    that stays that it was found, or is in the part of the walk that is still to come (`RootSeen`,
    `SubSeen`), and that the buffer takes the longest name below each directory that is open (`Room`).
  * `DeliveredHolds`: `Delivered`. For `PassFd` the invariant counts each byte of the text as still to be
    written, on the way, or received (`OnTheWay`), and says what a client that has returned was given
    (`Right`); for `Popen`, that each stream of the caller's table is the open end of its command's pipe
    (`StreamsOpen`): a command is then given no end but its own and those that were never noted.
  * `SpeedCommandedHolds`: `SpeedCommanded`, for any clients and commands. Each step of the speed is
    covered by a command received, one excepted, with the one that is being looked at (`Covered`), where
    what is received is a prefix of what was sent (`Suffix`). Of the client: what a thread adds, or has
    read `total` to add, has come (`Sums`), although the additions overlap.

Where a proof needs induction over numbers (the least descriptor that is free, the longest walk of a
list, the links followed from node 0) it takes the least element of a set of numbers, whose existence
(`Least`) follows from the library's theorems on well-founded relations without an operator as parameter.

Only model-checked, and why: everything under fairness, since liveness and `ENABLED` are out of the
prover's reach. Every invariant and action property of the runs and every refinement is a theorem.

## 5. What is not modelled, and the plan

In the order of the plan, the most important behaviour first; all of it is done:

1. `CondPipeline`, `PthreadBarrier`, `SignalHandshake`, `TurnClient` and `SelectEcho`, `PlayersServer` and
   `PlayersMap`, `SharedList`, `SpeedServer` and `SpeedClient`.
2. `OneShot`: the servers of esameSNP44, 08 and 09 with their clients.
3. `SharedMutex`, `TtyModes` and `Daemon`.
4. esameSNP38: `Semaph` with its invariant, `FindStdin`, then `PassFd`, `Popen` and `TellWait`.
5. The theorems: each component's safety, then the refinements.

Not modelled, and why:

* the other routines of the APUE library in esameSNP38/lib: one system call each, or printing;
  `sleep` and the pseudo terminals keep no state of their own, `Orecvfd.c` is an older `recvfd.c`;
* error printing, flag setting and colours in every `lib/`: straight-line input and output;
* `tty_atexit` and `tty_termios`, `pthread_barrier_destroy`, `delete_player` of the client: called by
  nobody; the LINUX branch of esameSNP10's `insert`: it does not compile;
* the start of each program up to its loop, whose failures end it;
* esameSNP21 and esameSNP39: the text of the exercise only, no program.

Hazards that no property covers, because nothing holds of them: both processes of esameSNP06 write at
once; its signal thread may test `run` before main sets it (proc1.c:51); the client of esameSNP12
reads its keys only while no update comes; its server's `Watched` descriptors, and overlapping changes of
its list (server.c:188) and of `master` (server.c:127), which lose nodes and sockets.

Theorems worth adding: a `PlayersMap` with `Parts = 2` and a weaker `MapTrue` (the id may be new while
the place is old), and `CondPipeline`'s promise as a refinement of a buffer of one block.
