# A verification project for `study_eltex`

The repository is a collection of C programs that exercise the facilities of a Linux system:
threads, System V and POSIX queues and shared memory, stream and datagram sockets, pipes,
signals, kernel modules, and a few interactive programs.  Most are small, but many of them run
several processes or threads over shared state, and have no tests.  This directory holds TLA+
models of the programs whose behaviour is hard to test, TLC configurations that check them on
small instances, and theorems that TLAPS has checked.

## 1. Inventory

| Component | State | Operations and interactions | What is hard | What makes it correct |
|---|---|---|---|---|
| `threads/shop.c` | `shops[]`, one mutex per shop, the unguarded counter `glob`, each shopper's `basket` | shoppers and a delivery thread try locks in turn; `main` joins them | lost increments, check-then-take, starvation | no stale stock, no empty shop, the delivery thread outlives the shoppers, the program ends when it can |
| `sokets2/3scheme` | the socket's path, the System V queue of descriptors, the descriptor table, a pool of workers | `main` accepts and queues, workers greet and receive | state that outlives the process, a full queue, exhausted descriptors, one failing client ending everybody | one worker per connection, no worker fails without leftovers or dead clients, everybody is heard |
| `sokets2/1-2scheme` | one local `client_fd` shared by address with every thread | `main` accepts and creates a thread per connection | the race between `accept` and the thread's read | only that race loses a client or kills the server; the server ends |
| `sokets2/4scheme` | epoll set, two queues, 30 threads, a shared pointer to the peer's address | TCP and UDP clients multiplexed by one `main` | one shared address and one shared datagram socket with only `sleep(1)` between two clients, two array overruns | a datagram client that is alone is greeted once, everybody is heard unless `main` wakes early |
| `sokets2/attack-bot` | none | forks 1000 clients | none of its own | not modelled |
| `shared_memory/chat` | a slot for the next message, the published rows, a row counter | the server polls the slot and publishes; clients write the slot and print new rows | no synchronisation at all: torn and lost messages | published rows are a prefix-stable log; readers never run ahead |
| `queue/chat` | two message queues, the server's history | the server appends to the history and sends snapshots of it; clients take snapshots | a snapshot reaches one client only; blocking sends | histories shown to a client only grow; an overrun kills one client at most; nobody blocks for ever |
| `heap/task.c`, `structures/task.c` | an array of contacts and a file | add, delete, look up, sort, load, save | the file is removed when loaded and rewritten only at exit; reallocation; deletion while scanning | sorted, nothing lost or invented; a program that saved its book starts again |
| `file_manager` | two panes with a window and a cursor over a directory listing | arrow keys, tab, enter (chdir or fork/exec) | cursor and window must agree | the entry opened is the entry shown |
| `work_with_file/text_editor.c` | a row and a column; the text is in the window of curses | keys, load, save | unguarded cursor; the screen, not the file, is saved | not modelled (section 5) |
| `pipes/command_interpreter` | the current directory, kept as a string and as the process's own | `cd`, `> file`, fork/exec of commands | the two copies part; the place of the last slash; directories that others remove | the prompt and the process part only in three ways; `cd ..` goes up |
| `pipes/1tsk`, `pipes/2tsk`, `queue/Posix`, `queue/SystemV`, `shared_memory/Posix`, `shared_memory/SystemV` | one pipe, pair of FIFOs, queue or segment | one message each way between a parent and the child it forks | names that outlive a run, runs that share them, an exec that fails, the order of opens, end of file | a run after a run that ended is in step; every process ends but for named causes |
| `sokets1/AF_INET/UDP`, `raw_socket/UDP...` | a socket and a buffer at either side | a byte, a greeting, an answer | raw sockets that hear all of their host, lost frames, headers and a checksum built by hand | a raw client answers with the greeting; one greeting ends all who hear it |
| `modules` | a string of 15 bytes behind a reader-writer lock, a proc file, a sysfs attribute | load, unload, open, release and six handlers | handlers that go past the lock, a load that fails half way, an unload with calls inside | a copy in the lock is whole unless a call past it interfered; no call is left in an unloaded module |
| `sokets1/*/TCP`, `data_exchange`, `raw_socket/sniffer.c` | one socket | one message, or an endless receive | nothing that a server of `sokets2` or the datagram exchange does not have | not modelled |
| `signals`, `file_manager/process` | none | fork and one signal | trivial | not modelled |
| `arrays`, `bit_operations`, `pointers`, `lib`, `static_lib`, `dynamic_lib` | none | pure calculations | none | not modelled |
| `kernel` | - | pictures only | - | not modelled |

The programs do not call each other: a *component* is a program, or a server and the clients that
talk to it.  Inside a component the parts interact through mutexes and plain variables
(`shop.c`, `1-2scheme`), a kernel message queue (`3scheme`, `4scheme`, `queue/chat`), sockets
(`sokets2`), datagrams and raw packets (`sokets1`, `raw_socket`), shared memory without any lock
(`shared_memory/chat`), a lock that some handlers go past (`modules`), pipes and named objects
(`pipes`, `queue`, `shared_memory`), and a file that outlives the process (`heap/task.c`,
`structures/task.c`).  `PROJECT.json` lists the hazards of each at the
line where they bite; a hazard no property covers says why.

## 2. Modules

| Module | Models | Composes |
|---|---|---|
| `Shop` | `threads/shop.c`, one step per load, store or library call | instantiates `Market` |
| `Market` | what `shop.c` promises: purchases and deliveries at once | |
| `ShopProofs` | theorems about `Shop` | extends `Shop` |
| `GreetClient` | the stream client of the servers in `sokets2`, and the kernel's side of a connection | |
| `QueueServer` | `sokets2/3scheme/server.c` | extends `GreetClient`, instantiates `Reception` |
| `Reception` | what the pooled server promises: one line for all workers | |
| `QueueServerProofs` | theorems about `QueueServer` | extends `QueueServer` |
| `ThreadServer` | `sokets2/1-2scheme/server.c` | extends `GreetClient` |
| `ThreadServerProofs` | theorems about `ThreadServer` and `MuxServer` | extends both |
| `MuxServer` | `sokets2/4scheme/server.c` and `client2.c` | extends `GreetClient` |
| `ShmChat` | `shared_memory/chat` | instantiates `AppendLog` |
| `AppendLog` | what the shared-memory chat promises its readers | |
| `ShmChatProofs` | theorems about `ShmChat` | extends `ShmChat` |
| `QueueChat` | `queue/chat` | instantiates `ChatHistory` |
| `ChatHistory` | what the message-queue chat promises: one history, and screens that follow it | |
| `QueueChatProofs` | theorems about `QueueChat` | extends `QueueChat` |
| `ContactBook` | `heap/task.c` and `structures/task.c` | |
| `FileManager` | `file_manager/file_manage.c` | |
| `FileManagerProofs` | theorems about `FileManager`, `ContactBook` and `CommandInterpreter` | extends the three |
| `DatagramExchange` | `sokets1/AF_INET/UDP` and the three exchanges of `raw_socket` | |
| `Exchanges` | the seven one-shot exchanges of `pipes`, `queue` and `shared_memory` | |
| `ExchangesProofs` | theorems about `Exchanges` and `DatagramExchange` | extends both |
| `CharDevice` | `modules/sys-proc_module`, `modules/read-write_module` | |
| `CharDeviceProofs` | theorems about `CharDevice` | extends `CharDevice` |
| `CommandInterpreter` | `pipes/command_interpreter/cmd.c` | |
| `MCShmChat` | a value a `.cfg` file cannot write | extends `ShmChat` |
| `MCInteractive` | the two interactive programs in one run, with their trees and files | extends `FileManager` and `ContactBook` |

Where one module of proofs extends several components, the names they would share are told apart by a
prefix in one of them: `MuxInit`, `muxMain` in `MuxServer`, `DgramInit`, `dgramVars` in
`DatagramExchange`, `BookInit`, `bookVars` in `ContactBook`, `CmdInit`, `cmdVars` in
`CommandInterpreter`.

A definition called `...Broken`, `...Forgotten`, `...Unbounded` and the like, introduced by the
words "A defective", is not part of any specification.  It is a plausible bug of the definition
below it; put in that one's place, it makes the property named in `PROJECT.json` fail, which shows
that the property is not true by the shape of the model.

### 2.1 `Shop` and `Market`

`stock` is `shops[]`, `holder` the owners of `shop_mutexes[]`, `glob` and `basket` are the code's;
`pc`, `at` and `reg` are each thread's next statement, its loop index and the register of a
compound assignment.  The makefile gives the compiler no `-O`, so `shops[i] -= tmp`, `+=` and
`glob++` are a load and a store with other threads in between.  `TryLock`, `Check`, `Load`,
`StorePurchase`, `Unlock` are the body of the shopper's loop; `StoreDelivery` replaces
`StorePurchase` for the delivery thread; `LoadGlob` and `StoreGlob` are `glob++`; `Join` and
`Return` are `main`.  The random amounts are any amount.  `MaxStock`, the only bound, keeps
deliveries finite.

`Market` has only `stock` and `basket`, and two actions.  Every statement of `Shop` is one of the
two or changes neither variable (`ImplementsMarket`).

### 2.2 `GreetClient`, `QueueServer`, `ThreadServer`, `MuxServer`

`GreetClient` has the phase of each client, the backlog of `listen`, and the bytes that wait in
either direction.  A client connects, waits for the greeting, sends its line and closes; the
kernel's rules for a peer that has closed or died are operators (`Closed`, `HangUp`) marked
external in the map.

*`QueueServer`.*  `fdtab` is the descriptor table, `queue` the System V queue, `path` the socket's
name in the file system, `work` and `temp_fd` the workers.  `queue` and `path` outlive the process:
`Start` finds them, and a worker may take a descriptor an earlier process queued.  The mutex of a
worker is tried by no other, so taking and releasing it are part of the steps next to them.  A `send`
or `recv` that returns -1 ends the process (`SendFails`, `RecvErrs`); `Failing(w)` says of a state that
the next one of `w` will.

*`Reception`* is the server as a client sees it: a line in the order of arrival in which nobody
stands twice, workers who take the first of it, greet once and only then let go, and a `Close` that
sends everybody away.  The mapping makes one line of the backlog, `main`'s buffer and the System V
queue; `Accept` and `msgsnd` move a client within the line and are stutters.  A process that is down,
or was started on a queue with leftovers, maps to the closed reception: there a descriptor may be on
the queue twice, or mean another client.

*`ThreadServer`.*  `main` gives every thread the address of its `client_fd`; `ReadFd` is the
thread's read of it, at any time after `Create`, so it may see a later connection.

*`MuxServer`.*  `muxMain` is `main`'s statement, `MuxLoop` its loop, `stream_process` a worker's.
`udp_cln` is `main`'s variable whose address goes through the queue, so a message of
`queueB` carries no client, only whether the pointer is this process's.  `socket` is the one
datagram socket that `main` (`RecvByte`) and the workers (`RecvFrom`) read.  `Wake` ends
`sleep(1)`: it may come at any time, and `late` records that it came before the exchange was over.
What `arr2[i]` (line 262) and the second event of `epoll_wait` (line 267) overwrite depends on the
build: `moved` and `kills` are chosen at the start and never change.  No stream client is interrupted
here, so the `exit(1)` behind a failed `send` or `recv` of a stream worker (lines 87-97) is never reached
and has no action; `QueueServer` has it.

### 2.3 `ShmChat` and `AppendLog`

`text`, `arr` and `count` are the three segments, `co` the server's counter, `k` a reader's.  A
`strcpy` is two steps, one for each half of the text: enough to tear a message, and whatever is
longer is torn in the same way.  `Start`, `Wipe`, `Zero`, `Poll`, `Copy`, `Publish`, `Clear` follow
the server; `Join`, `ShowRows`, `ShowFaults` follow `prints`, `WriteFirst` and `WriteRest` follow
`writs`.  `Stop` may come anywhere, since the server has no exit but a signal, and the segments
stay.  `MaxMsgs` bounds what a client writes, `MaxResets` how often a server clears the counter.

`AppendLog` is a log with cursors that only a reset empties.  The mapping takes the announced rows
for the log and the `k` of the readers that joined since the last reset for the cursors: a reader
of before is promised nothing.

### 2.4 `QueueChat`

`msgq` and `grpq` are the two queues, `rows` the server's history (`grp.count` is its length),
`view` what a client shows.  A snapshot goes to one client only: the first to call `msgrcv`.
`Overrun` is the copy past the last row, which lands on `grp.count`: a newline makes it 10, and a
text makes it an address, at which the next copy kills the server (`Fault`) and the loop of the
client that gets the snapshot kills the client (`ShowFaults`), unless the number is negative and the
loop prints nothing (`ShowNothing`).  `Leave` is a client ended by its user, at any time but between its
`msgrcv` and its `printf`.  `victims` is history: who was killed, with the start of the server the
snapshot came from.

`ChatHistory` is one history, to which a message is added behind its sender's earlier ones, and
screens each of which shows a beginning of it and only gets longer.  The mapping takes `rows` for
the history and `view` for the screens, as long as the server that is running, or ran last, has not
overrun its array; a screen of an earlier start counts as blank.  Which client takes which snapshot,
and the two queues, are not seen at all.

### 2.5 `ContactBook`

`heap` chooses the program.  A name is the number of its place in `strcmp`'s order; `nl` says
whether the number ends with a newline, which decides on what line the next contact is saved.
`Load`, `RemoveFile`, `Add`, `Delete`, `Exit` and `Save` follow `main`; `Kill` is any other end, and
`cut` remembers that one came between removing the file and writing it back.  `LoadFaults` is a start
that crashes: there is no file, or, in `heap/task.c`, a line has more words than `stok` has room for.
Each loop of the code is a recursive function over its turns: `Sort` and, within it, `Carried` are
the two loops of `sort`, so what is checked and proved is the code's sort and not a sort; `DeletedAll`
is the scan of `structures/task.c`, which goes on after a match, `DeletedFirst` that of `heap/task.c`,
which stops; `Loaded` and `Lines` are the loops of `fgets` and `fprintf`.  The references they are
compared with have no loops: `Rank` counts the contacts that come before one, `Without` the deleted
ones before a place.  `Missing` stands for no file.  Lines that do not fit the
code's arrays are left out, and so is a hundred-and-first contact of `structures/task.c`, which
overruns the array: `MaxSize` is the room there is.

### 2.6 `FileManager`

`paths` (`list[side].path`), `str`, `poz`, `local`, `row`, `side` and `glob` are the code's; `shown`
is what the window displays.  `Tab`, `Up`, `Down`, `Descend`, `Execute` and `Quit` are the keys, `Draw` the top of the
outer loop.  `Nest` is the child that could execute neither the file nor `vim` and falls back into
the loop; `parents` is the stack of those that wait.  `MaxDepth` bounds it.  Cursor and window are
translated with every test of the code, also the one that differs for directories shorter than a
page (`RowBelow`).

### 2.7 `DatagramExchange`

`kind` chooses the program: a plain UDP socket, a raw socket with the UDP header written by the
program, the same with the IP header, and a packet socket with every header, whose server is on
another machine.  `Transmit` is the network: it gives a copy to every socket that hears the packet
(`Hears`), which for a raw socket is all that is delivered on its host, and for a packet socket
every frame but its own.  Only between machines may a frame be lost (`lossy`).  `Ignore` and
`TakePacket` are the loop of `recvfrom` until the port fits; `Overlay` is the buffer, which is not cleared
between two packets, so that the end of a longer one stays behind a shorter.  A text is a sequence
of pieces, of which only the number and the first ones matter.  `check_sum` and `IpHeader` are the
code's arithmetic on 16-bit words: `Accepted` asks of every length whether the header passes the
kernel's own sum, and a packet that does not is never delivered.  `Foreign` is a packet of another
program to another port.  `greeted` is history.  `handle_sigint` is SIGINT to any server and SIGTSTP to
that of `raw_socket/UDP`, which has a handler for it; elsewhere SIGTSTP only stops the process, and that
is left out.

### 2.8 `Exchanges`

`program` chooses one of seven.  A queue or a segment has a `name` that leads to an object; the
object holds `content`; removing the name leaves the object to those who have it open, except that
`msgctl` removes a System V queue at once (`Usable`).  `Start` starts runs one at a time or
overlapping; `Interrupt` ends parent and child and leaves what has a name.  A child whose `execl`
fails goes on behind the `if`, in its parent's code (`ExecFails`), and a parent whose `fork` fails
takes the parent's branch all the same (`ForkFails`).  A pipe has `readers` and `writers`, the
processes that hold its ends: `Read` sees the end of file when no writer is left, `WriteFails` is
SIGPIPE; the one text that is written is far shorter than a pipe, so `Write` never waits.  Opening a
FIFO counts the caller in and waits for somebody at the other end; the two are removed one by one
(`Unlink`, `Unlink2`), so that a parent may find the first gone and then wait at the second.

### 2.9 `CharDevice`

`mod` is the module's step: it is loaded and unloaded one registration at a time, and an entry is
in use as soon as it is registered.  The string has two halves, copied one after the other, and a
size is one half, both, or more than there is room for: `string_store` copies that too
(`WriteBehind`).  A call of the device or the proc file begins where `*off` is (`from`), which may be
the end, and stops at the end of the string (`LastHalf`).  `ProcCreate` takes the cast of a
`file_operations` to a `proc_ops` (test2.c:102) for what it is up to Linux 5.9, where `read` and `write`
are at the same places in both; from 5.10 on the proc file would not have these handlers.  The device handlers take the lock (`ReadLock`, `WriteLock`); those of the proc
file and of sysfs begin with the copy.  `Rmmod` is refused while the device is open, and
`ProcRemove` and `KobjectPut` wait for the calls inside.  An `init_module` that returns an error
leaves what it has registered (`mod = "failed"`).

### 2.10 `CommandInterpreter`

`path` is the string as the sequence of what stands behind its slashes, `poz_of_slesh` the code's,
`cwd` the directory of the process and `dirs` the directories there are, a tree.  `Resolve` is how
the kernel follows a string part by part, `Lookup` that in the present tree; `chdir` changes `cwd` if
it can, and the code does not look whether it could.  `CdUp` cuts the string at `poz_of_slesh`, `Cd`
appends whatever `opendir` finds; commands and other programs make and remove directories, the one
the process is in as well.

## 3. Runs

| Run | Bounds | What it shows |
|---|---|---|
| `shop` | 3 shops, so 2 shoppers, baskets of 2, amounts 0 or 1 | the program implements `Market`, so that no purchase or delivery is lost and no shop emptied; the delivery thread stops last; a shop is always given back; the program ends if all counted, and hangs exactly if an increment of `glob` was lost |
| `queue_server` | 3 clients, 2 workers, 2 descriptors, a backlog of 2, a queue of 1, 3 starts | the server implements `Reception`: one line, everybody in it once, greeted once, then let go; without leftovers and interrupted clients no worker takes the process down, however many clients are in service: without a signal it ends only at an `accept` that finds no descriptor; the leak of descriptors brings that about |
| `queue_busy` | 4 clients, 2 workers, 4 descriptors, a backlog of 1, a queue of 1, 1 start | everybody is heard while the server is up, also with `main` in `msgsnd` on the full queue and every worker in `recv` |
| `thread_server` | 4 clients, 3 threads, a backlog of 2 | only the race on `client_fd` loses a client or kills the server, and the server ends whatever the threads read |
| `mux_server` | 2 stream and 2 datagram clients, 1 worker of each kind, queues of 1 | the shared address and socket are safe while `main` sleeps through the exchange of a client that is alone (`AloneIsGreetedOnce`); everybody is heard unless `main` woke early, a pointer was left over, two workers share a mutex, or, for datagram clients, two exchanges met |
| `shm_chat` | 2 clients with 2 messages between them, 2 rows, 2 resets | nothing is published twice or out of a client's order; a reader is ahead only after a restart; the chat implements `AppendLog`; a written slot becomes a row; a reader catches up |
| `queue_chat` | 2 clients with 2 lines, 2 rows, queues of 1, 2 starts | the chat implements `ChatHistory`; somebody shows the whole history whenever the server is idle; an overrun kills one client at most, in its own start or a later one; every message that waits comes onto a screen, though clients may be ended and the server stopped and started again |
| `interactive` | `FileManager`: pages of 2 rows; directories of 1, 2, 4 and 5 entries; 2 nested managers | the cursor's row and the current entry stay whole pages apart; ENTER opens what is shown, but for the one case the property states; a parent has its path back |
| | `ContactBook`: 3 names, 2 surnames, 4 first files, 3 additions, 3 starts | `sort` is a stable sort for every book that can be built; deletion takes what it should; a reload gives what was saved; a program that has saved its book starts again, but for two named losses |
| `datagram_exchange` | 2 clients of each kind, 2 starts of the server, 1 packet of another program, every header length | a raw client answers when it was greeted, and with the greeting; a client that is alone is heard; a first byte brings an answer, and one greeting ends all that hear it |
| `exchanges` | 3 runs of each program, 2 at once, a queue of 2, a text of 2 bytes | a run by itself that follows a run which ended is in step; everybody ends but for named causes; the FIFOs never connect |
| `char_device` | 2 tasks, 2 values, a string of 2 halves | what is copied in the lock is whole unless a call past it wrote; no call is in an unloaded module |
| `command_interpreter` | 2 names, one of them closed to entry; every tree of 2 levels; a string of 4 parts | the prompt and the process part in three ways only; `cd ..` goes up |

Type invariants are part of the proofs or of the module, not of a run, where a theorem has them
(`Shop`, `ShmChat`, `QueueChat`, `CharDevice`, `QueueServer`, `ThreadServer`, `MuxServer`,
`ContactBook`, `CommandInterpreter`).  Four
more properties are proved and have no run, since a refinement is checked in their place that says
as much and more: `NoStaleStock` and `NeverSoldOut` of `Shop` (`ImplementsMarket`), `GreetedOnce` of
`QueueServer` (`ImplementsReception`) and `ViewsGrow` of `QueueChat` (`ImplementsHistory`).

*Why the bounds are enough.*  Races in `shop.c` are between two threads on one shop or on `glob`:
two shoppers and the delivery thread have all of them, and a third shop lets a thread pass over a
busy one.  The pooled server needs more clients than
descriptors, and a start after a start with leftovers; the third start finds leftovers of either.  For
`main` to block while all workers are in `recv`, two workers, a queue of one and `main`'s buffer take four
clients with a descriptor each: that is `queue_busy`, where one start is enough.  In `1-2scheme` a thread can be overtaken by
the next connection and by the one after it: three threads; a fourth client stays in the backlog.
`MuxServer` has two datagram clients, since its hazards are of one exchange meeting another or
`main` waking; one worker of each kind keeps them apart from races among workers of the same kind
for the queue, which are those of `QueueServer`.  The chats need two writers, and as many messages
as overrun the array; two resets, since a reader of the first log must meet a second one.
`NewlineCode` (10 in the code, of 100 rows) becomes 1 of 2.  `MCInteractive` uses
the file manager or a contact book and never starts the other: they share nothing, so that their
steps in turn would show nothing more.  Three additions to a book of up to
three contacts give the sort up to five neighbours, sorted before and not.  A page of two rows has
a first, a last and no middle row, which the code does not tell apart.
In `DatagramExchange` a packet can be another client's, another program's or the server's, and a
second greeting needs a second start.  In `Exchanges` a leftover needs a run before and is gone with
a run's end, hence three; two at once are enough to take each other's messages, and a queue of two
fills with two runs' greetings; overlapping runs meet one misfortune between them (`MayGoWrong`),
since two would only add causes the properties name already.  A copy of two halves has every tear, and two tasks are
a reader or writer and one that interferes; the theorems have any number.  A string of four parts has
a cut that leaves several, one and no part, with dots and empty parts among them.

*Deadlock.*  `Shop` and `CharDevice` are checked for deadlock (a finished shop program stutters by
`Terminating`; a module can always be called, loaded or unloaded).  In the other runs it is off,
because the programs do stop: servers after a signal or a crash when no more starts are allowed,
chats when all is typed, the file manager after `~`, the interpreter when it quits, exchanges when
they are over, and the FIFOs of `pipes/2tsk` because they do hang.  What must not be stuck is
stated as liveness instead.

*Fairness.*  Weak fairness only, and only of what a scheduler or the kernel does: a thread or a
process that can run does, a client program that has started goes on, `main`'s sleep ends.  Nobody
has to start, stop, signal, type or connect.  No fairness is given to winning a `trylock`: `Shop`
has it per thread, not per shop, so no purchase of a single shopper is promised.  In
`DatagramExchange` the raw programs are fair and the plain ones not, since the plain client waits for
its user's line.  In `Exchanges` parent and child are each fair once started; nobody has to start or
interrupt a run.

*What TLC showed on the way.*  Three things in the code came up as counterexamples of a stronger
property, and are now named in the weaker one.  In `queue/Posix` a client looks the name up again,
so that it can find a later run's queue and leave its parent waiting for ever (`Strayed`).  The
buffer of a raw client keeps the end of a longer packet, and the client sends it back behind the
greeting (`EchoIsGreeting`).  In the interpreter `cd ..` from a directory of the root calls
`chdir("")`, which fails: the prompt says `/` and the process stays (`PartInThreeWays`).

## 4. Theorems

All are for every value of the constants that satisfies the module's `ASSUME`: any number of
shops, clients or workers, any stock or number of rows.  The assumptions are what the code's constants
satisfy: in `Shop`, `1 <= TakeBound <= Threshold <= InitStock` (500, 500, 1000 in the code); in
`ShmChat`, that there is a row; in the servers, that there is a descriptor, a thread or worker of each kind and a place in
the queue and the backlog; in `DatagramExchange`, that the clients are finitely many; in `QueueChat`, that there is a row, that a queue holds a
message, and that the counter which a newline overwrites is then inside the array; in `FileManager`,
that a page has a row and that a listing is finite and begins with a directory (`..`); in
`ContactBook`, that names are numbers and that a file, if there is one, has lines of contacts; in
`CommandInterpreter`, that no directory is named `.`, `..` or nothing.

`ShopProofs`
: *Invariant.*  `StockInv` is the type invariant, mutual exclusion, `NoStaleStock` and
`NeverSoldOut`, strengthened by three facts about control: the index is in range inside the loop's
body, the register of a pending `glob++` holds a number, and a shopper inside its loop is short of
its basket.  None of the parts is inductive alone: a store needs the stock it read to be current,
which needs the mutex, which needs the index.  `StockInit` and `StockNext` show it is inductive,
with a step for each action.
: *`TypeCorrect`, `ShopsAreExclusive`, `StockIsFresh`, `ShopsNeverSellOut`* follow from it.
: *`DeliveryStopsLast`* needs a count: `CountInv` says that `glob`, and every value loaded from it,
is at most the number of shoppers that have stopped (`Cardinality(Done)`).  A lost increment only
makes `glob` smaller, so when `glob` is the number of shoppers all have stopped.
: *`LostCountHangs`* is a temporal theorem without fairness: `HangInv` says that the delivery thread
has stopped only at the full count and that `main` is past its last join only behind it, and
`CountIsFinal` that nobody changes `glob` once all shoppers have stopped, so the state in which an
increment is missing never goes away and excludes `Returned`.
: *`ShopImplementsMarket`*: under `StockInv` a purchase is `Buy` with the stock still what was
tested, a delivery is `Deliver`, and everything else stutters.

`ShmChatProofs`
: *Counters.*  `CountInv`: while the server serves, `co` is `*count` and less than `Rows` once it
copies; a reader that joined since the last reset is not ahead.  It gives `TypeCorrect`,
`AheadMeansRestart` and `RowsAreImmutable` (an announced row is never written while announced).
: *Order.*  `OnceAndInOrder` speaks of announced rows only and is not inductive: the next row comes
from the slot.  `OrderInv` adds that what a row or the slot names was written by its client
(`HalvesWritten`), and that, at each statement of the server's loop, the half that is still to be
published is later than every announced half of its client (`Unpublished`).  It gives
`MessagesKeepOrder`.
: *`ChatImplementsLog`*: with `CountInv`, `Publish` appends, `Zero` resets, `Join` and `ShowRows`
of a current reader join and advance; everything else stutters, since no announced row changes.

`QueueServerProofs`
: *Places and ways.*  `GreetedOnce` holds because a descriptor is on its way to a worker only once.
`QueueInv` says so: a client is in one place (`Places`), a process that is down has no descriptor
open (`Down`), and after a start on an empty queue a descriptor that is in `main`'s buffer, on the
queue or with a worker about to send is there only, and its client not greeted (`OnTheWay`).  What
an earlier process left on the queue may be any number, hence the condition.  It gives
`TypeCorrect` and `NobodyGreetedTwice`.
: *`WorkersDoNotKill`*, an action property, needs `TurnInv` too: a connected client waits for its
greeting or was greeted once, and nobody leaves before its greeting unless interrupted, so that
neither a send nor a receive of a worker can fail, whether or not a descriptor is left; what remains
of the ways down is a signal and `AcceptFails`.
: *`ServerImplementsReception`* uses both, and `Served`: the client of a worker that
receives was greeted (that of a worker about to send was not, by `QueueInv`).  Each step is a
step of `Reception` or changes nothing of the line: `accept` and `msgsnd` take from the front of one
part and append to the next, a start on leftovers or an exit closes it.

`ThreadServerProofs`
: `ServerInv`: a thread reads `client_fd` after its own connection, so never an earlier descriptor
(`Threaded`); what a client has sent waits or was heard (`Heard`); and as long as no two threads
share a descriptor and nobody was interrupted, each connection is served by its thread in step
(`InStep`).  It gives `TypeCorrect`, `OnlySharingKills` and `OnlyOvertakenAreSkipped`.
: *`MuxServer`: `MuxTypeCorrect`, `AloneGreetedOnce`.*  The shared pointer and socket are safe only
as long as `main` sleeps through each exchange, and no single variable says where the exchange is.
`Stages` follows it instead: while `main` waits for an event there is none; from the byte it has
read to the end of its sleep it is asked for, pending on the queue, with one worker, or replied, and
in each of these stages it is known what the socket, the queue and the client hold.  At the end of
the sleep `late` tells whether the stage was the last.  `BesideKeeps` shows that the other half of
the server, with its stream clients, never touches what the stages speak of.

`FileManagerProofs`
: `PathInv` follows the paths of the *first* file manager through the stack of those that wait: while
a nested one runs they are restored by cutting the name that was appended.  Nothing is needed of the
nested ones' own paths, which may be no directories.  It gives `PathsAreRestored` for every tree,
with the size of a page and the number of nested managers left open.
: *`CursorIsRight`, `OpensRight`*: neither property is inductive, since of the pane that KEY_BTAB
leaves nothing is known but what its window shows.  `CursorInv` keeps that for both panes (`Drawn`)
and, for the current one, that the cursor is whole pages below its row and that the page it would be
drawn on is the one in the window, unless KEY_BTAB has just set it to the first entry of a later page
(`CursorAt`).  The proof goes through every key with its tests at the page's and the listing's ends;
`WholePages` is the arithmetic of pages it needs.
: *`ContactBook`: loops of any length.*  The library's induction takes an operator as a parameter,
which these provers cannot instantiate.  A loop counts, though, and that counting reaches every
number is a fact about finite sets: if a set of numbers is closed under adding one and misses `m`,
adding one maps its members below `m` injectively into one fewer (`CountUp`; `CountDown` is its
mirror).  `LoopUp` and `LoopDown` get from it that the recursive function over the turns exists and
satisfies its equation (`CarriedIs`, `SortIs`, `DeletedAllIs`, `LoadedIs`, `LinesIs`), and each loop
invariant holds after every turn.
: *`SortsStably`*: `InOrderBut`, the invariant of the inner loop, says that only the contact being
carried may be out of place, hence `SortOrders`; `Stable` says that the array is a permutation of the
first one that keeps equal names in order, which an exchange of neighbours out of order preserves.
`StablyInOrder` shows by counting that such an array in order is the one of the reference.
: *`DeletesExactly`*: `Scanned` says what the scan has deleted so far; `DeleteNext` is the shift of
places that one more deletion brings.
: *`ReloadsExactly`, `FileSurvivesExit`, `BookTypeCorrect`* are from `BookInv`: while no program runs
and none was cut, the file has the lines of what was saved last, whatever was loaded, changed or killed
between; and the books of `heap/task.c` are in order, so that the sort at each line it loads moves
nothing.  A file with those lines is there, and no line of it has two contacts if every contact but the
last has its newline (`LinesIs`), so the load of it does not crash.
: *`CommandInterpreter`: `PartsInThreeWays`, `GoesUp`.*  The same counting gives `ResolveLast`: the
last part of a path of any length is followed from where the parts before it lead.  So the string
that `cd ..` leaves of one that led somewhere leads somewhere too, and if a name was cut, to the
directory above.  `CmdTypeOK` is the inductive invariant: the directories are a tree, the process is
in one of it or in a removed one, and `poz_of_slesh` is the last slash of `path`.

`QueueChatProofs`
: *Order.*  `OrderInv`: in the message queue and in the history each client's lines are in order, and
every line in the queue comes after all of its client's in the history, over restarts, which empty
the history and not the queue.
: *Victims.*  `VictimInv` adds to `OneVictimPerOverrun` what makes it inductive: each start of the server
has one wild snapshot in the queue at most, it has overrun, nobody was killed by it as long as that
snapshot is queued, and while the server may still send one there was none before.  It gives
`OneVictimCorrect`.
: *Snapshots.*  `Delivered` adds to `SomeoneShowsAll` the state between: while snapshots are queued,
the last of them is the whole history.  It gives `NothingUnshown`.
: *`ScreensGrow`*, an action property: `GrowInv` orders what is on the screens, what is queued and
what is about to be queued; each is a longer history than the one before it, or of a later start, or
behind an overrun (where `VictimInv` says that a wild count is).  `GrowStable` shows that no step of the server changes that order.
: *`ChatImplementsHistory`*: `OrderInv` says that a message the server takes is later than all of
its sender's in the history, `GrowInv` that what is queued of the running server is a
beginning of its history and longer than the screen it goes to, and `Filled` that no snapshot is
empty.

`CharDeviceProofs`
: *Unloading.*  `ModuleInv`: what may still be registered at each step of the unloading, and that
each call holds its entry or the open device.  It gives `TypeCorrect` and `NothingLeftBehind`.
: *`DeviceCopiesAreWhole`*: `LockInv` adds who is in the lock, that a writer is alone in it, and how
far a size lets a copy go; another writer's half then always marks the task as disturbed.

`ExchangesProofs`
: *`FifosNeverConnect`*: as long as every fork and exec succeeded nobody holds the writing end of
`channel2`, so that no process gets behind the second `open`.
: *`CleanRunsAreWhole`* has two invariants.  For queues and segments, `SerialInv` says where a run and
its child are (`Control`), that the name leads to the parent's object for as long as it must
(`Reached`), that an end has removed it (`Removed`) and the next object is new (`Fresh`), and what a
run in step finds in its object at each statement (`Exchanged`).  For the pipes, `PipeInv` says that
the writer holds its end until it has written, that afterwards what is in the pipe and what is
printed make up the text, and that a reader which is done has seen the end of the file.
: *`DatagramExchange`: `EchoesGreetings`, `LoneHeard`.*  `EchoInv` says that what waits at a raw
client for its port came from the server and from its one greeting (`FromPort`), that whoever has
received it was greeted (`WasGreeted`), and that with one start of the server and no packet of
another program nothing longer than the greeting lies in the buffer before it (`Fits`).  `LoneInv`
says that the packets which reach the server of a client that is alone come in turn: at most one
first byte, ahead of every answer (`InTurn`); `LoneByCount` gets "alone" from the cardinality in the
property.

Only model-checked:

- All liveness (`LockIsReleased`, `EveryoneHeard`, `EveryoneEnds`, `GreetingEndsAll` and the like),
  which needs fairness and `ENABLED`.

## 5. What is not modelled

Of the modelled programs: error returns of calls at start-up (`socket`, `msgget`, `ftok`, ...)
where nothing is said of them above, output and its wording, the sizes of texts except where an
array is overrun, and the undefined behaviour after an overrun beyond what the modules name.

Of the other components:

- `work_with_file/text_editor.c` and `hello.c`: what a key does to the text is what curses does to
  its window (`insch`, `delch`, wrapping at the margin), and the program keeps a row and a column
  only.  A model would be one of curses.  Its two hazards stay without a property.
- `sokets1/AF_INET/TCP` and `sokets1/AF_LOCAL/TCP`: one connection and a line each way, all of which
  `GreetClient` and its servers have with many clients.
- `data_exchange/broadcast`, `data_exchange/multicast`: one `sendto`, one `recvfrom`.
- `raw_socket/sniffer.c`: an endless `recvfrom` that keeps nothing between two packets.
- `sokets2/attack-bot`: forks clients; the servers' models have any number of them.
- `signals`, `file_manager/process`: one fork or one signal that ends its receiver.
- `lib`, `static_lib`, `dynamic_lib`, `arrays`, `bit_operations`, `pointers`: calculations with no
  state that lasts between two operations.

## 6. Plan

The order was: programs with threads or several processes over shared state first (`Shop`,
`QueueServer`, `ThreadServer`, `MuxServer`, `ShmChat`, `QueueChat`), then the interactive programs
whose state is easy to get wrong (`ContactBook`, `FileManager`), then exchanges, the kernel modules
and the interpreter, each followed by its proofs.  All of it is done; every safety property a run checks is stated by a
theorem.  What could be added is the text editor, with a model of curses' window.
