# eb-cpp in TLA+

eb-cpp is a C++ utility library (namespace `EB`) with a small TCP server for
Linux and a set of Windows helpers. The repository has no documentation and no
tests: the code, its comments and its messages are the only statement of what it
should do. This directory models the parts of it that keep state across calls or
threads, and its algorithms on texts and memory; model-checks them with TLC; and
proves most of the safety properties with TLAPS.

## Inventory

| Component | State it keeps | Operations | Interacts with | What is hard |
|---|---|---|---|---|
| TCP server `linux/EB/TCP` | `status`, `socket`, `server_addr`; one heap `eb_client` per connection | `start` (accept loop), `stop`, `send_data`, `client_handler` thread per client | Protocol (shared by all threads), String, remote peers, the kernel's socket table | unlocked sharing, `stop` against `start`, ownership of the `eb_client`, streams cut anywhere |
| Protocol `linux/EB/Protocol` | `handler_list`, `param_list` | `add_handler`, `add_param`, `get_param`, `parse`, `handle` | called by every handler thread; calls the handlers | `param_list` is shared by all connections, never shrinks, is not locked |
| String `linux/EB/String` | none | `delimiter_count`, `substrings`, `split_to_two` | Protocol | `size_t` arithmetic on positions |
| Handlers `linux/handlers.h` | none | `hello` | looks parameters up, calls `send_data` | whom it answers |
| Named pipe `win/pipe` | server: `is_started`, `buffer_size`, `data_handler`, `last_error`; thread: `pipe_data`, two buffers; client: `pipe`, `last_error` | `create_server`, `set_*`, `client_handler`; `connect`, `write`, `read`, `close` | Windows pipe instances, thread per client | connect races, blocking writes in both directions, partial reads |
| Serial port `linux/EB/SerialPort` | `status_code`, descriptor, `buffer`, `buffer_size`, `port_name` | `open`, `close`, `read`, `write`, `set_buffer_size`, destructor | the process's descriptor table | half-failed open and close, descriptor reuse |
| State machine `fsm.h` | `states_`, `curr_state_`, transitions of each state | `add_state`, `add_transition`, `transition_to`, `update`, ... | callbacks, which may call back | re-entrancy, ownership |
| Settings `settings` | list of pairs, defaults, a flag; the file | `load`, `save`, `set_setting`, `get_setting`, `reset_to_default_settings` | the file, other processes | a crash during save, torn and overlapping writes, the text format |
| Matrix `matrix.h` | array, and the indices of an access under way | `operator[]`, `get`, `set`, `operator=` | its caller | the access is spread over three calls |
| Web requests `web_request` | `_last_http_code`, one for all threads; the file of a download | `send_get_request`, `send_post_request`, `download_file`, `get_last_http_code` | libcurl, the file system | the shared code, failures that return true, two downloads on one file |
| Registry `win/registry` | `_last_error_code`, one for all threads | `read_registry_value_string` | the registry, which any process changes | size and data are two queries; the key must be closed on every path |
| Memory `win/memory` | protection of pages | `write`, `fill_with_nop`, `search_bytes` (both), `get_function_real_address`, `get_function_size` | the pages of this or another process | two threads on one page, writes over a page border, chunk borders |
| Hook `win/hook` | two arrays of jump bytes, one for all threads | `trampoline`, `trampoline_relative`, `absolute_jmp`, `relative_jmp` | Memory, the hooked code | the shared jump bytes, hooks on hooks, moved instructions |
| Process `win/process` | `process_info`, `module_list`, `thread_list` | two searches, `load_module_list`, `load_thread_list`, handles | processes and threads that come and go | ids that are used again, searches that find nothing |
| String `string` | none | `split`, `trim` | Settings | ends of the text |
| Logger `linux/EB/Logger` | none | `Log`, `GetFileName` | all parts for Linux | `npos` cut to 32 bits |
| Injector and shellcode, ImGui, keyboard, other Windows helpers, time, file, utility | little or none | wrappers of one library or system call each | | see *Not modelled* |

What makes each correct: the server's `eb_client` objects are owned by one thread
and deleted once, requests reach the handler they name and answers a client that
exists, `stop` stops; a pipe client gets its own answers in order, and a client
that has left is released; the serial port never writes to another file and never
overflows its buffer; the state machine has one active state that it owns and
moves along declared transitions only; what is saved is what is loaded; a matrix
access reaches the element its indices name; what a caller learns of a request or
of a registry value is of that request and of one value; the lists of a process
are of that process; pages get their protection back, a hooked function goes
to its hook, and the original still does what it did.

## Modules

| Module | Models | State and actions |
|---|---|---|
| `EBString` | Linux `String`, `Protocol::parse` | operators on sequences of characters, `size_t` modulo `SizeT` |
| `TCPServer` | `Server`, `client_handler`, `add_param`/`get_param`, `hello`, peers | one variable per field; `StartSocket .. Accept` are the lines of `start` with a kernel call between them, `StopClose`/`StopIdle` the two assignments of `stop`, `AddParamBegin`/`AddParamEnd` a `push_back` (overlap is a race), `Loop`, `Recv`, `RecvEnd`, `Hello`, `SendData`, `SendLate` (a `send` that had to wait), `Handled`, `Exit` the thread |
| `EBClientLife` | abstract: what the threads owe each `eb_client` | nobody → loop → handler → deleted |
| `NamedPipe` | `NamedPipeServer`, `client_handler`, `NamedPipeClient`, pipe instances | `SetCheck`/`SetAssign` (test, then assign), `CreateServer`/`StartServer` (test, then `is_started`), the loop of `create_server`, the handler thread call by call, with `ReadError`, `WriteError` and `FlushError` where the system fails it, the client call by call |
| `PipeSession` | abstract: what a client sees of the pipe | `Ask`, `Answer`, and `Leave`, after which what it has not read may be lost |
| `SerialPort` | `SerialPort` | an action per outcome of each method, the process's other files, arriving bytes |
| `StateMachine` | `State`, `StateMachine` | a stack of callbacks under way; each callback may call any method |
| `StringText` | `split`, `trim`, a word by `>>`, `GetFileName` | operators on texts |
| `SettingsText` | `get_settings_str`, the reading loop of `load`, `get_setting` | operators on texts |
| `Settings` | `Settings`, the file, several processes | `stat`, open (truncates), write and close as separate steps; restarts |
| `Matrix` | `Matrix`, of any size, without rows or columns too | an action per index, `get`, `set`, `operator=`, and the ways an access ends early |
| `MemorySearch` | both `search_bytes`, `get_function_real_address`, `get_function_size` | operators on sequences of bytes |
| `Memory` | `write`, `fill_with_nop`, in this process and another | a thread's operations (protect, store, restore, read, allocate) one at a time, each of which may fail, and nobody looks; pages and their protection |
| `Hook` | `trampoline` and the jumps | a call is a sequence of `Memory`'s operations and of writes to the shared jump bytes; `Runs` is what the code does when it is called, the registers that jumps load included |
| `WebRequest` | `WebRequest` | the steps of a request between calls of libcurl and the C library; pieces of a body arrive one at a time, and `fwrite` and `fclose` may fail |
| `Registry` | `read_registry_value_string` | a step per query, and other processes' changes |
| `ExternalProcess` | `ExternalProcess` | the searches and loads, a step per look at the system; processes and threads start and end |
| `TCPServerProofs`, `NamedPipeProofs`, `SerialPortProofs`, `SettingsProofs`, `HookProofs` | theorems about the module of that name | |
| `TextProofs`, `HeadersProofs` | theorems about `MCText` and the modules of texts it composes, and about `StateMachine` and `Matrix` | |
| `ServicesProofs` | theorems about `WebRequest`, `Registry`, `ExternalProcess` and, with those of `HookProofs`, their composition `MCServices` | |

`TCPServer` composes the tokenizer (`EXTENDS EBString`) with the threads,
`Settings` the text format (`SettingsText`, on top of `StringText`) with the
file, `Hook` the jumps with the writes of `Memory`. `MCServices` composes the four
parts that share nothing with each other into one program that uses one of them,
and `MCHeaders` does so with the two class templates, `StateMachine` and `Matrix`.
`MCText`, `MCTCPServer`, `MCNamedPipe`, `MCSerialPort` and `MCSettings` give the
constants their values for TLC. Operators such
as `Running_unchecked`, `get_param_last` or `jmp_of_stale_bytes` are wrong on
purpose: each is the mutation that `PROJECT.json` lists to show that a property
can fail.

What is code-shaped in them, in particular:

- A handler thread that throws, reads past its buffer, writes to a reset
  connection or corrupts `param_list` ends the process: `crash`.
- Undefined behaviour is nondeterministic. Two overlapping `push_back`s may lose
  an element, leave a hole or end the process (`raced`, `Corrupted`).
- `close` on a socket on which `accept` is blocked does not wake it: the listener
  is `lingering` until one more connection arrives.
- `accept` may fail at any time; the code makes an object and a thread all the same.
- `send` waits while the buffers of the connection are full (`SendCapacity` answers),
  and a peer may leave what it was sent unread for as long as it likes: a handler inside
  `send` then stays there, whatever becomes of its own connection or of the server.
- `stop` closes first and sets `IDLE` afterwards; `start` sets `RUNNING` first and
  listens afterwards. Both are two steps.
- A chunk is any prefix of the stream that fits the buffer. A byte string shorter
  than the buffer ends at its first NUL, which is why a full buffer is an over-read.
- `ReadFile`, `WriteFile` and `FlushFileBuffers` of a pipe may fail though the client is
  there, and a write may take a part: the handler hangs up, in all cases alike.
- A file that `save` opens is empty from then on and is written at close, perhaps in
  part. The result of the write is not looked at, as in the code.
- A transfer of libcurl may fail at any piece; what `fwrite` has taken reaches the
  file at its flush, at the offset of that file handle. A write that fails loses the
  piece it was to write and ends the transfer; a flush that fails loses what is left.
- When the second `NtQuerySystemInformation` finds its buffer too short, its result is not
  looked at: entries are pushed for what the memory happens to hold (`Unwritten`), or the
  walk through it ends the program (`wild`). The id 0 is a process that never ends, and
  of which a snapshot lists the modules of the caller.
- `Hook` counts in cells, an instruction or an operand each, of straight code. A store to
  a page that is not writable ends the process. In another process there is no fault:
  `WriteProcessMemory` stores all, a part or nothing, and nobody looks.
- An absolute jump loads its target into a register (`edi`, or `r10` in a 64-bit build).
  Between the bytes `trampoline` has moved and the rest of the function this changes what
  the function does, and `Runs` shows it.
- `Memory` and `Hook` have what two threads that meet on a page, a function or the jump
  bytes do to each other, and what a failed `VirtualProtect`, `WriteProcessMemory`,
  `ReadProcessMemory` or `VirtualAlloc` leaves (an `old_protect` that was never set, bytes
  that were never read). `disturbed` tells that either has happened: the code
  then goes wrong, and the properties claim nothing from there on.

## Refinements

`TCPServer` implements `EBClientLife` under the mapping `owner`
(`ObjectsLiveOnce`): each `eb_client` is allocated by the loop, passed to one handler
thread and deleted by it, in that order.

`NamedPipe` implements `PipeSession` (`AnswersAreASession`): `here` is a client that
has not gone, `stream` what it has read and what waits in its pipe. Coalesced
requests, replies split over reads and replies sent again are all steps of a session;
an answer to another client's request, one out of order, or one lost while its
client is there and no system call has failed for it, is not. The code does not promise an answer to every request, nor
that it sends none twice: `reply_bytes` is left to the `data_handler`.

Both are checked by TLC and proved.

## Runs

| Run | Question | Bounds |
|---|---|---|
| `text` | Which commands of a chunk does the tokenizer get right? What do splitting, trimming and the file name lose? Does a setting survive save, load and `get_setting`? Do the two memory searches find the same, and the function search the function? | every text of at most 7 characters over four alphabets of 4: three semicolons, empty commands, keys and values are among them; the start index goes wrong at the third command, within the bound; chunks of 2 and 3 bytes put a match at, across and behind their borders, and a DWORD of 6 values is shorter than the memory |
| `server` | Is every `eb_client` owned by one thread and deleted once? In which order are parameters found, and who is answered? What does `stop` leave open? | 1 `start`, 2 peers, 2 clients: two handlers overlap in every way, and a client may come from a failed `accept`; 1 message per peer, one well-formed and one that throws; 1 answer fills a connection, so a handler waits in `send` |
| `restart` | With two calls of `start` around a `stop`, does a stopped handler end, after how many chunks, and is any object lost? | 2 calls of `start`, 1 client, 2 messages of 3 characters in any chunks, so that a handler could receive several after `stop`, and 2 answers, one more than a connection holds |
| `handlers_end` | Is the handler of an ended connection released, also when it answers another connection that does not read? | 1 `start`, no `stop`, 2 peers; one sends a chunk that calls `hello` twice, and 1 answer fills a connection: the second `send` waits, and may for ever |
| `answer_to_nobody` | Does `hello` answer a client that exists? It does not (findings) | 2 clients |
| `pipe` | Is what each client sees a session; who hangs up? | 2 clients, 2 instances, 2 requests and an empty write each, replies of up to 2, reads of 1, pipes and buffers of 2: requests coalesce, are split, replies are resent, the pipe fills, and calls fail |
| `pipe_live` | What configuration is a handler given? Does it read what arrives, and is a client released that has gone? | 1 client with 3 requests, pipes of 1 byte, so that handler and client both wait in a write; 2 threads that set the configuration and 3 calls, so that one may be inside a `set_` function while another calls, buffers of 1 and 2 |
| `serial_port` | Are bytes stale, does the buffer hold what is read, which descriptors leak? | 3 descriptors, buffer sizes 0, 2, 3, 4 bytes (one NUL among them), 2 failed opens |
| `serial_port_closed` | Does `write` reach the port? Not after `close` (findings) | 2 descriptors |
| `headers` | State machine: who owns the states, is one active, are only declared transitions taken? Matrix: does an access reach the element named? | 3 ids, 3 objects, callbacks two deep: an `on_exit` that makes a transition while one is under way; 2 by 3, so that a row index is not a column index, and 0 by 2 and 2 by 0 |
| `settings` | Are keys unique, does a reset keep what it must, does a load read what was saved? | either one process with up to 3 settings and 2 restarts, or two processes on one file with lists of one; 2 keys, 2 values, one of them empty and one a separator |
| `services` | Web requests: is an answer, a code, a file one's own? Registry: is a text that of one value, is every way out clean? Process: are the lists of one process, what leaks? Hook: does protection come back, does the hooked function go to its hook, does the original behave as before? | 2 threads; 3 requests of up to 2 pieces; 3 reads and 2 changes among values with, without and around a NUL and one of another type; 3 processes on 2 ids and 4 operations on objects; 3 hooks of 1 to 3 cells on two functions of which the second begins on the page of the first and a jump over it crosses into the next page, of the same protection or another; threads that read unwritten memory: 1 |

`PROJECT.json` lists the properties with one mutation of the code each that breaks it.

`services` and `headers` choose one part in the initial state: no part can disturb
another, so the interleavings of two parts would show nothing. The `CONSTRAINT
Undisturbed` of `services` stops at a state in which hooking threads have met or a
system call of theirs has failed: `Hook`'s properties claim nothing from there on, and
`disturbed` never becomes false again, so nothing that is claimed is cut.

The `VIEW` of `pipe` leaves out the two `last_error` members: no step reads one and no
property of the run speaks of them, so states that differ in nothing else have the same
future.

### Bounds

All counters are cut by a constant: `MaxClients` (iterations of the accept loops),
`MaxMessages` (of each peer), `BufferSize` (1025 by default), `SendCapacity` (answers
a connection holds), `MaxPipes`, `MaxRequests`,
`MaxSets`, `Capacity` (bytes the system buffers), `MaxReply`, `ReadSize`, `MaxFd`,
`MaxBytes`, `MaxFailures`, `MaxObjects`, `MaxDepth` (callbacks), `MaxSettings`,
`MaxRestarts`, `MaxLen`, `MaxPieces`, `MaxChanges`, `MaxReads`, `MaxProcesses`,
`MaxThreads`, `MaxUnwritten`, `MaxOperations`, `MaxCalls`, `Cells`; and in `MCSettings` by
`MCBounds`, which bounds what the programs do by how many they are. `SizeT`,
`DWord` and `Int32` are small numbers in place of 2^64 and 2^32: positions stay far
below, and only wrapping around zero matters. `MayStop` tells whether the
application calls `stop` at all: `handlers_end` is about a server that runs. Two clients
or threads are enough for what the properties tell apart: one, and another that disturbs it. Peers, pipe
clients, threads and state ids are symmetric (no action chooses one by name).

`CHECK_DEADLOCK FALSE` stands in the configurations whose system stops: a process
that ended (`crash`, the serial port's `ended`), a counter at its bound, a client
that has gone, a text of full length. The state machine, the settings and the
matrix never stop, and deadlock is checked there.

### Fairness

`restart`, `handlers_end` and `pipe_live` assume weak fairness of each thread of the
server: the accept loop, every `client_handler`, the second half of `stop` once it has
begun, and `create_server`. They are operating-system threads without priorities or
locks, so a thread that can go on does. One inside `accept`, `recv`, `send`, `ReadFile` or
`WriteFile` can go on when the call has something to return: `send` and `WriteFile` when there
is room, which no fairness promises, since it is the peer that makes it. Peers, pipe
clients and the callers of `start`, `stop` and `set_` owe nothing, and the system owes no
failure: `AcceptError`, `ReadError`, `WriteError` and `FlushError` may happen and need not.

So `StopDrains` does not ask a thread to end that is parked in `recv` on a silent
connection, and `StopDrains` and `EndedConnectionIsReleased` except a handler that is for
ever inside a `send` to a peer that does not read (`Stuck`). `RequestsAreRead` excepts a
handler stuck behind replies its client does not read: handler and client then wait for
each other for ever, which the code does not prevent. The runs reach each of these
states, and without its exception each of the properties fails.

## Proofs

Each `Proofs` module shows, for every value of the constants, that an inductive
invariant holds initially and is kept by every action, one lemma per action or group
of actions, and draws its theorems from it. All that is assumed is the `ASSUME` of the
module proved about: bounds are natural numbers, buffers are not empty where the
code's are not, null is no object and no id. The invariants were checked with TLC on the
instances above first.

- `TCPServerProofs`. `TypeCorrect`. `IdleServerIsClosed`, for one call of `start`: a
  listening socket needs that call under way, or blocked in `accept`. `OwnershipHolds`: that an `eb_client` has one owner is
  not inductive by itself: that `new` returns an object nobody has, and that the
  loop holds one exactly between its allocation and its thread, must be known too
  (`OwnerInv`). `ServerImplementsLife`: every step is a step or a stutter of
  `EBClientLife`. `ServerIsFound` (a `hello` that finds a client finds the server),
  `AnswersGoToTheFirst`, from `ParamInv`: one thread at most is in a `push_back`, a thread past its first call has its server registered, and
  a pointer a handler has read stays the one a look-up returns, until two accesses
  to `param_list` overlap. `StopIsPrompt`, from `LateInv`: a thread inside `recv` has
  received nothing since `stop`.
- `NamedPipeProofs`. `PipeTypeCorrect`; `StartFixesTheConfiguration`: a call that is
  inside a `set_` function after the start was so at the start, and has not assigned
  since; `HangsUpLast`; and `PipeIsASession`, the refinement. The last rests on an order (`DataInv`): what has been
  sent to a client is no newer than the reply buffer, that no newer than the request
  being handled, that no newer than the requests that wait, and all of them are the
  client's own. That the buffers of a thread are its own, and an instance serves
  one client, is `ControlInv`.
- `HeadersProofs`, for the state machine: `MachineTypeCorrect`, `StatesAreOwned`,
  `OneIsActive`, `TransitionsAreFollowed`. The last two need `ExitInv`: until a transition is made
  under an `on_exit`, the stack holds one `on_exit` at most, and the transition it is
  part of stays declared, though the callback may add states and transitions.
  For the matrix: `AccessesAreExact`, for every size a `size_t` counts; where there are no
  rows or columns, of the types alone: the cursor of the object follows
  the access the caller makes until one is cut short (`CursorInv`), and the
  place `Cols * row + col` is in the array and no other element's.
- `SerialPortProofs`. `PortTypeCorrect`, `ReadsAreFresh` (what the driver holds is the
  end of what has arrived, and what was returned came before), `LeaksAreCounted`
  (cardinalities: a descriptor that is opened was free, and a port is open at most once).
- `SettingsProofs`. `SettingsTypeCorrect`; `SavedIsWhatIsLoaded`: what the file holds
  while a write is under way must be known, and that a file written whole is the
  list some process had (`FileInv`, `SavedInv`); `KeysStayDistinct`, for programs
  whose texts are clean (the hypothesis `CleanInputs`: without it the text of a list
  can be read as another list, and a key appears twice), because a list and what a
  torn save leaves of it have distinct keys (`SoundInv`); `ResetsKeepExcluded`: those with
  a default keep their value, the others are gone. Each holds where its formula says: what was saved is
  loaded until a file is opened for writing again; keys stay distinct while nobody loads on
  top of settings, no writes overlap and no write was cut.
- `TextProofs`. `ReadBack`: what `get_settings_str` has written of a clean list, however
  many settings it has and however long they are, is read back; `SettingsSurviveTheFile`
  draws from it what `MCText` checks. `CommandsAreTokenized`: the
  positions of the semicolons are all of them and in order (`FoundAll`), and the running
  start is right for the first two. `TextsAreCutExactly`: what `getline` has read of a
  text, joined again, is that text (`Rejoined`); the other cuts are about the first or
  last position of a set. `SearchesFind`: an occurrence is the nth when n are before it
  (`NthIs`); a match that is whole in a chunk does not depend on what the buffer held
  (`HitIs`), so the first chunk finds it (`FirstChunkFinds`), and a single byte is found
  chunk by chunk (`ChunksFind`). The property has small starts, chunks and lengths for
  TLC; `SearchesMeet` is about any. The loops are recursive functions; that
  they exist, and what they are after one character more, follows from `Computed` and
  `UpTo`, which draw induction over numbers from the well-foundedness of `<`; that a loop that may
  not end is a function too is `LoopIs`.
- `ServicesProofs`, for three services and the composition of the four.
  `RequestTypeCorrect`, `AnswersHold`, `DownloadsHold`: the file of a download that
  shares it with no other is, with what is not flushed yet, what was received until a
  write failed, and the download writes at its end. `RegistryTypeCorrect`, `TextsAreWhole` (what a call
  has seen always includes the value as it is now; the text is cut at the first NUL
  of one value), `ReturnsHold`. `ProcessTypeCorrect`, `ListsHold`, `OnlyFailuresLeak`:
  an id is held by an object, and every entry that no object holds was counted as
  a search that found nothing. `ListsHold` is about an id that was not used again, a
  query that found its buffer long enough, and an id that is not 0.
  `ServicesAreTheirOwn`: a run of the composition is a run of each service;
  `ServicesTypeCorrect`.
- `HookProofs`. `HookTypeCorrect`: what is left of a call is a *well made* program, in which a store
  stands between the change of the protection and its return (`ThreadsInv`).
  `ProtectionReturns`: so the pages a thread has opened are those of the write at its
  head; they are apart from the pages of others until two threads meet, and
  `old_protect` is what they had in the beginning (`PagesInv`).
  `HookedReachesItsTarget`: of the function's first bytes, a program writes the jump,
  once, with the operand it made up before, and what it does afterwards is behind
  them or in new memory (`IsPlan`); until the jump is written it is still to come, and
  once it is written nobody disturbs it (`HookedInv`). What runs there is the value of
  a recursive function, whose existence is proved first (`RunnerExists`).
  `OriginalsBehave`: the memory of a call belongs to no other (`OwnInv`), so what is
  written there are the stolen bytes and the jump back (`OnItsWay`). A cell of the code
  that no call has passed the reading of is as it was (`Touched`), so the bytes
  stolen are the beginning of the function, or the jump that `HookedInv` says is there
  (`Stolen`); and behind them the rest is untouched as long as no call for the function
  overwrites more. That running the copy, the jump and the rest is running the function
  as it was follows from a least counterexample in the cells left (`BodyRuns`, `CodeRuns`, `CopyRuns`).
  After an absolute jump back it is that function with the register loaded in between
  (`Through`). All three theorems are about a program in which no two hooking threads
  have met and no system call of theirs has failed (`disturbed`); `ProtectionReturns` also
  leaves out a write over two pages of different protection.

What is assumed of the constants, beyond that bounds are natural numbers: the functions
a caller hooks are apart by the number of bytes it says each hook overwrites, and
those bytes are the function's (`FunctionsAreApart`; the code cannot know it and
does not look), a hook's bytes are there (`HookAssumption`), the memory a call is given holds the bytes
moved and the jump back (`AllocationsFit`: what it asks `VirtualAlloc` for), page numbers and
protections are what `MemoryAssumption` says, positions in a text fit a `size_t` and a
`uint32_t` (`MaxLenAssumption`), a DWORD has values and a jump has bytes
(`DWordAssumption`, `OpcodeAssumption`), a matrix may lack rows or columns but the number
of its elements fits a `size_t` (`MatrixAssumption`), and values of the registry are
sequences of characters.

Only model-checked: liveness (`EndedConnectionIsReleased`, `StopDrains`,
`RequestsAreRead`, `GoneIsReleased`), since liveness under fairness and `ENABLED`
are beyond the prover.

## Findings

1. `linux/EB/TCP/server.cpp:120` deletes the `eb_client` whose address is still in
   `param_list`; a later `hello` sends to it (`answer_to_nobody`).
2. `linux/EB/SerialPort/serial_port.cpp:153`: `close` leaves `status_code` at 1, so
   that `write` does not say "Please open the port first" but writes to a closed
   descriptor, or to the file that has its number since (`serial_port_closed`).

Seen while modelling, without a statement of the code to check against; most of them
are in the models, as preconditions of the properties:

- With two connections, every `hello` is answered to the first one ever registered
  (`FirstRegistrationWins` states it). The third command of a chunk is cut wrongly or
  throws out of its thread. The result of `bind` is not looked at, the socket of a
  finished client is never closed, and a `send` to a reset connection raises SIGPIPE.
  A `send` to a client that does not read holds its handler, which may be another client's,
  for ever, and `stop` does not end it; after a failed `accept` there is an object and a
  thread for the socket -1.
- After `stop` a blocked `accept` keeps the port until one more connection arrives.
- `is_started` of the pipe server is never reset, and when `CreateThread` fails the
  connected client is neither served nor hung up on. A handler whose `WriteFile` waits for
  a client that itself waits in a write never ends, and one error of a read or a write
  hangs up on a client that is still there.
- `port_name` of the serial port is the caller's pointer, and the destructor of a port
  that is open leaves its descriptor open.
- `load` on top of settings adds their keys a second time; a crash after `save` has
  truncated the file loses what was saved before; a reset drops an excluded setting that
  has no default.
- A matrix without rows or columns refuses no index: its bound wraps.
- A request that fails returns true and the code 0; a failed `fopen` is not looked at, nor
  is a failed `fclose`, so `download_file` returns true for a file that a full disk has cut.
- A search for a process that finds nothing never deletes its entry, and
  `get_process_handle` does not ask whether one was found. An `ExternalProcess` that is
  copied is deleted twice. `load_thread_list` by `NtQuerySystemInformation` does not
  clear the list, pushes what the unwritten buffer holds when the second query fails, and a pointer that `get_module` returned is lost when the list is
  loaded again.
- A write over a page border gives all its pages the protection of the first one.
- `search_bytes` in another process misses matches across chunks and compares
  bytes behind its buffer; the length of the jump is left out of
  `get_function_real_address`.
- `trampoline` moves relative jumps as they are, and its absolute jump back destroys `edi`
  (`r10` in a 64-bit build) in the middle of the function. A hook in another process is
  said to be made though `VirtualProtectEx` or `WriteProcessMemory` has failed.
- `IAT` assigns the old function to its own parameter (`win/hook.cpp:226`), and
  `absolute_jmp_and_restore` copies to its own argument (`win/hook.cpp:166`).

## Not modelled

- Injector, shellcode, `IAT` and `absolute_jmp_and_restore`: they walk the layout of
  an image or of compiled code, or are machine code that runs in another program. Their
  only state is the injector's `target_process`, a pointer that is set and then read.
- ImGui, keyboard, window text and search, time, file and utility functions: stateless
  wrappers and formatting. `Log` writes a line and keeps nothing; that it may
  overwrite `errno` is in `SerialPort`.
- Extraction of numbers by `get_setting`, `get_baudrate` and `termios`,
  `Matrix::get_display_str` and copying a matrix: no property depends on them.
  `add_handler` is called before `start` in `main.cpp`, so the handlers are a constant.
- The options of libcurl, the text of post fields, the fields of module and thread
  entries beyond the process they belong to.
- Hazards listed without a property in `PROJECT.json` carry the reason there.

## Plan

Done, in this order: tokenizer, TCP server and its proofs, named pipe, serial port,
state machine, settings, matrix; then the texts and searches, web requests, registry,
memory, hooks, processes; the pipe session and the proofs of the pipe, the state
machine, the port, the matrix and the services; the proofs of the settings, their file,
the hooks and the searches.

Next:

1. The settings file as an abstract register that `save` writes and `load` reads, and
   `SavedIsLoaded` as a refinement of it.
2. Copies of `Matrix` and `ExternalProcess`, and what their destructors then do.
