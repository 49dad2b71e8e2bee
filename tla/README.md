# A verification of the zer0pts CTF 2023 programs

The repository is a collection of independent programs: servers, small binaries, and the
queues and bots around them. They share no code, but several of them have logic of their own
that is hard to test: processes that talk through shared memory or one shared file, bots fed by
a queue that may fail anywhere, a compiler with back-patching, a program on a machine that keeps
return addresses among its numbers, handlers that overlap at an `await`, sessions an alarm may
end at any statement, a page and an API whose requests interleave. These are modelled here in
TLA+, checked with TLC, and the most delicate results are proved with TLAPS for every value of
the parameters.

`PROJECT.json` holds the same information for tools: components, runs, the mutant of the code
each property is sensitive to, the source lines behind every definition, hazards, findings and
theorems.

## 1. Inventory

| part | state | operations | interaction | what is hard |
|---|---|---|---|---|
| `rev/topology` (`template.c`) | per process: role, message slots in shared memory, a static call counter per check function; head: chunk, peer, votes | `setup_network`, `send_msg`, `recv_msg`, `handle_message`, `network_main`, `destroy_network` | N forked processes in a ring; slot `next` of one is `prev` of the next; futex wake-ups; `wait` | lost wake-ups, no lock on a slot, two counters that must agree without being compared, failing calls in one process, the order of removal |
| `pwn/sharr` (`challenge/main.c`) | shared file (command, index, value) with one offset; `arr` in the core | `note_interface`, `note_core`, `io_set`, `io_get`, handlers of SIGINT/SIGALRM | two processes poll the same file; the offset is shared because the file is opened before the fork | seek and access are two steps; a command may only be seen after its arguments; a process may be killed anywhere |
| web report queues (neko-note, plain-blog, ringtone, scoreshare) | redis list `report` and its dump; the bot's position, browsers | form handler (RPUSH), `handle`, `visit`/`crawl` | redis list; `setTimeout(handle)` | exceptions between steps, lost replies, restarts of bot and redis, a bot that lives but no longer listens |
| `pwn/brainjit` | code buffer, `_code_len`, stack of open brackets; at run time pointer and tape | `compile`, `_emit`, `run` | one process | one-pass patching of relative jumps, runs of instructions, buffer limits, bounds of the tape |
| `web/warmuprofile` | table `User`, session store, the copy of its session each request works on | register, login, logout, delete, pages | requests overlap at `await` of the database; express-session loads and saves the sessions | checks before an `await` used after it, sessions that outlive accounts, copies written back late |
| `misc/netfs1`, `netfs2` | server: accept loop, list of children, descriptors; per session: user, password so far, alarm | `authenticate`, `serve`, `Timeout`, accept loop | fork per connection, SIGALRM, the client's socket | a timeout that may strike at any statement, and be caught by the wrong `except`; children and descriptors left over |
| `web/plain-blog` api, frontend | posts in memory; the page's variables and its content | create, read, like, update; `renderPage`, click | threads of puma; `fetch` callbacks and `hashchange` | check-then-add of likes; fields replaced by strings; a value left from the previous loop round; two calls of `renderPage` at once; a prototype shared by all entries of all calls |
| `web/scoreshare` scores | three fields per score, in redis | upload, view, API | the report form and bot share the redis | a score is stored in three calls; redis may crash between them |
| `web/neko-note` notes | map of notes | create, read, unlock, report | goroutines | the map has no lock |
| `rev/fvm` | the stream of code and its position; eight registers, which hold numbers and return addresses | one per instruction; the routines of `code.S` | the program runs on the machine, `gen.py` assembles it | a stack of eight for everything, `dup` into a register in use, return addresses swapped past operands by hand |
| `rev/decompile_me`, `rev/mimikyu` | RC4 box; GMP numbers | key schedule; hash search | none | calling conventions |
| `pwn/flipper`, `himitsu`, `wise` | one buffer and a flag; four slots; two lists and a pointer | ioctl; add/edit; six menu entries | mutex in flipper | a pointer into a list that may move |
| `pwn/aush`, `pwn/qjail`, `web/jqi`, `web/ringtone` service, `crypto/*` | none that outlives a request, or numbers of 128 bits and more | | | string building or number theory, not behaviour |

What makes each modelled part correct:

- **ring**: one message at most is under way, so no slot is overwritten while it is read; the
  case a check function evaluates is the one for the chunk it is sent; every voter is polled once
  about every chunk; the verdict is the one of the flag; a segment in use is never removed; all
  processes exit, the tail first.
- **sharr**: as long as no read or write is done where the other process has moved the offset, the
  array behaves as if requests were atomic, every request is answered, and the index checked by one
  process is the one used by the other; whatever is done, the file outgrows its layout by one value
  at most.
- **report queue**: a report is visited at most once; no browser is left behind under the next
  one; a score that can be viewed or reported is whole, but for what a crash of redis took of it before
  it was stored or reported; the bot takes up every accepted report unless it meets one of the
  faults it does not survive.
- **brainjit**: compiled code behaves like the interpreted source and stays in its buffer; what is
  reported as a syntax error is one.
- **fvm**: every jump and return leads where it should; a comparison is between the values it is
  meant for; what is printed is never garbage; the verdict sums up all checks; the machine halts.
- **warmuprofile**: nobody is logged in under a name that never was an account; a request deletes
  what it found, or everything if it found nothing. (That a user deletes only itself, and that a
  name is free when its account is created, the code says and does not keep: findings 3 and 4.)
- **netfs**: the alarm is on only where its exception is caught; a refusal takes as long as the
  server says, and nobody is both refused and served; a connection ends with its session; a
  session ends although its client does nothing.
- **plain-blog**: however requests overlap, a post passes the limit by no more than one request of
  each other thread, and its number changes by likes that were checked only, each once; a page shows
  the posts of its own list, with their own fields where the API had them; it is shown in the end
  although requests fail.

## 2. Modules

| module | role |
|---|---|
| `FlagVote` | what the ring promises: a poll of all voters about all chunks and its verdict |
| `RingNetwork` | `template.c`, one action per step between two accesses to shared state |
| `RingProperties` | type invariant, safety, the inductive invariant `RingInv` with `Exits` for the segments and `Moving` for progress, the refinement to `FlagVote`, `NeverStuck` |
| `RingProofs` | theorems about the ring |
| `SharedArray` | what sharr promises: one array, one request at a time |
| `Sharr` | `main.c` of sharr, one action per `lseek` and per `read`/`write` |
| `SharrProperties` | the history of accesses gone astray, type invariant, safety, the inductive invariant `Handshake`, the refinement to `SharedArray` |
| `SharrProofs` | theorems about sharr |
| `ReportQueue` | the four report pipelines, told apart by which steps stand in a `try`, and scoreshare's upload in front of its one |
| `ReportQueueProperties` | type invariant, safety, the inductive invariant `ReportInv`, progress |
| `ReportQueueProofs` | theorems about the report queue |
| `Brainfuck` | an interpreter of the source, the specification of the compiler |
| `BrainJIT` | `app.py`: compiler, and the machine that runs its blocks; its properties, the refinement to `Brainfuck` and the inductive invariant `CodeInv` |
| `BrainJITProofs` | theorems about the compiler and its code |
| `FVMProgram` | `code.S` and the assembler of `gen.py` |
| `FVM` | `main.cpp`: the machine, and the properties of the program on it |
| `Warmuprofile` | `index.js`: requests split at every `await`, database, sessions, restart; its properties and the inductive invariant `AccountInv` |
| `WarmuprofileProofs` | theorems about warmuprofile |
| `NetFS` | `server.py` of netfs1 and netfs2: accept loop, sessions, the alarms of `Timeout`; the inductive invariant `NetInv` |
| `NetFSProofs` | theorems about netfs |
| `BlogAPI` | `app.rb` of plain-blog: posts, likes, updates, puma's threads |
| `BlogPage` | `index.php` of plain-blog: the calls of `renderPage`, on top of `BlogAPI`; the inductive invariant `BlogInv` of both |
| `BlogProofs` | theorems about API and page |
| `MC*` | the instances TLC checks |

### The ring

`pc[n]` names the statement process `n` stands at; `slot[n]` is the `message_t` it writes and its
successor reads, `out[n]` the arguments of its latest `send_msg`, `calls[v]` the static counter in
voter `v`'s check function, and `phase`, `round` (`j / 8`), `peer` (`i`), `vote`, `wrong` are
`network_main`'s. `Fork` and `Attach` are `setup_network`; `Store` and `Wake` are `send_msg`
(the loop around `FUTEX_WAKE` is `Wake` being enabled only when the reader sleeps), `WakeError` a
`FUTEX_WAKE` that fails: `send_msg` returns 1 and no caller looks, so that the process goes on as
if its message had been heard; `Sleep`,
`Accept`, `Forward` and `RecvError` are `recv_msg`; `HandlePing/Flag/Rest` are `handle_message`;
`Handshake`, `CountReply`, `CloseRound`, `Announce` and `GiveUp` are the head. The comparison of
the return value with `EAGAIN` (instead of `errno`) is kept: any error of `FUTEX_WAIT` makes the
process leave. What a check function computes is reduced to the one chunk each of its cases
accepts (`Expected`, from the table `gen.py` draws).

### sharr

The file is modelled by its 4-byte words, and an access by two actions: `Seek(p)`, then one that
reads or writes at the shared offset `off`, wherever that is by then. `pc[p]` names the access.
Reading at the end of the file gives what the local variable held, i.e. any value. An index out
of the array's range is undefined behaviour and ends the core in `"undefined"`. SIGINT and SIGALRM
(only to the parent, `fork` clears the child's alarm) and a failing `calloc` may come at any time.

The code does nothing to keep an `lseek` and the access behind it together, and nothing in the
model does: the other process may run anywhere between the two, and move the offset. What this
costs is said with a history variable on top of the specification (`HistSpec`): `stray` counts the
reads and writes that were done where their process did not seek. Types, `FileBounded` and the
range of what the core computes with hold always. What the protocol promises holds until the first
stray access, so no other interleaving of the two processes, of the many there are, can break it;
the run `sharr_interrupted` shows that one stray access does.

### Report queue

A report goes through its form (`web[r]`), the list and the bot. A visit is five steps (launch,
open, browse, close, quit); a service is a record that says from which of them an exception is
caught and where it continues. Faults: an exception at any step, a failing or unanswered redis
call, an end of the bot's container (restarted), a crash of redis, which restarts from its latest
dump. Users, redis and captchas are external.

In scoreshare a report is about a score the user has uploaded first: `SetField` is one HSET of
`app.py:56`-`58`, in the order of the code, and `FieldError` one that fails, executed or not. The
scores are in another database of the same redis, so that one `Save` and one `RedisCrash` are
about both. `hurt` records that a fault happened the bot does not survive, `forgot` that redis has
lost a change of the list. A crash of redis takes every field stored since the latest dump: `torn`
are the scores it has taken a field of between two of their HSETs, which then go on and store the
rest, so that such a score may have its link and no title; `stale` are those it has taken a field
of between their upload and the report of them. `ScoreWhole` says that only the first kind is ever
seen with a link and without the rest, and only these two are ever listed without their whole score:
HSETs that fail, requests that are cut off between two of them, and crashes before the first or
after the report leave nothing half.

### brainjit

A block of machine code is a record at its address, with its length in bytes, its operand and
its jump distance, all computed as `compile` does; execution goes from address to address and
ends in `"wild"` where no block starts. The abstract interpreter has no addresses: brackets are
matched in the source. An unclosed `[` compiles, and its unpatched jump is the one way to
`"wild"`, which the interpreter has as a transition too.

### fvm

The whole program is there, instruction by instruction, and is assembled to addresses by `gen.py`'s
two passes; the machine goes from address to address. The registers are the x87's: a ring with a
top, an empty mark per register, a NaN when a load finds its register in use. A register holds an
address, a NaN, or a number of which only the characters it was computed from are kept, and for
the number of right checks how often cos was applied to 0, which is what the program itself uses
as a counter. A comparison with a number from the input may come out either way; one with a NaN is
unordered, as the flags that `sahf` takes over say. `ret` is only enabled with an address on top:
anything else ends the run, which `Halts` and `Returns` would show. Instructions the program does not
contain (`xch3` to `xch7`, `jae`, `jb`) are left out.

### warmuprofile

Each request is a record in a slot, advanced from `await` to `await`; between these, others run.
It works on the copy of its session that express-session loaded when it began. `Save` is the
response of a handler that has changed the copy (a login, or a flash message): the copy is
written back, over whatever other requests of the session have written since, and even after a
logout has destroyed it. `End` is `req.session.destroy()`. `issued` are the session ids given
out; a new request comes with the id of a stored session or gets a fresh one. An unhandled
rejection (`CreateFails`) ends node, and the container starts it with an empty database, an empty
store and another secret for its cookies. Profiles and passwords are not kept: a password is
right or wrong, and the admin's is a random UUID nobody enters.

### netfs

`srv` is the accept loop (`Accept`, `Fork`, `Close`, `Reap`), `held[p]` the connections process
`p` has a descriptor of, and `pc[s]` the statement a session stands at. `Enter` and `Exit` are
`with Timeout(n)`; `TimeOut(s)` is `handle_timeout`, which may raise at any statement inside one.
It ends the session, or is swallowed: by the bare `except` around `open` and by `except OSError`
around `read`, since `TimeoutError` is an `OSError`; from then on the only alarm of `serve` is
spent. The two editions differ in what a wrong password leads to: in netfs2 `timer.wait()`
switches the alarm off and waits for the time to be up (`late`). A client may hang up at any
time: `Broken` is a `send` or `recv` that raises because of it. The password is compared
character by character (`right`), which is all that is kept of it. `fork` and `accept` are taken
to succeed.

### plain-blog

A statement of `app.rb` is one step, because threads switch at branches only, under the
interpreter's lock: `Like`, `CheckLimit` and `Add` are the three parts of a like between which
others run. A like is of any amount of `Amount` with the admin's key, negative ones too, and of one
without (`key` of a job); a request has the key or not. An update replaces any field
of a post by a string, which `number` and `string` keep track of; with the key it may set permission
and flag. An update that adds a field no page reads changes nothing here.

The frontend is a client of it: a call of `renderPage` is a record with the local variables of the
loop (`k`, `data`, `posts`), and between `Get` and `Receive` its request is on the way. An entry of
`posts` says of each field a page shows whose it is. `isAdmin` and `content` are shared by all calls,
as in the page, and so is the prototype of the object `posts` (`proto`): `Proto` stands for the name
`__proto__`, for which `id in posts` is true without an entry, so that the fields of `data` are
written into what every entry of every call inherits. (Other inherited names, `toString` and the
like, are true for `in` as well, but what they lead to is a function no entry inherits from. Fields
of a post beyond those of the page, once inherited, are not modelled.) `Click` is a like button,
`Others` any other client of the API; a button sends what the page has shown, `Others` anything.
`missed` and `got` are history: the names whose answer was that there is no such post, and for each
field the ids it came with its type of.

## 3. Runs

| run | instance | shows |
|---|---|---|
| `ring` | 4 processes, 2 chunks, quorum 2, all flags over 2 values, up to 2 failing calls, fair | `OneMessage`, `InStep`, `SegmentsInUse`, the inductive invariant `RingInv` (types included), `PollSpec`: no fault leads to a wrong verdict; the real flag is never refused (`FlagAccepted`); and without a fault, the poll is got through (`PollProgress`), all processes exit (`Termination`) and leave only `last_id`'s segment (`LastOut`) |
| `sharr` | 2 entries, words 0..3, 2 values, signals and a failing calloc, up to 2 stray accesses, fair | whatever is interleaved, the file grows by a value at most (`FileBounded`); until an access goes astray, `SameRequest`, the inductive invariant `Handshake` (types and bounds included, these always), the refinement `ArraySpec`; and while nothing is killed either, every request is answered (`Answering`) and EXIT ends both, the core last (`BothEnd`) |
| `sharr_interrupted` | the same | a counterexample to `ServerDone` |
| `report` | 2 reports, one of an uploaded score, 4 services, 3 faults of any kind, fair | the inductive invariant `ReportInv` (types included), `OneBrowser`, `AtMostOnce`, `ScoreWhole`, and `TakenUp`: the bot takes up what the user was told is reported, unless it meets a fault it does not survive |
| `report_stuck` | ringtone, one page that throws, fair | a counterexample to `CheckedSoon` |
| `brainjit_impl` | every program of up to 4 characters (all ten kinds but a second unknown one) and longer ones with nested loops; bytes of 3 values, tape of 2 cells, buffer of 106 bytes | the inductive invariant `CodeInv` (types, that blocks tile the buffer and that the tape is never left, included), a syntax error is one (`Verdicts`), jumps pair up (`Paired`), `InterpreterSpec` |
| `fvm_program` | the program of `code.S`, all outcomes of its 20 conditional jumps, fair | `Returns`, `Operands`, `Verdict`, `Halts` |
| `netfs` | both editions, 2 connections, passwords of 2 characters, fair | the inductive invariant `NetInv` (types, and that a live session is among `ps`, included), `AlarmInside`, `NoEarlyVerdict`, `OwnConnection`; a session ends unless its alarm was swallowed (`SessionEnds`) |
| `plain_blog` | a sample and a new post, 2 threads, limit 2, likes of -1, 1 and 2, 2 calls of `renderPage`, 4 lists with repeated posts and the prototype's name, 4 acts of users, fair | the inductive invariant `BlogInv` (types included), `LimitKept`, `LikesAddUp`, `ShowsOwnPost`, `RendersEnd` |
| `warmuprofile_accounts` | 3 names, 2 session ids, 2 requests at a time, 3 accounts | the inductive invariant `AccountInv` (types, and that a session's name was an account, included), `DeletesWhatItFound` |
| `warmuprofile_delete_twice`, `warmuprofile_register_twice` | the same | counterexamples to `DeletesItself` and `NameIsFree` |

Why the bounds are enough to be interesting. Four processes give the ring a head, a tail, and two
processes that forward in both roles; two chunks give a round that is not the last; two faults let a
second one hit while the first is being handled. Two entries and the words 0..3 let an index be
mistaken for a command; two stray accesses let a second one hit a file the first has jumbled, and no
state behind them is explored, because every property about one is either excepted there or about
the file's size, which a theorem has for any number of them. Two reports let one wait while the
other is visited, and three faults are enough for a lost reply, a crash of redis and an exception in
one visit. The programs of brainjit contain runs longer than a byte's range, unmatched brackets, and
programs that fill the buffer exactly, overflow in a block, or only in `emit_leave`. The run of fvm
has no bound: it is the program itself, on every sequence of outcomes. Two requests are the smallest
number that overlap, two session ids let them be of one session or of two, and three accounts let a
name be deleted and made again. Two connections let one be accepted while the other is served, and a
password of two characters has a right first one before a wrong one. In plain-blog two likes of two
threads overlap just below the limit, of amounts that raise a number by more than what is left, by
one, or lower it; two calls of `renderPage` meet with lists that mix and repeat the posts, of which
one may not exist yet, and one of which fills the prototype; four acts let a post be created,
changed and liked while a page is loading.

`CHECK_DEADLOCK FALSE` is set throughout because all of these programs do stop: the ring exits,
sharr ends on EXIT, a bot can be stuck, a program finishes, the machine halts, an instance runs
out of accounts, of connections or of users' acts.

### Fairness

- fvm: `WF(Next)`, a machine that runs; input ends, so `get` always returns.
- Ring: `WF(Run(n))` for every process and `WF(Head)`: the kernel schedules each of them, none is
  asked to win a race. Failing calls are never required.
- sharr: weak fairness of each process, be it at an `lseek` or at the access behind it: the kernel
  schedules both, and neither is asked to win a race. Nothing requires the user to enter anything.
- netfs: `WF` of the accept loop after an accept, of what a session does on its own, and of the
  alarms: the kernel runs the processes and clocks go on. Clients owe nothing, neither input nor
  reading: what a session sends before it is served (prompts and verdicts) fits into the socket's
  buffer, but a file or an error in `serve` may find it full, so sending there is not fair.
- plain-blog: a request is answered or fails (`WF` of `Get` or `NoAnswer`), and the page's event
  loop goes on (`WF(Receive)`). Users and the API's other clients owe nothing.
- Report queue: `WF(Bot)`, i.e. the bot's event loop goes on and its container is restarted
  (`restart: always`). Faults, users and save points are never required.

## 4. Findings

1. `sharr_interrupted`: `pwn/sharr/challenge/main.c:114` says of the menu `/* Server process done */`.
   The core's own `read` of the command, in `WAIT_REQUEST`, may come between the interface's `lseek`
   and `read` in `WAIT_RESPONSE`. It moves the offset past the command; the interface reads the
   padding behind it, which is 0, takes it for `CMD_WAIT`, and shows its menu while the core is
   still to serve the request.
2. `report_stuck`: `web/ringtone/distfiles/report/app.py:39` answers `Admin will check it soon.`, but
   one visit that throws skips `setTimeout(handle, 10)`: the process lives on and takes nothing.
3. `warmuprofile_delete_twice`: `index.js:213` says `general user can only delete itself`; when
   the account is gone already, the condition is empty and every account is deleted.
4. `warmuprofile_register_twice`: `index.js:158` `make sure that the requested username does not
   exist`; two overlapping requests both pass, and the second `create` ends the server.

One more disagreement has no run that stops at it, because the property checked says how far it
goes: `web/plain-blog/task.yml:6` says `The maximum number of likes is 5,000`, and two likes of two
threads that both pass the check of `app.rb:124` before either adds get a post past it. `LimitKept`
is the bound that does hold, `MAX_LIKES` and one request of each other thread, whatever the amounts
are (`Most` is the largest anybody asks for). The page has another: the list `a,__proto__` puts the
fields of post `a` under all entries of all calls, where a missing post then shows them.
`ShowsOwnPost` says precisely what a page may show, this included.

## 5. Proofs

All theorems hold for every value of the constants that satisfies the modules' named assumptions.

**Ring** (`RingProofs`, from `N >= 2`, at least one chunk, any quorum, any table of cases, any
number of faults). `RingInvariant`: `Spec => []RingInv`. Neither `OneMessage` nor the agreement of
the counters is inductive alone: that a voter may count is known only from the message it holds, and
what that message is only from where it is in the ring. `RingInv` says this as one formula: the
process that is active holds a question upstream of its addressee or an answer downstream of it
(`UnderWay`), the voters before `peer` are one call ahead (`Counted`), and the tallies are
cardinalities of sets of approving voters (`Tallied`). There is a lemma per action and part. From it
follow `TypeCorrect`, `Exclusive` (`OneMessage`), `Synchronised` (`InStep`), `Accepting`
(`FlagAccepted`) and `Implements` (`PollSpec`: the ring implements `FlagVote`, with faults).
`SegmentsInUse` and `LastOut` need no message, only the order of births and exits, which is the part
`Exits`: a process is made after the one before it (`Bearing`) and finds what it attaches
(`Provided`); it removes its segment only when its child is gone (`Childless`); and as long as no
call has failed, whoever is behind a process that leaves has left, and exactly the segments of the
processes that run exist (`Orderly`). From it follow `SegmentsKept` (`SegmentsInUse`, with faults)
and `HeadIsLast` (`LastOut`). `NobodyStuck` is the safety half of `Termination`: while no call has
failed, the processes are done or one of them can take a step (`NeverStuck`; `Waits(n)` lists what a
process may have to wait for). Deadlock freedom needs to know where the next step comes from, which
is `Moving`: a process not made yet has somebody before it who is about to fork (`Born`), until QUIT
nobody leaves and somebody has the message (`Polling`), and from then on QUIT divides the ring into
those before its holder, who are leaving, and those behind, who are not (`Quitting`). When all are
leaving, the last of them waits for nobody: that there is a last one is the least-number principle.
`VerdictOfTheFlag` says the refinement's result directly: a verdict is the poll's of the flag,
whatever calls have failed.

**sharr** (`SharrProofs`, any array size, words and values, every interleaving of every `lseek`,
`read` and `write`, with signals and a failing `calloc`). `HandshakeHolds`: `HistSpec =>
[]Handshake`. `Handshake` has what no interleaving breaks (`TypeOK`, `FileBounded`, and `Usable`,
that the core gives the value of an entry of its array: with any other index it is in `"undefined"`
by then), and, as long as `stray` is 0, `IfaceLine` (what the interface's position says of request
and file) and `CoreLine` (the core's position implies that the interface waits, and for this
request). These two are preserved only together: the core reads a valid index because the interface
wrote it before the command, and the interface still waits because only the core writes `CMD_WAIT`.
`FileBounded` needs a count of what is still due: a process between `lseek` and access may move the
offset by a value more (`Due`). From it follow `FileStaysSmall` (`FileBounded`), `DoneUnlessStray`
(where `ServerDone` fails, an access has gone astray before: finding 1 has no other cause),
`ServesTheRequest` (`SameRequest`), `IndexInBounds` (`InBounds`) and `ImplementsArray`
(`ArraySpec`): the assignment to `arr`, or for a show the write of the value, is where a request
takes effect. `CoreLast` is the safety half of `BothEnd`: the core leaves its loop only behind an
interface that has ended, and the process that started both ends last, unless `calloc` failed, a
signal came or an access went astray.

**Report queue** (`ReportQueueProofs`, any reports, scores, number and kinds of faults, any subset of
the four services). `ReportInvariant`: `Spec => []ReportInv`. That the counter of visits is at most
one is not inductive: a second visit is excluded because the report is nowhere else when the first
one happens. `OnePlace` says this: the list has no report twice, one that is on the list is neither
with the bot nor visited, and one that is with the bot has left its form. `OneBrowser` is
strengthened to say for every position of the bot how many browsers are open. `ScoreWhole` needs
`Uploads`: how far an upload has got says exactly which fields are stored, and the same of the
dump, where a report is never without its score because one save takes both. It is said of the scores
that no crash of redis took a field of before they were reported, and `Remains` says what is left of
those that were complete by then: they have no link any more, or all of their fields.
From it follow
`NoBrowserLeft` (`OneBrowser`), `VisitedOnce` (`AtMostOnce`) and `ScoresWhole` (`ScoreWhole`).
The other direction, that a report is not lost, has no invariant with faults; it is about steps.
A report is `Missed` when its user is told it is made and it is neither listed nor with the bot
before the end of `browse`, neither visited nor refused by the bot's check. `MissedOnlyByFault`:
it becomes so only in a step in which redis forgets it, the bot's process ends, or the visit throws
before or at the page; PING, RPUSH, HSET and BLPOP may fail, and pages and browsers refuse to close.
`StopsOnlyAtFault`
is the safety half of `TakenUp` and delimits finding 2: the bot is left unarmed only by a BLPOP that
failed, or by an exception at a step that its service has in no `try`.

**warmuprofile** (`WarmuprofileProofs`, any users, session ids, overlapping requests and accounts).
`AccountInvariant`: `Spec => []AccountInv`. Its part `SessionKnown` alone says nothing of the copies the
requests hold; `Requests` says that what a request may write back is a name from a session, one it
has found, or one it has created, all of them known. `Rows` says that ids are given out in order
and id 1 is the admin's. From it follow `OnlyKnownNames` (`SessionKnown`) and `DeletesFound`
(`DeletesWhatItFound`): a restart that leaves `made` unchanged finds no account but the admin's and
removes none, so an account that vanishes alone is destroyed by a request, with a condition that
compares every field of the row it had found.
`DeletesOwn` delimits finding 3: in every step, an account vanishes only in
a restart, in a delete by its own user or admin that had found this very row, or in a delete that
found nothing, and the last is the finding. It rests on `Owners`: a request that deletes has the
name it is to delete from a session that may.

**netfs** (`NetFSProofs`, both editions, any number of connections, users and paths, passwords of
any length). `NetInvariant`: `Spec => []NetInv`. The alarm, the verdict and the login are
local to a session, and `NetInv` says of each statement of a session what they are there: what the
client has been told (`Verdicts`), whether the delay is over (`Delayed`), how much of the password
is right (`Compared`), whether an alarm may be on (`AlarmInside`). Descriptors and children are the
only state sessions share with the accept loop; `OwnConnection` needs that a session not yet
started holds none (`Fresh`). The proof splits the invariant into what is kept of the server and a
part per session (`Parts`), so that a step of one session is checked against itself only. From it
follow `AlarmsCaught` (`AlarmInside`), `RefusedLate` (`NoEarlyVerdict`), `ConnectionsEnd`
(`OwnConnection`) and `ServedWithPassword`, which no run states: whoever is served has given the
whole password, through whichever guesses, waits and timeouts. `ClockRuns` is the safety half of
`SessionEnds`: at every statement where a client can hold its session up, the alarm is on, except
that a client who is logged in may have lost the only one of `serve` to an `except` around `open` or
`read`. It takes three facts at once, of `pc`, `alarm` and `auth` (`Clocked`), on top of `NetInv`.

**plain-blog** (`BlogProofs`, any posts, threads, limit, amounts of likes with any upper bound
`Most`, calls of `renderPage` and lists). `BlogInvariant`: `Spec => []BlogInv`. The limit alone is
not inductive, because an addition does not look at it: `RoomFor` says, per post, that of the
threads past the check one has room for its own likes and all the others for `Most` each. When a
thread passes the check, it becomes this one; when any of them adds, the room of the others stays.
`Permitted` says who may add more than one, and that a sample cannot be liked. Of the page,
`GoodCall` says for each call by itself what its entries may have: of the posts it has got, their
own fields (`Own`), and of a missing one those of a post before it in the list (`Copied`). `Under`
says that the prototype has what some call has put there, and once a call has got a post, the API
has it for good (`Served`), so that an entry of a post is not taken for one of a missing name later.
`Shown` ties the content to the call that filled it. From it follow `LimitIsKept` (`LimitKept`) and
`OwnPostsShown` (`ShowsOwnPost`). `LikesCounted` (`LikesAddUp`) is about steps: whatever is under
way, a number changes by a job past its check, by its likes, and the job is over.

**brainjit** (`BrainJITProofs`, any programs, bytes of any number of values, tape and buffer of any
size). `CodeInvariant`: `Spec => []CodeInv`. The compiler makes one pass, so what it has made so far
must be described from the blocks and not from the program's structure: `Translated` says that every
block stands for a run of equal instructions and that the block behind it stands for the next ones
(or is not there yet). `Nested` is the stack of open brackets, in terms of counts: from the `k`-th
open bracket on there are `Len(jumps) - k + 1` more `[` than `]`, and never fewer than one more.
This is what makes the top of the stack the bracket a `]` closes, and different from all others.
`Loops` says that every `[` is on the stack or joined to its `]`, `Checked` that no `]` so far is
unmatched, `Machine` that execution is at a block and on the tape. That a run of instructions has a
length at all is the least-number principle, from the library's well-foundedness of `<` on the
naturals. From the invariant follow `LoopsPaired` (`Paired`) and
`Simulates` (`InterpreterSpec`): a round of the compiler is a stutter of the interpreter or its
refusal, completing the code is its start, and a step of the machine is one of its steps. The
operand of `+` and `-` is taken modulo a byte there, which makes no difference by `Wraps`; a `[`
that is still on the stack has no `]` in the source (`NeverClosed`), and its unpatched jump
leads to the last byte of its own block, where no block starts (`NothingInside`). No induction over the
program is needed, because both sides go step by step.
`DecidesLegal` (`Verdicts`) is about the source: what the compiler reports as a syntax error is an
illegal program, and what it runs is a legal one. Its invariant (`Sources`) is that every `[` so far is
on the stack or matched by counting, from which follows that a `]` with an empty stack closes
nothing. That a `[` matches one `]` at most in the interpreter's counting, in any source, is a lemma
on the way (`ClosedOnce`).

Only model-checked: liveness (`PollProgress`, `Termination`, `Answering`, `BothEnd`, `TakenUp`,
`SessionEnds`, `RendersEnd`, `Halts`), because fairness and `ENABLED` are outside what the prover
handles; of four of them the safety half is proved (`NobodyStuck`, `CoreLast`, `StopsOnlyAtFault`,
`ClockRuns`). And fvm's `Returns`, `Operands` and `Verdict`: they are about one program without
parameters, so TLC's run, which visits every state, is the whole statement; a proof would have to
compute the addresses of its instructions, which the assembler finds by folding over the source, and
the prover cannot evaluate a fold. What `Count` and `RunLength` compute is stated by sets and a
choice, not by recursion, so nothing else had to be left out for want of induction over data.

## 6. Not modelled, and why

`PROJECT.json` lists every part. By far the longest file, `rev/topology/challenge/main.c` (104522
lines), is what `gen.py` writes: `template.c` and, for each process, a check function with one
case per chunk. The code of `template.c` is modelled line by line, and the cases by the table of the
chunks they accept; the arithmetic within a case is one random expression like the next. The crypto
servers, `mimikyu` and the floating-point arithmetic of `fvm` are mathematics on numbers a model
checker cannot enumerate; `decompile_me` is one run of RC4 over a fixed input; `jqi`, note rendering
and the templates are string processing; `aush`, `qjail` and `himitsu` are straight-line code or one
assignment per command; `flipper` is two commands under one mutex. Two hazards are listed without a
property: neko-note's map without a lock, whose race ends the process, and the pointer into a list
in `wise`, whose value after the list has moved is the allocator's doing. The solution directories
are not part of the programs.

## 7. Plan

Done: ring, sharr, report queue with scoreshare's uploads, brainjit, warmuprofile, fvm, netfs,
plain-blog with its frontend (the ones with real concurrency first); the proofs of ring, sharr,
report queue, warmuprofile, netfs, plain-blog and brainjit, each with its safety properties and
refinements.

Open: a program counter symbolic enough to reason about fvm's machine apart from its one program,
the only part whose safety rests on a run of TLC alone; and `Termination` and `SessionEnds` by proof,
when the prover learns fairness: the safety halves above are what such proofs would start from.
