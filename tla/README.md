# A TLA+ verification of cmoon

cmoon is a C framework for web applications with two sites built on it. Its core is
the *event layer*: a daemon that buffers requests and hands them to plugins, the
library its clients use, and the in-memory cache the plugins keep. On it stand *pop*,
a live chat between the visitors of a site and its administrator, and *dida*, which
collects offers of rides from other sites and lets visitors search them; much of both
runs in the browser, where callbacks arrive in any order. This directory holds TLA+
modules that model these parts, TLC configurations that check them on small instances,
and proofs for the TLA+ proof system (TLAPS) of facts that hold for every size. Paths
below are relative to the repository.

## The system

| part | state | operations | how it interacts |
|---|---|---|---|
| queue (`event/daemon/queue.c`) | a linked list: `top`, `bottom`, `size`, per entry `prev`; a mutex and a condition | `queue_put` (back), `queue_cas` (front), `queue_get`, `queue_free` | one per plugin, between the network thread and the plugin's thread |
| daemon (`parse.c`, `mevent.c`, `net.c`, `main.c`, `reply.c`, the replies of `tcp.c` and `udp.c`) | the table of plugins, per plugin a queue, a thread and `loop_should_stop`; `settings.passive` | parse a message, refuse or queue it; the worker loop; SIGTERM, SIGUSR2; shutdown | libevent calls it on a message or a signal, it calls the plugin |
| TCP front end (`event/daemon/tcp.c`) | per connection a static buffer, `buf`, `pktsize`, `len`, `excess` | accept, `tcp_recv`, `process_buf` | cuts the byte stream into messages for `parse_message` |
| UDP, TIPC, SCTP front ends | none | one datagram is one message | the same |
| clock and timers (`common.c`) | `current_time`, per plugin a list of timers | `clock_handler`, every second | calls the plugins' timers in the network thread |
| cache (`lib/mevent/cache.c`, `daemon/syscmd.c`) | per bucket a doubly linked chain, most recent first; entries with a time limit | `cache_get`, `_set`, `_cas`, `_incr`, `_del` | private to one plugin's thread |
| client library (`lib/mevent`) | servers, `g_reqid`, the two data sets of a request | `mevent_init_plugin`, `mevent_trigger` | sends a request, waits for the reply of a synchronous one |
| watchdog (`hb.c`) | a counter of tries | ask for statistics, kill and restart the daemon | a client of the daemon |
| plugins (`pop/xport/plugin`, `dida/xport/plugin`) | a database connection, a cache, counters | one command each | called by their worker, reply through `reply_trigger` |
| utility library (`lib/mnl`) | database transactions (`mdb_begin`, `mdb_finish`), memcached | | used by plugins and applications |
| web push module (`deliver/v`) | users, channels, on-line counts per remote server | commands of the APE server, UDP messages | a client of the daemon |
| rides of other sites (`dida/fly/js/admin/spd`, `dida/walk/ospd.c`, `mevent_plan.c`) | the table of plans with their state; per page a copy of a plan | spiders post, the robot looks places up and confirms or rejects, a moderator corrects, confirms or deletes | pages and server through asynchronous requests |
| ride search (`dida/fly/js/index.js`, `plan_cmd_plan_match`) | `o.plan`, `o.mplans`, `_pnum`, `_pcur` and what is shown | choose an end, search, turn over, leave a plan | asks the map service and the plan plugin |
| chat widget (`pop/fly/js/ape/app/bmoon.chat.js`, `livecs.js`) | what is shown, the handlers bound, the cookie `lcs_ui`, the pipe | open, close, minimise, send, receive; change of page | raws of the push server |
| chat desk (`bmoon.chatb.js`, `livecsb.js`, `oms/oms.js`) | a box per visitor, who is on, the open one, `lcsCurrentPipe` | open, send, scroll for old messages, remove a visitor | raws of the push server, answers of the web server |
| word splitter (`lib/eii`) | a bitmap of known words | `ediv_word_split` | none |
| other pages, CGI programs, phone clients, grabber, memorypark | | | clients of the plugins; not part of the core |

What is hard here, with the line it happens at, is the list of hazards in
`PROJECT.json`. In short: the network thread and a worker share a queue and read
its size without the lock; the signal is sent after the unlock and only for some
requests; the shutdown races both with arriving requests and with a worker inside
a plugin; a TCP stream arrives in any pieces; the client has to find its reply
among late, doubled and coalesced ones; the cache relinks a chain on every access
while values expire. In the browser a callback does not know what happened since its
question: a newer choice, another search, another page, a plan settled by somebody else.

What makes each part correct:

* queue: the pointers are one chain of exactly the waiting entries, and `put`,
  `cas`, `get` are those of a double ended line;
* daemon: one thread at a time in a queue; a bounded queue; one reply per request
  and, until the shutdown, a reply to every synchronous one; no synchronous
  request asleep; the promised order; a slow plugin harms no other, and only
  synchronous requests without end keep one waiting; SIGTERM ends the daemon;
* TCP front end: the messages parsed are the messages sent, no buffer overrun, no
  good client cut off;
* cache: a value is found until it expires, is deleted or is the least recently
  set of a full bucket;
* client: the reply a caller gets is the reply to its request;
* rides: one plan per post; what is confirmed is measured, from one pair of places; a
  decision is final once nobody holds an older copy; the robot goes on asking for plans
  whatever happens to its lookups;
* ride search: what is shown exists, has one verdict and describes one choice;
* chat: the widget does what it shows and comes back as it was left in a directory, the bar
  blinks for the unseen messages of a page, no message goes to the wrong person, old
  messages come in order;
* plugins: what the cache holds is what the database holds, a transaction ends
  with its command.

## Modules

| module | models | uses |
|---|---|---|
| `Heap` | the addresses of entries and the null pointer | |
| `QueueSpec` | what a queue promises: a double ended line | |
| `Queue` | `queue.c` pointer by pointer, entries recycled by malloc with any content | refines `QueueSpec` |
| `Mevent` | the daemon: network thread, workers, signals, shutdown | |
| `MeventLive` | fairness and liveness of the daemon | extends `Mevent` |
| `MeventProofs` | types, mutual exclusion, the bound of the queues, order of service, wakeups, draining, one reply | TLAPS |
| `TcpFraming` | `tcp_recv` and `process_buf`, byte by byte | |
| `TcpFramingProofs` | its buffers, and the stream of a client that waits | TLAPS |
| `MeventClient` | `mevent_trigger`, `udp_get_rep`, `tcp_get_rep` | |
| `MeventClientProofs` | proofs about `MeventClient` | TLAPS |
| `CacheSpec` | what a cache promises: a line of remembered values | |
| `Cache` | `cache.c` pointer by pointer, one bucket | refines `CacheSpec` |
| `ListProofs` | proofs about `Queue` and `Cache`, the two linked lists | extends both, TLAPS |
| `Spd` | the table of plans, spiders, robot, moderator, and changes under way | |
| `SpdProofs` | proofs about `Spd` | TLAPS |
| `PlanPage` | the page of the ride search and `plan_cmd_plan_match` | |
| `PlanPageProofs` | proofs about `PlanPage` | TLAPS |
| `ChatBox` | the widget on the visitor's pages | |
| `ChatBoxProofs` | proofs about `ChatBox` | TLAPS |
| `ChatDesk` | the operations of the administrator's desk | |
| `LiveChat` | the desk with the visitors and the push server | composes `ChatDesk` |
| `LiveChatProofs` | proofs about `LiveChat` | TLAPS |
| `MC*` | instances for TLC | |

### How state and actions correspond to the code

**Queue.** A heap of `Entry`; `top`, `bottom`, `size` and `link` (the entries' `prev`) are the fields.
Its initial states, steps and specification are `QueueInit`, `QueueNext` and `QueueSystem`, so
that one module can reason about both linked lists.
`queue_entry_create` takes any free entry and writes the fields the code writes:
every other field is whatever its last use, or the heap, left there. The worker holds
the entry it removed until `queue_entry_free`. `line`, the entries in the order they are due,
is a history variable: `QueueSpec` says how it may change and `LineIsChain` ties it to the pointers.

**Mevent.** `npc` is the network thread's place in `put_in_queue_long` and in the
shutdown, `wpc[p]` the worker's place in `mevent_start_base_entry`. A handler that
touches nothing shared is one action; the others are cut at every access to shared
state: the two reads of `size` without the lock (`size_over_max`, `size_is_step`), the
lock, the insertion, the unlock, the signal; in the worker the lock, the wait, the
return from it, the removal, the unlock, the test of entry and flag, the plugin's
work. A queue is a sequence of request numbers, which `Queue` justifies. What a
message carries is left out: a message is refused, is a statistics query, or is for
a plugin, with FLAGS_SYNC or without. `Faults` says which of a failing malloc, a failing
send, a failing timed wait, SIGTERM and SIGUSR2 may happen. A condition variable may wake
spuriously.

A reply is `Reply`, which stands for `reply_mini` and `reply_long` down to `rep_send`. A passive
server withholds it (`unsaid`). An active one tries a send that would block again: on Linux
EAGAIN and EWOULDBLOCK are one number, so the test of `tcp.c:123` is only true of the other
errors. After one of those `rep_send` drops the rest of the reply and calls itself with the bare code
REP_ERR_SEND, again and again. This ends with one whole reply sent, the first
one or an error in its place, perhaps behind a piece of the first (`torn`: the client cannot read
it); or with the daemon dead, of SIGPIPE, which `net.c` does not catch, or of the recursion.
`tcp_reply_long` also writes to the memory it asked for without looking whether it got any.
So a request never gets two whole replies, and `OneReply` says so, together with its converse: no
synchronous request is lost, neither in a queue nor in somebody's hands and yet unanswered, as long
as the daemon lives and has not begun to free its queues. After `stop_driver` a worker that is still inside the plugin goes on or
brings the daemon down: both outcomes are modelled.

**TcpFraming.** The stream is a sequence of bytes, each the i-th of its message; the
length field is read from the first `HDR` bytes, and bytes of a message read as a length
give any value. `recv()` returns any prefix of what has arrived. The recursion of
`process_buf` is a step of its own on the same state. `parse_message` refuses what is
shorter than `PARSEMIN` (17 bytes and the length field) and `process_buf` then closes the connection. `tcp_recv` is cut in the
code's own way: the first piece, a continued message, the end of the connection.

A client has at most `window` messages under way, chosen at the start from `Windows`: one
for a client that waits for each answer, more for one that does not.

**MeventClient.** One process with its counter `g_reqid` and a socket per server. A call
has a number, which the code does not know, besides the id it puts into its request; a
reply carries the number of its call, and the test of the code compares the ids. `Answer`,
`AnswerTwice` and `Loss` are the daemon and the network: any order, any delay. A reply
on a stream arrives whole or as a head and a tail; `recv_msg(k)` reads k such pieces, as one
`recv()` may, and throws away what it read behind the message. A time-out inside a
message, or a `recv()` that ends inside one, leaves the stream astray (`cut`): what is read
from then on is an error, garbage or skipped. SCTP and TIPC are read like UDP. A server
is any of the list: `select_srv` depends on the key only. A connection that the daemon closed
is, for the call that meets it, the same error as a time-out.

**Cache.** One bucket (buckets are independent) with `first`, `last`, `len`, and per entry
`prev`, `next`, key, value, time limit. Operations run to completion: a cache belongs to
one thread. The clock is the daemon's `current_time`, which starts at 0 and then
jumps to the time of day. The refinement maps the chain to a line of (key, value,
limit), and `CacheSpec` says what a get, set, cas, incr and del do to the line,
without pointers.

**Spd.** A row of the table is a record: the post it came from, its state, its two places
and what was computed from them; a place is a number, the distance their difference. A
spider's window, the robot's lookups and the moderator's page hold copies of a row as the
scripts do, and write back the columns of `UpdateCol.plan`. Changes are posted with
FLAGS_NONE, so they are a bag from which any may be served next, or be lost. The robot's
question for plans is an action, and so is its answer, its refusal, after which the robot asks
again in a minute, and its loss: `$.getJSON` has no error handler, so the robot is then
`stopped`, until somebody loads its page again. Its
callbacks are one action per answer; what happens inside one callback is one step, and the
answers of a lookup that only change that lookup's own copy are merged with the step that
uses them. The cities of plans nobody confirmed are not kept (no property or guard reads
them), nor are the texts. Rows are independent, so one post, sent any number of times, is enough.
`Spd` is written from `58.js`, `robot.js` and `post.js`; the other spiders and `robot-g.js`
repeat them for other pages and another map service.

**ChatBox.** `shown`, `bound`, `lcs_ui`, `rendo` are the display of the three parts, the
handlers of the bar, the cookie and the variable of that name. A site's options are
chosen at the start. `GoToPage` throws the page away and runs `initUI` and the script's
start on what the cookie and the push server kept. The cookie is set without a path: it
belongs to the directory of the page (`Dirs`), and a page reads the first one that is set
on its `Path`, from its own directory up. The timers of `closeChat` and of the
hint are steps of their own. The administrator comes and goes in numbered sessions.
`unread` tells the messages of this page that were not on the screen ("here") from those of
earlier pages ("before"), which only the old messages of `onRecently`, if the site wants them and the
window is open, bring to the eye.

**ChatDesk, LiveChat.** Per visitor a box with what is marked, fetched, asked for and
shown. Raws are an ordered stream to the desk; answers to `getMessage` and to the removal of a
visitor come in any order, or fail. The messages stored with a visitor are numbered, and `msgset`
adds to them at any time. A page is an offset: `Messages` is the window of `Npp` messages (15 in
the source) that `ORDER BY intime DESC LIMIT .. OFFSET ..` selects from those stored when it was
read, which may be long ago, since the plugin keeps each page in its cache and a new message does
not remove it ("cache removed by timeout, not here", `mevent_msg.c:154`). `getMessage` counts a page when
its answer comes; a page without messages leaves `data.raws` out and is not counted. The desk takes the
number of messages from `data.ntt`; the macro that writes it, `MMISC_PAGEDIV_SET_N`, is not in the
repository and other scripts read `_ntt` (`bill.js:74`), so both are modelled (`named`): with the
other name the desk never knows the number and never stops asking. What is shown as it comes
and what is read later from the table are not told to be the same message.

**PlanPage.** The choices of an end are numbered, and an address, a point or a city is the
number of the choice it answers. Map and server answer in any order or fail. The search is a
function of the rows its three queries find; any rows may be found. History variables
(`trouble`, `clean`, `crossed`, `toggled`) say when the visitor chose or searched anew before
the last answers were in: the properties hold for the others, and each exception is real.
`result` and `noresult` are elements that jQuery fades: `fadeOut` leaves one on the screen, and its
links alive, until `FadeEnds`, and a `fadeIn` that comes meanwhile waits for that end. The plans
are gone at once, so a click on a link that fades out asks for a plan that is not there: it throws
before it changes anything.

## Runs

| run | bounds | shows |
|---|---|---|
| `queue` | 4 entries | the pointers are the chain of the waiting entries, in every order of operations and with any garbage; refinement of `QueueSpec` |
| `daemon_safety` | 2 plugins, 3 messages, limit 0, step 2, every fault, 1 reply torn or withheld | mutual exclusion, one reply per request, also over failing sends, and none lost, a worker drains what it saw, the queue stays bounded although the busy test reads its size twice without the lock, no lost wakeup, the order of service |
| `daemon_slow_plugin` | 2 plugins, endless messages of which 2 are under way at a time, limit 0, step 2, one plugin may hang, failing malloc | every synchronous request to the other plugin is answered, out of memory or not, every asynchronous one served, unless synchronous ones overtake it without end |
| `daemon_shutdown` | 2 plugins, 1 message | SIGTERM ends the daemon |
| `tcp_stream` | messages of 3, 4 and 5 bytes, the first too short to be parsed, windows 1 and 3, failing malloc, close | one at a time: each message parsed whole, in order and eventually, no client cut off whose messages are long enough; several under way: buffers and counters stay in bounds whatever is misread |
| `tcp_lost_message` | violation | two messages in one `recv()` |
| `client` | a datagram and a stream server, 4 calls, ids up to 3, 1 doubled reply, every fault | every call returns; its own reply until the counter starts again or the stream is astray; a reply is thrown away only where a call was given up before |
| `cache` | 4 keys, 4 entries, room for 2, limits 0 and 1, clock to 2 | the chain stays whole while entries are moved, evicted and expire; refinement of `CacheSpec` |
| `spd` | one post, whose window is loaded again and again, a place found near and far, 1 lookup and 2 changes under way | one plan per post, confirmed plans are measured consistently, no long ride that repeats is confirmed by the robot, decisions are final, the robot keeps asking unless the answer to its question for plans is lost |
| `plan_page` | 4 plans, limits of 2, 2 choices of each end, 2 searches at a time | links lead to plans or fade out, one verdict per search, an end at rest is one choice, the plan left is the one sought |
| `chat_box` | 9 sites, 2 directories, one inside the other, 2 sessions of the administrator, 2 timers of notices or of closing | the bar toggles, a directory restores what was left in it, the bar blinks for the unseen messages of the page and nothing else, the hint is true, messages go to who is there |
| `live_chat` | a listed visitor with 3 or 4 messages stored and a new one with 0 or 1, 2 on a page; 2 sessions of each, 2 raws or requests under way; sessions begun, messages stored and pages shown 3 together, or any number where nobody comes | who is on, whom the administrator writes to, what is unread, what of the old messages may come twice or not at all |

`TypeOK` of `Mevent` and `MeventClient` is an invariant of their runs; in the other modules it is a
conjunct of the property about the structure it belongs to (`RoomForTheRest`, `ChainWellFormed`,
`OnePlanPerPost`, `LinksLeadToPlans`, `BarToggles`, `OnlineListed`), and in `Queue` it is proved with
`LineIsChain`.

**Why the bounds are enough.** Four entries let every kind of list (empty, one,
two, several) be left in every way, with a free entry to recycle. Two plugins are
enough for what one may do to another, as plugins do not know of each other (the
theorems below are for any number). The limits let
the queue pass the limit, be refused at the multiples of the step and be let through between
them; with a step of two a queue holds two requests, so that one overtakes another. No reply depends on
another, so one that is torn or withheld is enough (a second one is checked, but not what follows it).
For the
liveness runs `NumberFreed` gives the number of a finished message to a new one, so that messages
never end and `MaxReq` bounds only how many are under way. The messages of the stream are just longer than the length field, so that a cut falls
at every place inside and outside it, and the static buffer holds more than one message.
In the client four calls and ids up to three make the counter start again once with a
call of every earlier id to be mistaken for. A bucket whose chain may exceed its room by
the entry being added has a first, a middle and a last entry, and a fourth key to evict
one. Two numbered choices, sessions or searches are what it takes for a late answer to meet
a newer one; two requests, two raws, or one of each under way can overtake each other or meet a change of
state between them. The cap on sessions, stored messages and pages together in `live_chat` keeps
three events of any kinds, and the pages of one visitor, which do not depend on sessions, are
explored without it. Three messages on pages of two have a full page and another with a rest, and
a fourth moves them. Two directories, one inside the other, have a cookie each, and the
inner one reads the outer one's while it has none. Four plans and limits of two let the first query find too few, enough
and too many, overlap with the second, and leave something to take out.

**Fairness** (`MeventLive`). The network thread goes on with what it started (weak); a
worker goes on with its loop (weak); a timed wait ends (strong: a wakeup may cut it
short, the deadline set before the loop still passes); a thread that wants the mutex gets
it (strong: the other one holds it for a few instructions between waits of a second or
between messages). Nothing is assumed of messages, signals, failures, nor of a plugin in
`Slow`. Messages may come without end, and a worker that finds a new synchronous request whenever
it looks leaves what is behind it waiting: TLC shows this without the exemption `Overtaken` of
`SyncAnswered` and `EventuallyServed`. In `TcpFraming`, bytes sent arrive and the loop reads what arrived. In `MeventClient`
the client reads what its socket holds, and a `recv()` on an empty one ends
(`net_timeout` or `non_block` of the configuration; with neither it may wait for ever, which
is what a lost datagram then does). In `Spd` the robot's page stays open, its timers fire and its
questions for plans are answered, refused or lost; its lookups may fail, throw or never be
answered.

**Deadlock** is checked except where the system may stop: in `daemon_safety`, where a
failing timed wait makes the worker lock a mutex it holds (`mevent.c:67-73`: the comment
there takes the lock to be released; the errors in question, EINVAL and EPERM, do not occur
with the arguments used), in `TcpFraming`, where a connection ends, and in `MeventClient`,
where the calls are counted.

## Findings

`tcp.c:453`: the recursive call passes the length of the message just parsed instead of
the number of bytes left over (`tcp_lost_message`). A client that waits for each answer
does not meet it (`tcp_stream`).

Further disagreements are stated as properties beside the ones that hold; no run repeats
them. Naming one as INVARIANT of a configuration of its module gives the trace:

1. `AnsweredBeforeExit` (`Mevent`, the constants of `MCMeventSafety.cfg`):
   `mevent.c:78` tests the flag after the queue was released. A synchronous request that
   arrives between the two, before SIGTERM, is freed with the queue and its client never
   answered. What does hold is `ExitedDrained`.
2. `ResourcesWhileProcessing` (`Mevent`, the same): `mevent.c:102` runs `stop_driver` before
   `pthread_join`, so a plugin loses its connection and cache while its worker may be in
   `process_driver`.
3. `OwnReply` (`MeventClient`, the constants of `MCMeventClient.cfg`): after 0x0FFFFFFD requests `g_reqid`
   starts again from 1 (`libmevent.c:455`), and replies are only refused when their id is
   smaller: a late reply from before is returned as the reply to a new call. Until then it
   is not: `OwnReplyBeforeWrap`.
4. `MachineOkLocated` (`Spd`, the constants of `MCSpd.cfg`): the test
   `plan.scityid && plan.ecityid` (`robot.js:104`) is to wait for both cities, but columns are
   sent as strings and "0" is true. When the end is found first the plan is confirmed
   without the city of its start. What holds of the
   cities is part of `ConfirmedMeasured`.
5. `NeverVanishes` (`ChatBox`, the constants of `MCChatBox.cfg`): a widget that was minimised on
   the last page and is restored as the button has `rendo = o.min`; a click hides the button and
   shows nothing instead where `hidemidOnMax` is set (`bmoon.chat.js:209-211`).
   `pop/doc/devClient.txt:13` says that the click brings up the window.

Seen while modelling `plan_cmd_plan_match`, of which no document says what it should be: a
few matches by city are given up as "no result" when the wider queries find nothing
(`mevent_plan.c:191`), and where both find some, `_ntt` counts only those of the second, so
the page does not reach the last plans it was sent. Exceptions that the properties name, because
the code has them: a synchronous request in a queue is overtaken by every later one, for ever if they
never stop (`parse.c:127`, the exemption of `SyncAnswered` and `EventuallyServed`); a reply may begin inside a piece of another
(`tcp.c:125`, `torn`); one lost answer stops the robot (`robot.js:47`, the second half of `RobotPolls`); links that fade out
throw (`index.js:209`, in `LinksLeadToPlans`); the state of the widget differs from directory to directory (`bmoon.chat.js:213`,
in `RestoredAsLeft`), and a message not seen before the page changed no longer blinks (`UnreadBlinks`); old messages come twice or
not at all when more are stored between two pages (`mevent_msg.c:100`, in `PagesInOrder`).

## Proofs

`ListProofs`, the queue (any set of entries):

* `QueueChain`: the pointers are the line of waiting entries, `size` counts them and no
  entry is linked twice. The inductive invariant is the property itself together with the
  types: it is the chain, not the two end pointers, that each operation preserves.
* `QueueRefinement`: every step of the list is a step of the double ended line, or a stutter.

`ListProofs`, a bucket of the cache (any keys, values, entries, length of the chain and times):

* `ChainWellFormedHolds`: the inductive invariant `IInv` says that there is a sequence of entries
  which the pointers spell out in both directions, whose keys differ and which are all the entries
  in use (`Linked`). Every change of the pointers in `cache.c` is an entry cut out (`Cut`), an
  entry linked in front (`Put`), or one after the other: a promotion is a cut and a link, the
  eviction a link after a cut at the end. What the recursive `Walk` visits is shown without
  induction: of the places where it would differ from the sequence there would be a least one
  (`Least`), and it does not differ there (`WalkIs`).
* `CacheRefinement`: every operation is the one of `CacheSpec` of that name, or a refusal that
  changes nothing. The line is read off the same sequence, so that the key found by
  `find_in_chain` is at the place where `CacheSpec` has it (`FindIs`, `PlaceIs`).

`MeventProofs` (any plugins, number of messages, faults, limit and step of the busy test):

* `TypeCorrect` and `MutualExclusionHolds`, together, by one invariant: types, who holds which
  lock, and that a handler in the middle of a message has a message and a target.
* `QueueBoundedHolds`: no queue outgrows the first multiple of the step above the limit. The
  property is not inductive: between the test and the insertion the network thread has only
  its knowledge of the past. The strengthening says, at each of its places, how long the
  target's queue can still be: at most `QUEUE_CAP`, and strictly less from the place where the
  second read found no multiple of the step. It needs that a worker only shortens a queue.

Its other theorems speak of requests by their numbers, in order of arrival. They rest on
`Numbers`: a queue holds requests the network thread is done with, so that
the one about to be inserted is newer than all of them.

* `ServiceOrderHolds`: with `Numbers`, the order is inductive: the newest goes in front if
  synchronous and to the back if not, and the flag of a waiting request does not change.
* `NoLostWakeupHolds`: a worker falls asleep on an empty queue, and from the insertion of a
  synchronous request to its signal the network thread does nothing else. It also needs
  `NotStopped` (no plugin is stopped while the loop runs), since a worker that dies would take
  the network thread with it between the insertion and the signal.
* `ExitedDrainedHolds`: the strengthening `Looked` says the same of a worker from the moment it
  looked and found nothing, and that what it saw is not newer than what was handled.
* `OneReplyHolds`: a request is in one place. The strengthening `Once` adds that the queues
  have no request in common nor twice (`Apart`), that what a worker holds was handled
  (`HeldNumbers`), so a new one is held by nobody, that only requests that have arrived are
  answered, and that a torn reply is the only one (`TornOnce`). Every step that ends with a
  reply is first shown to end in one of three ways: dead, told once, or silent to a request that
  was not synchronous (`RefusedEnds`, `GivenUpEnds`, `ProcessEnds`). From these `Kept` follows: a
  synchronous request is in hands or answered while the daemon serves (`Serving`).

`TcpFramingProofs` (any lengths, pieces, window and misread lengths):

* `RoomForTheRestHolds`: the types and the counters are inductive together; `process_buf` keeps
  them whatever the bytes it takes for a length say.
* `PatientInOrderHolds` and the action property `GoodClientKeptHolds`: for a client that waits,
  the strengthening `Patient` says where each byte of the one message under way is: what was read in
  the buffer in use, from its beginning, the rest in the stream. The length found is then the one
  the client wrote, so the message is parsed whole, and no test that closes the connection
  succeeds, that of `parse_message` included if the message is long enough for it.

`MeventClientProofs` (any servers, number of calls, ids, losses, delays, doublings):

* `TypeCorrect`, `OwnReplyBeforeWrapHolds`. The code compares ids, the property speaks of calls.
  `Numbered` ties them: before the counter starts again the id of a call is its number. `Made`
  says that whatever is under way belongs to a call that was made. So a reply whose id is
  not smaller than `g_reqid` is the reply to the current call.
* `ReplyKeptHolds`, also after the counter started again. The strengthening `Kept` says that on a
  stream on which no call was given up there is at most one reply, that to the call waiting, at
  one place: with the daemon, whole in the socket, or with its head read (`Sole`).

`SpdProofs` (any posts, places, limit, windows, lookups and changes under way):

* `OnePlanPerPostHolds`, `ConfirmedMeasuredHolds`, `NoLongRepeatHolds`, by one invariant. A change
  carries a whole plan as some page copied it, perhaps long ago, so the properties of the table are
  not inductive: they are stated of every copy, in the robot's batch (`Taken`), in its lookups
  (`Looked`), on the moderator's page (`Shown`) and under way (`Sent`). A copy depends on the table
  only through the post of its row, which no change alters (`Grown`, `Carry`): that is why an
  old copy is as good as a new one.
* `SettledForGoodHolds`, an action property: a copy is made of a fresh or an unconfirmed row only,
  and every callback, post and correction keeps the id of the copy it works on.

`PlanPageProofs` (any plans, limits of the queries, choices and searches):

* `LinksLeadToPlansHolds` rests on a fact about the search alone, `OutcomeCounts`: it counts no more
  plans than it returns, however its queries overlap and are cut off. `Turning` says it of plans that
  stay on the screen when the fading is over, and that the page has no plans where they do not.
* `OneVerdictHolds`: a search that crossed no other is alone under way, and nothing stays on the screen
  until its answer (`Verdict`).
* `EndsAgreeHolds`: what an end without trouble lacks is being looked up, for the last choice
  (`Agreeing`). `LeavesWhatHeSoughtHolds` uses it and that a clean search has its rectangle from the
  points still there (`Sought`).

`ChatBoxProofs` (any options and directories of a site, sessions, notices and timers):

* `BarTogglesHolds` and `RestoredAsLeftHolds` need one description of the display (`Shape`, `Bound`):
  only four sets of parts are ever shown, `rendo` tells which comes back after the button, and the
  handler bound to the bar follows `rendo` even while the bar is hidden. A handler writes the cookie
  of its own directory only, so that what was left in the others is still what their cookies say
  (`NewPage`, `SamePage`).
* `UnreadBlinksHolds` (inductive: both directions are needed, since opening the window ends the blinking
  for all messages of the page), `HintTruthfulHolds` (one notice at a time, which remembers the truth),
  `ToThePresentHolds` (the pipe leads to the present session or nowhere).

`LiveChatProofs` (any visitors, stored messages, length of a page, sessions, raws and requests under way):

* `OnlineListedHolds` and `ToOpenVisitorHolds`. What the desk believes of a visitor and what the
  push server knows differ by the raws under way, so neither is inductive. `News` says what these
  tell: that he came and that he went by turns, beginning with what is news to the desk and ending
  with how he is now, in which session. Hence `userOff` always finds in `usersOn` the one it
  removes (were he not there, the source would splice the last one away), `userOn` never adds
  somebody twice, and with no raw left the desk is right. `Links` says the same of the session in
  the box and of the open pipe, which a removal of the box may lose.
* `UnreadMarkedHolds` is inductive with the types of the boxes (`Marks`).
* `PagesInOrderHolds`: for a visitor never asked for twice at a time there is at most one
  request, for the page after those shown (`OneAsked`), and the i-th page shown is the page i of the
  table as it was at some time (`Shown`). What two such windows have in common, and what lies between
  them, is arithmetic (`ShownOrder`); what the desk knows of the number of messages is that of the last page.

The assumptions on constants are the named ASSUMEs of the modules; TLC evaluates them in
every run. The inductive invariants were checked by TLC on the instances of the runs before they
were proved (that of the bucket with what `Walk` visits as its sequence).

Left to TLC:

* liveness (the provers have no ENABLED): `MeventLive`, `EveryMessageParsed`, `CallReturns`,
  `RobotPolls`;
* how many elements a bag has, which needs induction over data: in `Spd` the bounds `MaxJobs` and `MaxMods` are
  guards of the model only and no theorem needs them.

## Plan

1. Done: the event layer (`Queue`, `Mevent`, `TcpFraming`, `Cache`, `MeventClient`), the rides
   (`Spd`, `PlanPage`), the chat (`ChatBox`, `ChatDesk`, `LiveChat`), and the theorems above.
2. Every safety invariant and every action property of a run has its theorem, and both refinements
   are proved; what is left to model is listed below.

## Not modelled

* The third-party scripts in `lib/js` (several versions of jQuery and its plugins) are four
  fifths of the repository's JavaScript: code of other projects, of which the models use
  what the pages rely on. The own scripts not modelled are forms that post once and show the
  answer (registration, passwords, blog, bills), lists and drawings of statistics, and second
  copies of modelled pages (`gb/bmoon.chat.js`, `index-g.js`, `robot-g.js`,
  `livecs_uninstanceable.js`).
* `bank_cmd_addbill` with its transaction and cached account, and a worker that answers on a
  descriptor closed meanwhile: real hazards, listed in `PROJECT.json` without a property.
* Faults plain from the text, on one path of one part, that a model would only repeat: the
  parameters kept after a
  request that could not be sent (`libmevent.c:482`), the endless loop over a server of unknown type
  (`libmevent.c:295`), the division by zero of a cache for fewer than four objects (`cache.c:35`), the
  list of timers that ends at a fired one (`common.c:45`), the watchdog that kills a slow daemon
  (`hb.c:73`), the list of names cut after its first (`deliver/v/apev.c:82`), plans never offered to it because their city is unknown
  (`ospd.c:153`), the distance not renewed for a new start (`index.js:371`), a message shown both
  as it comes and among the old ones (`bmoon.chatb.js:382`).
* Start-up, configuration, log and alarms; the word splitter, a pure function over text;
  abandoned code (`memorypark`, `phone`, `grabber`).
