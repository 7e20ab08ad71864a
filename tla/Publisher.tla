------------------------------ MODULE Publisher -------------------------------
(***************************************************************************)
(* publisher.go, trie/trie.go and DB.Subscribe.  The write goroutine       *)
(* passes what it wrote to one publishing goroutine, which holds the       *)
(* publisher's lock while it sends to the bounded channels of subscribers; *)
(* subscribers come and go, and Close stops them all.                      *)
(***************************************************************************)
EXTENDS Integers, FiniteSets, Sequences, SequencesExt

CONSTANTS
  Subs,           \* calls of Subscribe
  PubKeys,        \* keys that are written: sequences of bytes
  SubMatches,     \* the matches each of them is called with, in a sequence
  MaxUpdate,      \* bound: requests written
  PubChCap, SubChCap     \* capacities of pubCh and of a sendCh

ASSUME PublisherAssumption == MaxUpdate \in Nat /\ PubChCap \in Nat \ {0} /\ SubChCap \in Nat \ {0}

VARIABLES
  pubLock,      \* publisher.Mutex is held by the publishing goroutine
  pubCh,        \* updates: [n, key]
  pubPc, pubBatch, pubTodo,     \* listenForUpdates and publishUpdates
  indexer,      \* the trie: path -> ids at its node
  registered,   \* p.subscribers
  sub,          \* subscriber -> its goroutine
  writerPc, writing,            \* writeRequests, in sendUpdates
  pubClosing,   \* the publisher's closer was signalled
  published     \* history: what was sent to pubCh, in order
publisherVars == <<pubLock, pubCh, pubPc, pubBatch, pubTodo, indexer, registered, sub, writerPc, writing,
                   pubClosing, published>>

Hole == "*"

PublisherInit ==
  /\ pubLock = FALSE /\ pubCh = <<>> /\ pubPc = "idle" /\ pubBatch = <<>> /\ pubTodo = {}
  /\ indexer = [p \in {<<>>} |-> {}] /\ registered = {}
  /\ sub = [s \in Subs |-> [pc |-> "none", matches |-> <<>>, ch |-> <<>>, batch |-> <<>>, active |-> FALSE,
                            signalled |-> FALSE, done |-> FALSE, got |-> <<>>, since |-> 0]]
  /\ writerPc = "idle" /\ writing = [n |-> 0, key |-> <<>>] /\ pubClosing = FALSE /\ published = <<>>

-----------------------------------------------------------------------------
(* The trie.  A match is a prefix with holes; its path has the ignore      *)
(* child at a hole.  fix adds an id at the path's node, or removes it and  *)
(* then every node without ids below which there are none (removeEmpty).   *)
pathOf(m) == [i \in 1 .. Len(m.prefix) |-> IF i \in m.ignore THEN Hole ELSE m.prefix[i]]

AddMatch(ix, m, id) ==
  LET p == pathOf(m)
      nodes == DOMAIN ix \cup {SubSeq(p, 1, i) : i \in 0 .. Len(p)}
  IN  [q \in nodes |-> (IF q \in DOMAIN ix THEN ix[q] ELSE {}) \cup (IF q = p THEN {id} ELSE {})]

nonEmptyBelow_own(ix, p) == ix[p] # {}
nonEmptyBelow(ix, p) == \E q \in DOMAIN ix : IsPrefix(p, q) /\ ix[q] # {}
removeEmpty(ix) == [p \in {q \in DOMAIN ix : q = <<>> \/ nonEmptyBelow(ix, q)} |-> ix[p]]

DeleteMatch(ix, m, id) ==
  removeEmpty(IF pathOf(m) \in DOMAIN ix THEN [ix EXCEPT ![pathOf(m)] = @ \ {id}] ELSE ix)

(* Get walks every path that agrees with the key or has a hole, as far as  *)
(* each of its nodes exists.                                               *)
walks(ix, p, key) ==
  /\ Len(p) <= Len(key)
  /\ \A i \in 1 .. Len(p) : p[i] \in {Hole, key[i]} /\ SubSeq(p, 1, i) \in DOMAIN ix
Get(ix, key) == UNION {ix[p] : p \in {q \in DOMAIN ix : walks(ix, q, key)}}

addMatches(ix, ms, id) == FoldLeft(LAMBDA acc, m : AddMatch(acc, m, id), ix, ms)
deleteMatches(ix, ms, id) == FoldLeft(LAMBDA acc, m : DeleteMatch(acc, m, id), ix, ms)

(* IgnoreBytes that do not parse make AddMatch fail; the matches before    *)
(* are in the trie then, and the subscriber is in the map.                 *)
parsed(ms) == SelectSeq(ms, LAMBDA m : m.parses)
addedMatches(ms) == IF parsed(ms) = ms THEN ms
             ELSE SubSeq(ms, 1, (CHOOSE i \in DOMAIN ms : ~ ms[i].parses /\ \A j \in 1 .. i - 1 : ms[j].parses) - 1)

newSubscriber(s) ==
  LET ms == SubMatches[s] IN
  /\ sub[s].pc = "none" /\ ~ pubLock
  /\ registered' = registered \cup {s}
  /\ indexer' = addMatches(indexer, addedMatches(ms), s)
  /\ sub' = [sub EXCEPT ![s] = [@ EXCEPT !.pc = IF addedMatches(ms) = ms THEN "loop" ELSE "failed", !.matches = addedMatches(ms),
                                         !.active = TRUE, !.since = Len(published)]]
  /\ UNCHANGED <<pubLock, pubCh, pubPc, pubBatch, pubTodo, writerPc, writing, pubClosing, published>>

-----------------------------------------------------------------------------
(* writeRequests calls sendUpdates: count the subscribers, then send.      *)
wrote(k) ==
  /\ writerPc = "idle" /\ writing.n < MaxUpdate /\ ~ pubClosing
  /\ writing' = [n |-> writing.n + 1, key |-> k] /\ writerPc' = "count"
  /\ UNCHANGED <<pubLock, pubCh, pubPc, pubBatch, pubTodo, indexer, registered, sub, pubClosing, published>>

noOfSubscribers ==
  /\ writerPc = "count" /\ ~ pubLock
  /\ writerPc' = IF registered = {} THEN "idle" ELSE "send"
  /\ UNCHANGED <<pubLock, pubCh, pubPc, pubBatch, pubTodo, indexer, registered, sub, writing, pubClosing, published>>

sendUpdates ==
  /\ writerPc = "send" /\ Len(pubCh) < PubChCap /\ writerPc' = "idle"
  /\ pubCh' = Append(pubCh, writing)
  /\ published' = Append(published, writing)
  /\ UNCHANGED <<pubLock, pubPc, pubBatch, pubTodo, indexer, registered, sub, writing, pubClosing>>

(* listenForUpdates takes what is there, then publishes it.                *)
slurp_newestFirst ==
  /\ pubPc \in {"idle", "slurp"} /\ pubCh # <<>>
  /\ pubPc' = "slurp" /\ pubBatch' = <<Head(pubCh)>> \o pubBatch /\ pubCh' = Tail(pubCh)
  /\ UNCHANGED <<pubLock, pubTodo, indexer, registered, sub, writerPc, writing, pubClosing, published>>

slurp ==
  /\ pubPc \in {"idle", "slurp"} /\ pubCh # <<>>
  /\ pubPc' = "slurp" /\ pubBatch' = Append(pubBatch, Head(pubCh)) /\ pubCh' = Tail(pubCh)
  /\ UNCHANGED <<pubLock, pubTodo, indexer, registered, sub, writerPc, writing, pubClosing, published>>

slurped ==
  /\ pubPc = "slurp" /\ pubCh = <<>> /\ pubPc' = "publish"
  /\ UNCHANGED <<pubLock, pubCh, pubBatch, pubTodo, indexer, registered, sub, writerPc, writing, pubClosing, published>>

(* publishUpdates: with the lock, one list per subscriber that matches ... *)
matched(s) == SelectSeq(pubBatch, LAMBDA u : s \in Get(indexer, u.key))
publishUpdates ==
  /\ pubPc = "publish" /\ ~ pubLock /\ pubLock' = TRUE /\ pubPc' = "check"
  /\ pubTodo' = {s \in Subs : matched(s) # <<>>}
  /\ UNCHANGED <<pubCh, pubBatch, indexer, registered, sub, writerPc, writing, pubClosing, published>>

(* ... each sent if the subscriber is active when it is looked at.         *)
checkActive(s) ==
  /\ pubPc = "check" /\ s \in pubTodo
  /\ IF sub[s].active THEN pubPc' = s /\ UNCHANGED pubTodo
                      ELSE pubTodo' = pubTodo \ {s} /\ UNCHANGED pubPc
  /\ UNCHANGED <<pubLock, pubCh, pubBatch, indexer, registered, sub, writerPc, writing, pubClosing, published>>

sendTo(s) ==
  /\ pubPc = s /\ Len(sub[s].ch) < SubChCap
  /\ sub' = [sub EXCEPT ![s].ch = Append(@, matched(s))]
  /\ pubTodo' = pubTodo \ {s} /\ pubPc' = "check"
  /\ UNCHANGED <<pubLock, pubCh, pubBatch, indexer, registered, writerPc, writing, pubClosing, published>>

publishedAll ==
  /\ pubPc = "check" /\ pubTodo = {} /\ pubPc' = "idle" /\ pubLock' = FALSE /\ pubBatch' = <<>>
  /\ UNCHANGED <<pubCh, pubTodo, indexer, registered, sub, writerPc, writing, pubClosing, published>>

-----------------------------------------------------------------------------
(* Close signals the goroutine once the writes have ended; it signals each *)
(* subscriber and waits for it, with the lock held.                        *)
closePublisher ==
  /\ ~ pubClosing /\ writerPc = "idle" /\ pubClosing' = TRUE
  /\ UNCHANGED <<pubLock, pubCh, pubPc, pubBatch, pubTodo, indexer, registered, sub, writerPc, writing, published>>

cleanSubscribers ==
  /\ pubPc = "idle" /\ pubClosing /\ ~ pubLock /\ pubLock' = TRUE /\ pubPc' = "clean"
  /\ UNCHANGED <<pubCh, pubBatch, pubTodo, indexer, registered, sub, writerPc, writing, pubClosing, published>>

signalSub(s) ==
  /\ pubPc = "clean" /\ pubTodo = {} /\ s \in registered
  /\ pubTodo' = {s} /\ registered' = registered \ {s}
  /\ indexer' = deleteMatches(indexer, sub[s].matches, s)
  /\ sub' = [sub EXCEPT ![s].signalled = TRUE]
  /\ UNCHANGED <<pubLock, pubCh, pubPc, pubBatch, writerPc, writing, pubClosing, published>>

waitSub(s) ==
  /\ pubPc = "clean" /\ pubTodo = {s} /\ sub[s].done /\ pubTodo' = {}
  /\ UNCHANGED <<pubLock, pubCh, pubPc, pubBatch, indexer, registered, sub, writerPc, writing, pubClosing, published>>

cleaned ==
  /\ pubPc = "clean" /\ pubTodo = {} /\ registered = {} /\ pubPc' = "off" /\ pubLock' = FALSE
  /\ UNCHANGED <<pubCh, pubBatch, pubTodo, indexer, registered, sub, writerPc, writing, pubClosing, published>>

-----------------------------------------------------------------------------
(* Subscribe's loop.                                                       *)
subKeeps == UNCHANGED <<pubLock, pubCh, pubPc, pubBatch, pubTodo, indexer, registered, writerPc, writing, pubClosing, published>>

subReceive(s) ==
  /\ sub[s].pc \in {"loop", "slurp", "last"} /\ sub[s].ch # <<>>
  /\ sub' = [sub EXCEPT ![s] = [@ EXCEPT !.pc = IF @ = "loop" THEN "slurp" ELSE @,
                                         !.batch = @ \o Head(sub[s].ch), !.ch = Tail(@)]]
  /\ subKeeps

(* The callback, which may fail; then the subscriber leaves.               *)
callback(s, ok) ==
  /\ sub[s].pc = "slurp" /\ sub[s].ch = <<>>
  /\ sub' = [sub EXCEPT ![s] = [@ EXCEPT !.got = @ \o sub[s].batch, !.batch = <<>>,
                                         !.pc = IF ok THEN "loop" ELSE "leave", !.done = ~ ok]]
  /\ subKeeps

ctxDone(s) ==
  /\ sub[s].pc = "loop" /\ sub' = [sub EXCEPT ![s].pc = "leave", ![s].done = TRUE]
  /\ subKeeps

subClosed(s) ==
  /\ sub[s].pc = "loop" /\ sub[s].signalled /\ sub' = [sub EXCEPT ![s].pc = "last"]
  /\ subKeeps

lastCallback(s) ==
  /\ sub[s].pc = "last" /\ sub[s].ch = <<>>
  /\ sub' = [sub EXCEPT ![s] = [@ EXCEPT !.got = @ \o sub[s].batch, !.batch = <<>>, !.pc = "gone", !.done = TRUE]]
  /\ subKeeps

(* Leaving: done first, then inactive, drained, and deleted.               *)
deactivate_locked(s) ==
  /\ sub[s].pc = "leave" /\ ~ pubLock /\ sub' = [sub EXCEPT ![s].pc = "drain", ![s].active = FALSE]
  /\ subKeeps

deactivate(s) ==
  /\ sub[s].pc = "leave" /\ sub' = [sub EXCEPT ![s].pc = "drain", ![s].active = FALSE]
  /\ subKeeps

drain(s) ==
  /\ sub[s].pc = "drain"
  /\ sub' = [sub EXCEPT ![s] = IF @.ch = <<>> THEN [@ EXCEPT !.pc = "delete"] ELSE [@ EXCEPT !.ch = Tail(@)]]
  /\ subKeeps

deleteSubscriber(s) ==
  /\ sub[s].pc = "delete" /\ ~ pubLock
  /\ registered' = registered \ {s}
  /\ indexer' = IF s \in registered THEN deleteMatches(indexer, sub[s].matches, s) ELSE indexer
  /\ sub' = [sub EXCEPT ![s].pc = "gone"]
  /\ UNCHANGED <<pubLock, pubCh, pubPc, pubBatch, pubTodo, writerPc, writing, pubClosing, published>>

-----------------------------------------------------------------------------
publisherStep ==
  \/ slurp \/ slurped \/ publishUpdates \/ publishedAll \/ cleanSubscribers \/ cleaned
  \/ \E s \in Subs : checkActive(s) \/ sendTo(s) \/ signalSub(s) \/ waitSub(s)
subStep(s) ==
  \/ subReceive(s) \/ subClosed(s) \/ lastCallback(s) \/ deactivate(s) \/ drain(s) \/ deleteSubscriber(s)
  \/ \E ok \in BOOLEAN : callback(s, ok)

PublisherNext ==
  \/ publisherStep \/ noOfSubscribers \/ sendUpdates \/ closePublisher \/ \E k \in PubKeys : wrote(k)
  \/ \E s \in Subs : subStep(s) \/ ctxDone(s) \/ newSubscriber(s)

(* Goroutines that can run do run; callbacks return.                       *)
PublisherFairness ==
  /\ WF_publisherVars(publisherStep) /\ WF_publisherVars(noOfSubscribers \/ sendUpdates)
  /\ \A s \in Subs : WF_publisherVars(subStep(s))
PublisherSpec == PublisherInit /\ [][PublisherNext]_publisherVars /\ PublisherFairness

-----------------------------------------------------------------------------
(* What a match means, without a trie.                                     *)
Matches(m, key) ==
  Len(m.prefix) <= Len(key) /\ \A i \in 1 .. Len(m.prefix) : i \in m.ignore \/ m.prefix[i] = key[i]
Wants(s, u) == \E i \in DOMAIN sub[s].matches : Matches(sub[s].matches[i], u.key)

(* "The given function will be called with ... the modified keys": a       *)
(* subscriber gets the updates it asked for in the order of the writes,    *)
(* without gaps, repetitions or others, however subscribers come and go.   *)
DeliveredInOrder ==
  \A s \in Subs : \E i, j \in 0 .. Len(published) :
    sub[s].got = SelectSeq(SubSeq(published, i + 1, j), LAMBDA u : Wants(s, u))

(* An update written after Subscribe registered reaches the callback,      *)
(* unless the subscriber leaves or the store is closed.                    *)
UpdateDelivered ==
  \A s \in Subs : \A n \in 1 .. MaxUpdate :
    (/\ sub[s].pc \in {"loop", "slurp"}
     /\ \E i \in sub[s].since + 1 .. Len(published) : published[i].n = n /\ Wants(s, published[i]))
      ~> (\/ \E i \in DOMAIN sub[s].got : sub[s].got[i].n = n
          \/ sub[s].pc \notin {"loop", "slurp"} \/ pubClosing)

(* "cleanSubscribers stops all the subscribers": Close gets rid of them,   *)
(* whatever each of them is doing.  It does not hold if a match does not   *)
(* parse after one that did (README, 5).                                   *)
CloseReturns == pubClosing ~> pubPc = "off"

(* And a slow or leaving subscriber does not block writes for ever.        *)
PublisherReturns == (writerPc # "idle" ~> writerPc = "idle") /\ CloseReturns
=============================================================================
