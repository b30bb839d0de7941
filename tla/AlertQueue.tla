----------------------------- MODULE AlertQueue -----------------------------
(***************************************************************************)
(* The alert webhook: emit sites queue events under a cooldown per (kind,  *)
(* spec), one task per process reads them, looks the URL up (cached) and   *)
(* posts, with retries. The endpoint is external: a POST may reach it and  *)
(* still be reported as failed (a timeout).                                *)
(***************************************************************************)
EXTENDS Naturals, Sequences, FiniteSets

CONSTANTS
    Keys,        \* (kind, spec) pairs under the cooldown
    Cooldown,    \* ALERT_COOLDOWN, in ticks
    UrlTtl,      \* URL_CACHE_TTL, in ticks
    QueueDepth, Attempts,
    MaxTime, MaxTests    \* bounds on the clock and on the test button

VARIABLES
    now,
    recent,    \* last time a key passed the cooldown, or Never
    queue,
    sender,    \* what the task does with the event it took
    cached,    \* the URL it remembers and since when
    setting,   \* the URL an admin configured
    posts,     \* how often each queued event reached the endpoint
    tests,     \* presses of the test button
    notified   \* ghost: every event of a key, and what became of it

vars == <<now, recent, queue, sender, cached, setting, posts, tests, notified>>

Never == 0
NoUrl == "none"
Test == "test"
Event(k, at) == [key |-> k, at |-> at]

Init ==
    /\ now = 1 /\ recent = [k \in Keys |-> Never] /\ queue = <<>>
    /\ sender = [pc |-> "recv"] /\ cached = [url |-> NoUrl, at |-> Never]
    /\ setting \in {NoUrl, "hook"}
    /\ posts = [e \in {} |-> 0] /\ tests = 0 /\ notified = {}

Cooling(k) == recent[k] # Never /\ now - recent[k] < Cooldown
HasRoom == Len(queue) < QueueDepth
Outcome(k, what) == notified' = notified \cup {[key |-> k, at |-> now, what |-> what]}

Tick ==
    /\ now < MaxTime /\ now' = now + 1
    /\ UNCHANGED <<recent, queue, sender, cached, setting, posts, tests, notified>>
\* The clock is coarse: a key is notified at most once per tick.
Fresh(k) == \A n \in notified : n.key = k => n.at # now

(***************************************************************************)
(* AlertSink::notify. The cooldown starts before the queue is tried.       *)
(***************************************************************************)
Suppressed(k) ==
    /\ Fresh(k) /\ Cooling(k)
    /\ Outcome(k, "suppressed")
    /\ UNCHANGED <<now, recent, queue, sender, cached, setting, posts, tests>>
\* retain: entries whose cooldown is over are forgotten.
Retained(rec) == [k \in Keys |-> IF rec[k] # Never /\ now - rec[k] < Cooldown
                                 THEN rec[k] ELSE Never]
Armed_OnlyNew(k) == IF recent[k] = Never THEN [recent EXCEPT ![k] = now] ELSE recent
Armed(k) == Retained([recent EXCEPT ![k] = now])
Notify(k) ==
    /\ Fresh(k) /\ ~Cooling(k)
    /\ recent' = Armed(k)
    /\ IF HasRoom THEN queue' = Append(queue, Event(k, now)) /\ Outcome(k, "queued")
                  ELSE UNCHANGED queue /\ Outcome(k, "dropped")
    /\ UNCHANGED <<now, sender, cached, setting, posts, tests>>
NotifyTest ==
    /\ setting # NoUrl /\ tests < MaxTests /\ tests' = tests + 1
    /\ queue' = IF HasRoom THEN Append(queue, Event(Test, now)) ELSE queue
    /\ UNCHANGED <<now, recent, sender, cached, setting, posts, notified>>

(***************************************************************************)
(* The sender task: spawn and deliver.                                     *)
(***************************************************************************)
UrlKnown == cached.at # Never /\ now - cached.at < UrlTtl
Deliver(ev, url) == IF url = NoUrl THEN [pc |-> "recv"]
                    ELSE [pc |-> "post", ev |-> ev, left |-> Attempts]
Take ==
    /\ sender.pc = "recv" /\ queue # <<>>
    /\ queue' = Tail(queue)
    /\ sender' = IF UrlKnown THEN Deliver(Head(queue), cached.url)
                 ELSE [pc |-> "lookup", ev |-> Head(queue)]
    /\ UNCHANGED <<now, recent, cached, setting, posts, tests, notified>>
\* A failed lookup is remembered as "no webhook" for the whole TTL.
Lookup(url) ==
    /\ sender.pc = "lookup" /\ url \in {setting, NoUrl}
    /\ cached' = [url |-> url, at |-> now]
    /\ sender' = Deliver(sender.ev, url)
    /\ UNCHANGED <<now, recent, queue, setting, posts, tests, notified>>
\* posts counts up to one more than it may reach.
Count(e) == IF e \in DOMAIN posts THEN posts[e] ELSE 0
Arrived(e) == posts' = [x \in DOMAIN posts \cup {e} |->
                           Count(x) + (IF x = e /\ Count(x) <= Attempts THEN 1 ELSE 0)]
PostOk ==
    /\ sender.pc = "post"
    /\ Arrived(sender.ev) /\ sender' = [pc |-> "recv"]
    /\ UNCHANGED <<now, recent, queue, cached, setting, tests, notified>>
LeftAfter(n) == n - 1
PostFails(reached) ==
    LET n == LeftAfter(sender.left) IN
    /\ sender.pc = "post"
    /\ IF reached THEN Arrived(sender.ev) ELSE UNCHANGED posts
    /\ sender' = IF n = 0 THEN [pc |-> "recv"] ELSE [sender EXCEPT !.left = n]
    /\ UNCHANGED <<now, recent, queue, cached, setting, tests, notified>>

\* The System page stores another URL.
Configure ==
    /\ tests < MaxTests /\ tests' = tests + 1
    /\ setting' \in {NoUrl, "hook"} \ {setting}
    /\ UNCHANGED <<now, recent, queue, sender, cached, posts, notified>>

Sender == Take \/ (\E u \in {setting, NoUrl} : Lookup(u)) \/ PostOk
          \/ \E r \in BOOLEAN : PostFails(r)
Next == \/ Tick \/ NotifyTest \/ Configure \/ Sender
        \/ \E k \in Keys : Suppressed(k) \/ Notify(k)
Spec == Init /\ [][Next]_vars

----------------------------------------------------------------------------
\* No alert reaches the endpoint more often than there are attempts, and
\* only alerts that were queued reach it.
PostsBounded ==
    \A e \in DOMAIN posts : e.key # Test =>
        /\ posts[e] <= Attempts
        /\ [key |-> e.key, at |-> e.at, what |-> "queued"] \in notified
\* A stuck condition re-alerts at most once per cooldown, and does re-alert:
\* no two events of a key are queued within a cooldown, and an event that is
\* suppressed was preceded within the cooldown by one that was queued, or by
\* one the full queue swallowed; however delivery stalls or retries.
AlertsSpaced ==
    /\ PostsBounded
    /\ \A a \in notified :
         LET earlier == {b \in notified : /\ b.key = a.key /\ b.at < a.at
                                         /\ a.at - b.at < Cooldown} IN
         /\ a.what = "suppressed" => \E b \in earlier : b.what # "suppressed"
         /\ a.what # "suppressed" => \A b \in earlier : b.what = "suppressed"
=============================================================================
