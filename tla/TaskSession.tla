----------------------------- MODULE TaskSession -----------------------------
(***************************************************************************)
(* The way of the cookies of one task: an operator pastes a header into    *)
(* the admin request, which is parsed (admin/routers/tasks.py) and stored  *)
(* with the runtime row, in a transaction after the one that inserts the   *)
(* task (db/repository.py).  In between the dispatcher may already lease   *)
(* the task and write the row itself, without cookies.  Every attempt      *)
(* builds its browser profile from the row (workers/worker.py).            *)
(***************************************************************************)
EXTENDS Cookies, Profiles

CONSTANTS
    Chars,                      \* the characters of a text
    Names, Values, Pads, Junk,  \* what is pasted, in pieces
    Hosts,                      \* the hosts of links, NoHost among them
    Geos,                       \* the countries of proxies, known or not
    MaxSeparators, MaxAttempts  \* bounds of the model

\* What may be meant by a cookie: a name and a value without blanks around them, "=" only
\* inside the value.  Junk has no name before its first "=".  Only a separator separates.
ASSUME SessionAssumption ==
    /\ {Equals} \cup Separators \cup Blanks \subseteq Chars
    /\ Names \cup Values \cup Pads \cup Junk \subseteq Seq(Chars)
    /\ \A piece \in Names \cup Values \cup Pads \cup Junk : Cuts(piece) = {}
    /\ \A name \in Names : name # <<>> /\ Strip(name) = name /\ EqualsIn(name) = {}
    /\ \A value \in Values : Strip(value) = value
    /\ \A pad \in Pads : Range(pad) \subseteq Blanks
    /\ \A junk \in Junk : EqualsIn(junk) # {} => Pair(junk).name = <<>>
    /\ \A host \in Hosts : host \in Seq(Range(host))

VARIABLES
    text,      \* what has been pasted
    meant,     \* the cookies that were meant by it
    request,   \* how far the admin request is
    sent,      \* the cookies it passes to create_task
    stored,    \* whether there is a runtime row
    row,       \* the cookies in it
    profiles   \* the browser profiles of the attempts so far

sessionVars == <<text, meant, request, sent, stored, row, profiles>>

SessionInit ==
    /\ text = <<>>
    /\ meant = <<>>
    /\ request = "paste"
    /\ sent = <<>>
    /\ stored = FALSE
    /\ row = <<>>
    /\ profiles = <<>>

Paste(piece) ==
    \E separator \in Separators :
        text' = IF text = <<>> THEN piece ELSE text \o <<separator>> \o piece

Separated == Cardinality({i \in DOMAIN text : text[i] \in Separators})

Padded(s, pad) == pad \o s \o pad

\* A cookie, with blanks anywhere around its name and its value.
PastePair ==
    /\ request = "paste" /\ Separated < MaxSeparators
    /\ \E name \in Names, value \in Values, pad \in Pads :
          /\ Paste(Padded(name, pad) \o <<Equals>> \o Padded(value, pad))
          /\ meant' = Append(meant, [name |-> name, value |-> value])
    /\ UNCHANGED <<request, sent, stored, row, profiles>>

\* Something that is no cookie.
PasteJunk ==
    /\ request = "paste" /\ Separated < MaxSeparators
    /\ \E junk \in Junk : Paste(junk)
    /\ UNCHANGED <<meant, request, sent, stored, row, profiles>>

\* create_task of the router: a host that is none is an error before anything is stored.
Submit(host) ==
    /\ request = "paste"
    /\ IF Raises(Strip(text), host)
       THEN request' = "rejected" /\ UNCHANGED sent
       ELSE request' = "insert_task" /\ sent' = ParseHeader(text, host)
    /\ text' = <<>>
    /\ UNCHANGED <<meant, stored, row, profiles>>

\* create_task of the repository: the task, in one transaction ...
InsertTask ==
    /\ request = "insert_task"
    /\ request' = "insert_row"
    /\ UNCHANGED <<text, meant, sent, stored, row, profiles>>

\* Mutant: a row that is there already is left as it is, and the request succeeds.
InsertRow_KeepsOld ==
    /\ request = "insert_row"
    /\ request' = "accepted"
    /\ stored' = TRUE
    /\ row' = IF stored THEN row ELSE sent
    /\ UNCHANGED <<text, meant, sent, profiles>>

\* ... and its row in the next ...
InsertRow ==
    /\ request = "insert_row"
    /\ ~stored
    /\ request' = "accepted"
    /\ stored' = TRUE
    /\ row' = sent
    /\ UNCHANGED <<text, meant, sent, profiles>>

\* ... which fails if the dispatcher has written one, or for a reason of its own: the
\* task stays.
InsertRowFails ==
    /\ request = "insert_row"
    /\ request' = "failed"
    /\ UNCHANGED <<text, meant, sent, stored, row, profiles>>

\* The dispatcher leases the task, with a row of its own if it has none.
Lease ==
    /\ request \in {"insert_row", "failed"}
    /\ ~stored
    /\ stored' = TRUE
    /\ row' = <<>>
    /\ UNCHANGED <<text, meant, request, sent, profiles>>

\* Mutant: the cookies are passed, the user agent is not pinned.
Attempt_NotPinned ==
    /\ stored
    /\ Len(profiles) < MaxAttempts
    /\ \E geo \in Geos, byDefault \in BOOLEAN : \E spec \in Specs(geo, FALSE) :
          profiles' = Append(profiles, BrowserProfile(spec, row, byDefault))
    /\ UNCHANGED <<text, meant, request, sent, stored, row>>

\* A worker runs it, whatever the proxy of this attempt.
Attempt ==
    /\ stored
    /\ Len(profiles) < MaxAttempts
    /\ \E geo \in Geos, byDefault \in BOOLEAN : \E spec \in Specs(geo, row # <<>>) :
          profiles' = Append(profiles, BrowserProfile(spec, row, byDefault))
    /\ UNCHANGED <<text, meant, request, sent, stored, row>>

SessionNext ==
    \/ PastePair
    \/ PasteJunk
    \/ \E host \in Hosts : Submit(host)
    \/ InsertTask
    \/ InsertRow
    \/ InsertRowFails
    \/ Lease
    \/ Attempt

SessionSpec == SessionInit /\ [][SessionNext]_sessionVars

-----------------------------------------------------------------------------
Dicts(pairs) == [k \in DOMAIN pairs |-> [name |-> pairs[k].name, value |-> pairs[k].value]]

\* Whatever is pasted between and around them, the cookies that were meant come out, in
\* their order, with "=" and blanks inside of values, for a domain the link is in.
HeaderUnderstood ==
    \A host \in Hosts \ {NoHost} :
        LET cookies == ParseHeader(text, host)
        IN  request = "paste" =>
                /\ Dicts(cookies) = meant
                /\ \A k \in DOMAIN cookies :
                      \E i \in DOMAIN host : cookies[k].domain = SubSeq(host, i, Len(host))

\* A list of dicts and a header that mean the same are the same cookies, and cookies
\* that are normalized already stay what they are, whatever the link.
FormatsAgree ==
    \A host, other \in Hosts \ {NoHost} :
        request = "paste" =>
            /\ Normalize(Dicts(meant), host) = ParseHeader(text, host)
            /\ Normalize(ParseHeader(text, host), other) = ParseHeader(text, host)

\* Every attempt of a task whose creation was acknowledged has exactly the cookies that
\* were meant; and a session with cookies keeps one user agent, without extensions,
\* through all attempts, even those made before the row was there.
SessionKept ==
    request = "accepted" =>
        \A i \in DOMAIN profiles :
            /\ Dicts(profiles[i].storage) = meant
            /\ meant # <<>> => /\ profiles[i].agent = profiles[1].agent
                               /\ ~profiles[i].extensions
=============================================================================
