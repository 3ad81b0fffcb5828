----------------------------- MODULE WebClient ------------------------------
(***************************************************************************)
(* lua-webclient: the skynet service webclient.lua on top of webclient.c,  *)
(* which hands HTTP requests to the multi interface of libcurl.            *)
(*                                                                         *)
(* The service is one Lua state: a request is handled in one go, and the   *)
(* coroutine `query' runs until it sleeps.  libcurl only moves inside      *)
(* curl_multi_perform, which `query' calls: there bytes arrive through     *)
(* write_callback and transfers end.  A handle is an address: once cleaned *)
(* up it may be given to the next request.                                 *)
(***************************************************************************)
EXTENDS Integers, Sequences, FiniteSets, Functions

CONSTANTS
    Requests, NoReply,  \* requests sent to the service; those sent with no_reply
    Handles, NoHandle,  \* addresses curl_easy_init may return
    NoTable,            \* the nil in `requests'
    Chunks,             \* lengths of the pieces libcurl hands to write_callback
    Least,              \* 512
    MaxChunks,          \* bound: pieces of one answer
    MaxFailures         \* bound: failures of realloc, of adding handles and of performing

ASSUME WebClientAssumption ==
    /\ NoReply \subseteq Requests
    /\ NoHandle \notin Handles
    /\ \A keys \in SUBSET Handles : NoTable \notin [keys -> Requests]
    /\ Chunks \subseteq Nat \ {0}
    /\ Least \in Nat \ {0}
    /\ MaxChunks \in Nat /\ MaxFailures \in Nat

VARIABLES
    requests,   \* nil, or for each key (a handle) the request in the service's table
    poller,     \* where the coroutine `query' is; "none" when there is none
    finish_key, \* what webclient:query returned
    transfers,  \* the state of each handle in libcurl
    msgs,       \* the messages curl_multi_info_read has still to return
    webrequest, \* the struct behind each handle
    answers,    \* what each request has been answered
    failures

vars == <<requests, poller, finish_key, transfers, msgs, webrequest, answers, failures>>

\* `memory' is what the memory content points to really holds; `sent' counts the pieces
\* the server sent, which `content' names in the order they were kept.
WebRequest ==
    [content : Seq(1 .. MaxChunks), content_length : Nat, content_maxlength : Nat, memory : Nat,
     content_realloc_failed : BOOLEAN, sent : Nat, error : BOOLEAN, code : {"ok", "other"}]

\* "memset(webrequest, 0, sizeof(*webrequest))".
Zeroed == [content |-> <<>>, content_length |-> 0, content_maxlength |-> 0, memory |-> 0,
           content_realloc_failed |-> FALSE, sent |-> 0, error |-> FALSE, code |-> "other"]

Keys == IF requests = NoTable THEN {} ELSE DOMAIN requests

Answer(kind, content) == [kind |-> kind, content |-> content]

NoAnswer == Answer("none", <<>>)

\* skynet.ret() without a result, or no answer as none was asked for.
Nothing == Answer("nothing", <<>>)

\* webclient_create, when the service starts.
Init ==
    /\ requests = NoTable /\ poller = "none" /\ finish_key = NoHandle
    /\ transfers = [h \in Handles |-> "none"] /\ msgs = <<>>
    /\ webrequest = [h \in Handles |-> Zeroed]
    /\ answers = [r \in Requests |-> NoAnswer]
    /\ failures = 0

\* The coroutine lets other messages of the service in only while it has not started, while
\* it sleeps and when it is gone.
Yielded == poller \in {"none", "forked", "sleeping", "dead"}

New(r) == answers[r] = NoAnswer /\ \A h \in Keys : requests[h] # r

-----------------------------------------------------------------------------
\* request: webclient_request gave nothing, as curl_easy_init or curl_multi_add_handle failed.
request_failed(r) ==
    /\ Yielded /\ New(r) /\ failures < MaxFailures
    /\ failures' = failures + 1
    /\ answers' = [answers EXCEPT ![r] = Nothing]
    /\ UNCHANGED <<requests, poller, finish_key, transfers, msgs, webrequest>>

\* request, webclient_request and webclient_realrequest.
request(r, h) ==
    /\ Yielded /\ New(r) /\ transfers[h] = "none"
    /\ transfers' = [transfers EXCEPT ![h] = "running"]
    /\ webrequest' = [webrequest EXCEPT ![h] = Zeroed]
    /\ requests' = [k \in Keys \cup {h} |-> IF k = h THEN r ELSE requests[k]]
    /\ poller' = IF requests = NoTable THEN "forked" ELSE poller
    /\ UNCHANGED <<finish_key, msgs, answers, failures>>

-----------------------------------------------------------------------------
\* The coroutine query.

PollerGoes(from, to) == poller = from /\ poller' = to

query_wake ==
    /\ poller \in {"forked", "sleeping"}
    /\ poller' = "loop"
    /\ UNCHANGED <<requests, finish_key, transfers, msgs, webrequest, answers, failures>>

\* "while next(requests) do".
query_loop ==
    /\ Keys # {}
    /\ PollerGoes("loop", "query")
    /\ UNCHANGED <<requests, finish_key, transfers, msgs, webrequest, answers, failures>>

query_end ==
    /\ Keys = {}
    /\ PollerGoes("loop", "none")
    /\ requests' = NoTable
    /\ UNCHANGED <<finish_key, transfers, msgs, webrequest, answers, failures>>

\* webclient_realquery finds a message, before or after curl_multi_perform.
query_found ==
    /\ poller \in {"query", "requery"} /\ msgs # <<>>
    /\ finish_key' = Head(msgs) /\ msgs' = Tail(msgs)
    /\ poller' = "respond"
    /\ UNCHANGED <<requests, transfers, webrequest, answers, failures>>

query_perform ==
    /\ msgs = <<>>
    /\ PollerGoes("query", "perform")
    /\ UNCHANGED <<requests, finish_key, transfers, msgs, webrequest, answers, failures>>

query_performed ==
    /\ PollerGoes("perform", "requery")
    /\ UNCHANGED <<requests, finish_key, transfers, msgs, webrequest, answers, failures>>

\* "webclient query failed": the error ends the coroutine and leaves the table.
query_failed ==
    /\ failures < MaxFailures
    /\ PollerGoes("perform", "dead")
    /\ failures' = failures + 1
    /\ UNCHANGED <<requests, finish_key, transfers, msgs, webrequest, answers>>

query_sleep ==
    /\ msgs = <<>>
    /\ PollerGoes("requery", "sleeping")
    /\ UNCHANGED <<requests, finish_key, transfers, msgs, webrequest, answers, failures>>

-----------------------------------------------------------------------------
\* Inside curl_multi_perform.

Larger(a, b) == IF a > b THEN a ELSE b

Grown(w, len) == 2 * Larger(Larger(w.content_maxlength, w.content_length + len), Least)

Fits(w, len) == w.content_length + len <= w.content_maxlength

Kept(w, len) == [w EXCEPT !.content = Append(@, w.sent + 1), !.content_length = @ + len,
                          !.sent = @ + 1]

\* Mutant: the piece that found no memory is dropped, those after it are taken again.
WriteForgets(w, len, granted) ==
    IF Fits(w, len) THEN Kept(w, len)
    ELSE IF granted
    THEN Kept([w EXCEPT !.content_maxlength = Grown(w, len), !.memory = Grown(w, len)], len)
    ELSE [w EXCEPT !.content_maxlength = Grown(w, len), !.sent = @ + 1]

\* write_callback; `granted' says whether realloc finds memory.  A failed realloc leaves
\* the larger content_maxlength behind.
Written(w, len, granted) ==
    IF w.content_realloc_failed THEN [w EXCEPT !.sent = @ + 1]
    ELSE IF Fits(w, len) THEN Kept(w, len)
    ELSE IF granted
    THEN Kept([w EXCEPT !.content_maxlength = Grown(w, len), !.memory = Grown(w, len)], len)
    ELSE [w EXCEPT !.content_maxlength = Grown(w, len), !.content_realloc_failed = TRUE,
                   !.sent = @ + 1]

write_callback(h, len) ==
    /\ poller = "perform" /\ transfers[h] = "running" /\ webrequest[h].sent < MaxChunks
    /\ \E granted \in BOOLEAN :
         /\ granted \/ failures < MaxFailures
         /\ webrequest' = [webrequest EXCEPT ![h] = Written(@, len, granted)]
         /\ failures' = IF granted THEN failures ELSE failures + 1
    /\ UNCHANGED <<requests, poller, finish_key, transfers, msgs, answers>>

\* A transfer ends, well or not, with or without a text in the error buffer; what
\* curlmsg->data.result says is not looked at.
transfer_done(h) ==
    /\ poller = "perform" /\ transfers[h] = "running"
    /\ transfers' = [transfers EXCEPT ![h] = "done"]
    /\ msgs' = Append(msgs, h)
    /\ \E error \in BOOLEAN, code \in {"ok", "other"} :
         webrequest' = [webrequest EXCEPT ![h].error = error, ![h].code = code]
    /\ UNCHANGED <<requests, poller, finish_key, answers, failures>>

-----------------------------------------------------------------------------
\* The answer to a request.

\* Mutant: resopnd does not look at content_save_failed.
RespondBlind(w) ==
    IF w.error \/ w.content_realloc_failed
    THEN IF w.code = "ok" THEN Answer("success", w.content) ELSE Answer("failure", <<>>)
    ELSE Answer("success", w.content)

\* resopnd, webclient_getrespond and webclient_getinfo: "not enough memory." takes the
\* place of the error.
Respond(w) ==
    IF w.error \/ w.content_realloc_failed
    THEN IF w.code = "ok" /\ ~w.content_realloc_failed THEN Answer("success", w.content)
         ELSE Answer("failure", <<>>)
    ELSE Answer("success", w.content)

\* Mutant: the key stays in the table.
RespondKeeps ==
    LET r == requests[finish_key]
    IN  /\ finish_key \in Keys
        /\ PollerGoes("respond", "loop")
        /\ answers' = [answers EXCEPT ![r] = IF r \in NoReply THEN Nothing
                                             ELSE Respond(webrequest[finish_key])]
        /\ transfers' = [transfers EXCEPT ![finish_key] = "none"]
        /\ finish_key' = NoHandle
        /\ UNCHANGED <<requests, msgs, webrequest, failures>>

\* Mutant: `query' is over after one request.
RespondOnce ==
    LET r == requests[finish_key]
    IN  /\ finish_key \in Keys
        /\ PollerGoes("respond", "none")
        /\ answers' = [answers EXCEPT ![r] = IF r \in NoReply THEN Nothing
                                             ELSE Respond(webrequest[finish_key])]
        /\ transfers' = [transfers EXCEPT ![finish_key] = "none"]
        /\ webrequest' = [webrequest EXCEPT ![finish_key] = Zeroed]
        /\ requests' = IF Keys = {finish_key} THEN NoTable ELSE Restrict(requests, Keys \ {finish_key})
        /\ finish_key' = NoHandle
        /\ UNCHANGED <<msgs, failures>>

\* "assert(request)", resopnd, then webclient_removerequest and the entry of the table.
respond ==
    LET r == requests[finish_key]
    IN  /\ finish_key \in Keys
        /\ PollerGoes("respond", "loop")
        /\ answers' = [answers EXCEPT ![r] = IF r \in NoReply THEN Nothing
                                             ELSE Respond(webrequest[finish_key])]
        /\ transfers' = [transfers EXCEPT ![finish_key] = "none"]
        /\ webrequest' = [webrequest EXCEPT ![finish_key] = Zeroed]
        /\ requests' = Restrict(requests, Keys \ {finish_key})
        /\ finish_key' = NoHandle
        /\ UNCHANGED <<msgs, failures>>

-----------------------------------------------------------------------------
Poll ==
    \/ query_wake \/ query_loop \/ query_end \/ query_found \/ query_perform
    \/ query_performed \/ query_failed \/ query_sleep \/ respond

Performing(h) == transfer_done(h) \/ \E len \in Chunks : write_callback(h, len)

Next ==
    \/ \E r \in Requests : request_failed(r) \/ \E h \in Handles : request(r, h)
    \/ Poll
    \/ \E h \in Handles : Performing(h)

Spec == Init /\ [][Next]_vars

\* skynet goes on running the coroutine; nothing is assumed of the servers.
FairSpec == Spec /\ WF_vars(Poll)

-----------------------------------------------------------------------------
TypeOK ==
    /\ requests = NoTable \/ \E keys \in SUBSET Handles : requests \in [keys -> Requests]
    /\ poller \in {"none", "forked", "loop", "query", "perform", "requery", "respond", "sleeping",
                   "dead"}
    /\ finish_key \in Handles \cup {NoHandle}
    /\ transfers \in [Handles -> {"none", "running", "done"}]
    /\ msgs \in Seq(Handles)
    /\ webrequest \in [Handles -> WebRequest]
    /\ \A h \in Handles : transfers[h] = "none" => webrequest[h] = Zeroed
    /\ \A r \in Requests : answers[r].kind \in {"none", "nothing", "success", "failure"}
    /\ failures \in 0 .. MaxFailures

\* What arrives is written into memory there is, also after realloc failed once
\* content_maxlength had been raised.
WritesFit == \A h \in Handles : webrequest[h].content_length <= webrequest[h].memory

\* The service and libcurl agree on the handles, over any reuse of addresses: each handle
\* libcurl knows is the key of one request, and each message is about a transfer that
\* ended and was not answered, so that "assert(request)" holds.
HandlesOwned ==
    /\ Keys = {h \in Handles : transfers[h] # "none"}
    /\ \A g, h \in Keys : requests[g] = requests[h] => g = h
    /\ \A i, j \in DOMAIN msgs : msgs[i] = msgs[j] => i = j
    /\ \A i \in DOMAIN msgs : transfers[msgs[i]] = "done" /\ msgs[i] # finish_key

\* While requests wait there is a coroutine that polls for them, or it has died: it is
\* started for the first request after each time it ended.
Polled == requests # NoTable => poller # "none"

\* A positive answer holds every piece the server sent, in order: memory that ran out in
\* the middle never makes a hole in it.
AnswersWhole ==
    [][\A r \in Requests :
         answers[r] = NoAnswer /\ answers'[r].kind = "success" =>
           answers'[r].content = [i \in 1 .. webrequest[finish_key].sent |-> i]]_vars

Finished(r) == \E i \in DOMAIN msgs : requests[msgs[i]] = r

\* A transfer that ended is answered, whatever else is requested or ends meanwhile,
\* unless the coroutine dies of "webclient query failed".
FinishedAnswered ==
    \A r \in Requests : Finished(r) ~> (answers[r] # NoAnswer \/ poller = "dead")
=============================================================================
