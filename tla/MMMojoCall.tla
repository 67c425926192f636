----------------------------- MODULE MMMojoCall -----------------------------
(***************************************************************************)
(* What the two applications are promised about the requests they send to  *)
(* each other: no threads, tasks, pipes or processes, only calls, what     *)
(* they return, and what the other side reads.  MMMojoStream implements    *)
(* this contract.                                                          *)
(***************************************************************************)
EXTENDS Naturals, Sequences

CONSTANTS
    Side, Stream,  \* the two processes, the streams between them
    Req,           \* the requests
    channel,       \* of a request: the sender and the stream it uses
    Sync,          \* requests whose sender waits for something
    Confirmed,     \* those of them whose sender waits for the other side
    Pull,          \* requests that ask for data
    Readable,      \* requests the other side has a read callback for
    Collectable    \* pulls the sender has a callback for the data of

VARIABLES
    result,   \* of Send
    response, \* what *response_info points to
    posted,   \* the requests accepted on a channel, in order
    read,     \* how often the other side has read a request
    answers,  \* how often the sender's callback was given the data
    broken    \* streams something happened to

callVars == <<result, response, posted, read, answers, broken>>

StreamOf(r) == channel[r][2]

Init ==
    /\ result = [r \in Req |-> "idle"]
    /\ response = [r \in Req |-> "unset"]
    /\ posted = [c \in Side \X Stream |-> <<>>]
    /\ read = [r \in Req |-> 0]
    /\ answers = [r \in Req |-> 0]
    /\ broken = {}

\* Send takes a request: the caller waits, or has its result.
Accept(r) ==
    /\ result[r] = "idle"
    /\ result' = [result EXCEPT ![r] = IF r \in Sync THEN "blocked" ELSE "true"]
    /\ posted' = [posted EXCEPT ![channel[r]] = Append(@, r)]
    /\ UNCHANGED <<response, read, answers, broken>>

\* Send returns false, and the other side will never see the request.
Refuse(r) ==
    /\ result[r] = "idle" /\ StreamOf(r) \in broken
    /\ result' = [result EXCEPT ![r] = "false"]
    /\ UNCHANGED <<response, posted, read, answers, broken>>

\* r is next: everything posted before it was read, except that a confirmed
\* request need not wait for those that are not.
InTurn(r) ==
    LET q == posted[channel[r]]
    IN  \E j \in DOMAIN q :
            /\ q[j] = r
            /\ \A i \in 1..j-1 : read[q[i]] > 0 \/ (r \in Confirmed /\ q[i] \notin Confirmed)

\* The other side reads a request, once.
Read(r) ==
    /\ InTurn(r) /\ read[r] = 0
    /\ read' = [read EXCEPT ![r] = 1]
    /\ UNCHANGED <<result, response, posted, answers, broken>>

\* A confirmed request was successful: the other side's callback had it, and
\* for a pull there is data.
Succeed(r) ==
    /\ result[r] = "blocked"
    /\ r \in Confirmed => read[r] > 0 /\ r \in Readable
    /\ result' = [result EXCEPT ![r] = "true"]
    /\ response' = IF r \in Confirmed \cap Pull
                   THEN [response EXCEPT ![r] = "reply"] ELSE response
    /\ UNCHANGED <<posted, read, answers, broken>>

\* It was not: the stream is broken, or nobody wanted to read the request.
Fail(r) ==
    /\ result[r] = "blocked"
    /\ \/ StreamOf(r) \in broken
       \/ r \in Confirmed \ Readable /\ read[r] > 0
    /\ result' = [result EXCEPT ![r] = "false"]
    /\ \/ UNCHANGED response
       \/ r \in Confirmed \cap Pull /\ response' = [response EXCEPT ![r] = "empty"]
    /\ UNCHANGED <<posted, read, answers, broken>>

\* The data of a pull nobody waits for reaches its sender's callback, once.
Collect(r) ==
    /\ r \in Collectable \ Confirmed
    /\ read[r] > 0 /\ answers[r] = 0
    /\ answers' = [answers EXCEPT ![r] = 1]
    /\ UNCHANGED <<result, response, posted, read, broken>>

\* A stream is stopped, or a pull on it is left unanswered for good.
Break(s) ==
    /\ broken' = broken \cup {s}
    /\ UNCHANGED <<result, response, posted, read, answers>>

\* A process ends, and takes its waiting callers and all streams with it.
Die(p) ==
    /\ result' = [r \in Req |-> IF channel[r][1] = p /\ result[r] = "blocked"
                                THEN "dead" ELSE result[r]]
    /\ broken' = Stream
    /\ UNCHANGED <<response, posted, read, answers>>

Next ==
    \/ \E r \in Req : \/ Accept(r) \/ Refuse(r) \/ Read(r)
                      \/ Succeed(r) \/ Fail(r) \/ Collect(r)
    \/ \E s \in Stream : Break(s)
    \/ \E p \in Side : Die(p)

Spec == Init /\ [][Next]_callVars
=============================================================================
