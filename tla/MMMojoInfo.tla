----------------------------- MODULE MMMojoInfo -----------------------------
(***************************************************************************)
(* The write infos and read infos of one process (mmmojo/mmmojo.cc, the    *)
(* structs of common/mmmojo_stream.h), and what becomes of the buffers,    *)
(* the shared memory and above all the response callbacks they own when an *)
(* application swaps, sends and removes them (the last tasks of            *)
(* common/mmmojo_stream.cc).  MMMojoStream has an application that replies *)
(* the way the interface asks for; here it makes any calls, in any order,  *)
(* on infos that exist.                                                    *)
(*                                                                         *)
(* The fields of an info are absl::optional.  One that is moved from stays *)
(* engaged with an empty content: Moved, not Unset.                        *)
(***************************************************************************)
EXTENDS Naturals, Sequences, SequencesExt, FiniteSets

CONSTANTS
    Default, DefaultSync, AppendStreams,  \* the streams
    NoPipe,        \* message_pipe is not set
    Missing,       \* numbers it is set to for which there is no append stream
    Message,       \* what arrives: a read info each
    WriteInfo,     \* the write infos the application creates
    None,          \* no info
    Unset, Moved,  \* contents of a field: see above
    Faulty,        \* streams whose peer may go
    Stops,         \* whether the environment is stopped
    MaxGets, MaxTakes, MaxGives  \* bounds on the calls made for one info:
                   \* getters, swaps of its callback, swaps of its message

Stream == {Default, DefaultSync} \cup AppendStreams
Method == {"kMMPush", "kMMPullReq", "kMMPullResp", "kMMShared"}

Messages   == [id : Nat, method : Method, sync : BOOLEAN, stream : Stream]
WriteInfos == [id : Nat, method : Method, sync : BOOLEAN,
               pipe : AppendStreams \cup Missing \cup {NoPipe}]

ASSUME InfoAssumption ==
    /\ Message \subseteq Messages
    /\ WriteInfo \subseteq WriteInfos
    /\ NoPipe \notin Stream \cup Missing /\ Stream \cap Missing = {}
    /\ Default # DefaultSync /\ {Default, DefaultSync} \cap AppendStreams = {}
    /\ None \notin WriteInfo
    /\ Faulty \subseteq Stream /\ Stops \in BOOLEAN
    /\ {MaxGets, MaxTakes, MaxGives} \subseteq Nat

Info  == Message \cup WriteInfo
Pulls == {m \in Message : m.method = "kMMPullReq"}

\* A vector, or a region of shared memory, numbered by the call that made it;
\* an address range a region is mapped to.
Buffer   == [kind : {"request", "attach", "memory"}, info : Info, n : 0..MaxGets]
Mapping  == [kind : {"mapping"}, info : Info, n : 0..MaxGets, memory : Buffer]
Optional(S) == S \cup {Unset, Moved}

ASSUME ContentAssumption ==
    Unset # Moved /\ {Unset, Moved} \cap (Message \cup Buffer \cup Mapping) = {}

Fields == [request_data  : Optional(Buffer), attach_data   : Optional(Buffer),
           callback      : Optional({m \in Pulls : ~m.sync}),
           callbacksync  : Optional({m \in Pulls : m.sync}),
           shared_memory : Optional(Buffer), shared_buffer : Optional(Mapping)]

NoFields == [request_data |-> Unset, attach_data |-> Unset, callback |-> Unset,
             callbacksync |-> Unset, shared_memory |-> Unset, shared_buffer |-> Unset]

VARIABLES
    place,    \* of an info: with the application, in a task, or what ended it
    fields,   \* of an info that exists
    gets,     \* how many getters were called for it
    queue,    \* the write infos in the tasks of a stream's thread
    stream,   \* impl_ of a stream and the pipes: "refused" if the peer has closed its
              \* end, "error" if Mojo has closed ours, "reset" once the other one of
              \* the two was told, and "gone" if the peer went by itself
    stopped,  \* the streams StopEnvironment has come to: their pointers are null
    fate,     \* of the response callback of a pull
    pointer,  \* pointers the getters have returned, and for which info
    taken,    \* the write infos a callback was swapped to, in order
    given,    \* the write infos a message was swapped to, in order
    abort     \* the write info that ended the process

vars == <<place, fields, gets, queue, stream, stopped, fate, pointer, taken, given, abort>>

TypeOK ==
    /\ place \in [Info -> {"none", "app", "task", "done", "refused", "removed"}]
    /\ fields \in [Info -> Fields]
    /\ gets \in [Info -> 0..MaxGets]
    /\ queue \in [Stream -> Seq(WriteInfo)]
    /\ stream \in [Stream -> {"open", "refused", "error", "reset", "gone", "removed"}]
    /\ stopped \subseteq Stream
    /\ fate \in [Pulls -> {"held", "answered", "void", "foreign", "dropped"}]
    /\ pointer \subseteq [info : Info, to : Buffer \cup Mapping]
    /\ taken \in [Message -> Seq(WriteInfo)]
    /\ given \in [Message -> Seq(WriteInfo)]
    /\ abort \in WriteInfo \cup {None}

Init ==
    /\ place = [i \in Info |-> "none"]
    /\ fields = [i \in Info |-> NoFields]
    /\ gets = [i \in Info |-> 0]
    /\ queue = [s \in Stream |-> <<>>]
    /\ stream = [s \in Stream |-> "open"]
    /\ stopped = {}
    /\ fate = [m \in Pulls |-> "held"]
    /\ pointer = {}
    /\ taken = [m \in Message |-> <<>>]
    /\ given = [m \in Message |-> <<>>]
    /\ abort = None

\* The stream SendMMMojoWriteInfo chooses.
StreamOf(w) ==
    IF w.pipe # NoPipe THEN w.pipe ELSE IF w.sync THEN DefaultSync ELSE Default

\* The callbacks in some fields, and their fates when these are destroyed.
Callbacks(f) == {f.callback, f.callbacksync} \cap Pulls
Drop(f) == fate' = [m \in Pulls |-> IF m \in Callbacks(f) THEN "dropped" ELSE fate[m]]

New(i, kind) == [kind |-> kind, info |-> i, n |-> gets[i] + 1]
Map(i, memory) == [kind |-> "mapping", info |-> i, n |-> gets[i] + 1, memory |-> memory]

Set(i, f) == fields' = [fields EXCEPT ![i] = f]
Return(i, to) == pointer' = pointer \cup {[info |-> i, to |-> to]}
-----------------------------------------------------------------------------
(* Read infos                                                              *)

\* Mutant: the callback of a synchronous pull goes to the wrong field.
ContentOneField(m) == [NoFields EXCEPT !.callback = m]

\* What the constructors of MMMojoReadInfo put into its fields.
Content(m) ==
    LET Part(kind) == [kind |-> kind, info |-> m, n |-> 0]
        data == [NoFields EXCEPT !.request_data = Part("request"), !.attach_data = Part("attach")]
    IN  CASE m.method = "kMMShared" ->
                 [NoFields EXCEPT !.shared_memory = Part("memory"), !.attach_data = Part("attach")]
          [] m.method = "kMMPullReq" /\ m.sync -> [data EXCEPT !.callbacksync = m]
          [] m.method = "kMMPullReq" /\ ~m.sync -> [data EXCEPT !.callback = m]
          [] OTHER -> data

HasImpl(s)     == stream[s] # "removed"
HasReceiver(s) == stream[s] \in {"open", "refused"}
HasRemote(s)   == stream[s] \in {"open", "refused", "error"}

\* A handler of MMMojoServiceImpl wraps a message in a new read info.
Arrive(m) ==
    /\ place[m] = "none" /\ HasReceiver(m.stream)
    /\ place' = [place EXCEPT ![m] = "app"]
    /\ Set(m, Content(m))
    /\ UNCHANGED <<gets, queue, stream, stopped, fate, pointer, taken, given, abort>>

\* A getter is called; where it does not return a pointer nothing happens.
Gets(i) ==
    /\ place[i] = "app" /\ gets[i] < MaxGets
    /\ gets' = [gets EXCEPT ![i] = @ + 1]
    /\ UNCHANGED <<place, queue, stream, stopped, fate, taken, given, abort>>

GetMMMojoReadInfoRequest(m) ==
    /\ Gets(m)
    /\ \/ /\ m.method # "kMMShared" /\ fields[m].request_data \in Buffer
          /\ Return(m, fields[m].request_data)
          /\ UNCHANGED fields
       \/ /\ m.method = "kMMShared" /\ fields[m].shared_memory \in Buffer
          /\ LET mapping == Map(m, fields[m].shared_memory)
             IN  Return(m, mapping) /\ Set(m, [fields[m] EXCEPT !.shared_buffer = mapping])

GetMMMojoReadInfoAttach(m) ==
    /\ Gets(m)
    /\ fields[m].attach_data \in Buffer
    /\ Return(m, fields[m].attach_data)
    /\ UNCHANGED fields

RemoveMMMojoReadInfo(m) ==
    /\ place[m] = "app"
    /\ place' = [place EXCEPT ![m] = "removed"]
    /\ Set(m, NoFields) /\ Drop(fields[m])
    /\ UNCHANGED <<gets, queue, stream, stopped, pointer, taken, given, abort>>
-----------------------------------------------------------------------------
(* Write infos                                                             *)

\* The message pipe and the response info are set right away.
CreateMMMojoWriteInfo(w) ==
    /\ place[w] = "none"
    /\ place' = [place EXCEPT ![w] = "app"]
    /\ UNCHANGED <<fields, gets, queue, stream, stopped, fate, pointer, taken, given, abort>>

\* A new vector in place of the one the info had.
GetsVector(w) ==
    /\ w.method # "kMMShared" /\ Gets(w)
    /\ LET buffer == New(w, "request")
       IN  Return(w, buffer) /\ Set(w, [fields[w] EXCEPT !.request_data = buffer])

\* Mutant: the mapping is stored, the memory is not.
GetsMemoryLost(w) ==
    /\ w.method = "kMMShared" /\ Gets(w)
    /\ LET mapping == Map(w, New(w, "memory"))
       IN  Return(w, mapping) /\ Set(w, [fields[w] EXCEPT !.shared_buffer = mapping])

\* Mutant: the region is stored after it was moved from.
GetsMemoryInvalid(w) ==
    /\ w.method = "kMMShared" /\ Gets(w)
    /\ LET mapping == Map(w, New(w, "memory"))
       IN  /\ Return(w, mapping)
           /\ Set(w, [fields[w] EXCEPT !.shared_memory = Moved, !.shared_buffer = mapping])

\* New memory; the info is left as it was if none can be allocated or mapped.
GetsMemory(w) ==
    /\ w.method = "kMMShared" /\ Gets(w)
    /\ LET memory == New(w, "memory")
           mapping == Map(w, memory)
       IN  /\ Return(w, mapping)
           /\ Set(w, [fields[w] EXCEPT !.shared_memory = memory, !.shared_buffer = mapping])

GetMMMojoWriteInfoRequest(w) == GetsVector(w) \/ GetsMemory(w)

GetMMMojoWriteInfoAttach(w) ==
    /\ Gets(w)
    /\ LET buffer == New(w, "attach")
       IN  Return(w, buffer) /\ Set(w, [fields[w] EXCEPT !.attach_data = buffer])

\* Moving an optional leaves it engaged if it was.
MovedFrom(x) == IF x = Unset THEN Unset ELSE Moved

\* The fields with these names move from m to w.
MoveFields(w, m, names) ==
    fields' = [fields EXCEPT
        ![w] = [f \in DOMAIN @ |-> IF f \in names THEN fields[m][f] ELSE @[f]],
        ![m] = [f \in DOMAIN @ |-> IF f \in names THEN MovedFrom(@[f]) ELSE @[f]]]

TakesCallback(w, m) ==
    /\ place[w] = "app" /\ place[m] = "app" /\ Len(taken[m]) < MaxTakes
    /\ taken' = [taken EXCEPT ![m] = Append(@, w)]
    /\ UNCHANGED <<place, gets, queue, stream, stopped, pointer, given, abort>>

\* Mutant: callbacksync is forgotten.
SwapMMMojoWriteInfoCallbackAsync(w, m) ==
    /\ TakesCallback(w, m) /\ Drop([fields[w] EXCEPT !.callbacksync = Unset])
    /\ MoveFields(w, m, {"callback"})

\* A callback the write info had is destroyed.
SwapMMMojoWriteInfoCallback(w, m) ==
    /\ TakesCallback(w, m) /\ Drop(fields[w])
    /\ MoveFields(w, m, {"callback", "callbacksync"})

PassesMessage(w, m) ==
    /\ place[w] = "app" /\ place[m] = "app" /\ Len(given[m]) < MaxGives
    /\ given' = [given EXCEPT ![m] = Append(@, w)]
    /\ UNCHANGED <<place, gets, queue, stream, stopped, fate, pointer, taken, abort>>

\* Mutant: shared_buffer is forgotten.
SwapMMMojoWriteInfoMessageNoBuffer(w, m) ==
    /\ PassesMessage(w, m)
    /\ MoveFields(w, m, {"request_data", "attach_data", "shared_memory"})

SwapMMMojoWriteInfoMessage(w, m) ==
    /\ PassesMessage(w, m)
    /\ MoveFields(w, m, {"request_data", "attach_data", "shared_memory", "shared_buffer"})

\* StopEnvironment has also reset append_streams_.
AppendReset == \A s \in Stream : stream[s] = "removed"

\* Send takes the write info, also when it returns false.  For an append stream
\* it looks into append_streams_ with at(), engaged or not.
SendMMMojoWriteInfo(w) ==
    /\ place[w] = "app"
    /\ \/ /\ StreamOf(w) \in Stream \ stopped
          /\ place' = [place EXCEPT ![w] = "task"]
          /\ queue' = [queue EXCEPT ![StreamOf(w)] = Append(@, w)]
          /\ UNCHANGED <<fields, fate, abort>>
       \/ /\ StreamOf(w) \in stopped /\ (w.pipe = NoPipe \/ ~AppendReset)
          /\ place' = [place EXCEPT ![w] = "refused"]
          /\ Set(w, NoFields) /\ Drop(fields[w])
          /\ UNCHANGED <<queue, abort>>
       \/ /\ w.pipe \in Missing \/ (w.pipe # NoPipe /\ AppendReset)
          /\ abort' = w
          /\ UNCHANGED <<place, fields, queue, fate>>
    /\ UNCHANGED <<gets, stream, stopped, pointer, taken, given>>

RemoveMMMojoWriteInfo(w) ==
    /\ place[w] = "app"
    /\ place' = [place EXCEPT ![w] = "removed"]
    /\ Set(w, NoFields) /\ Drop(fields[w])
    /\ UNCHANGED <<gets, queue, stream, stopped, pointer, taken, given, abort>>
-----------------------------------------------------------------------------
(* The threads of the streams                                              *)

\* The task that holds a write info; it is destroyed in the end.
RunsTask(s, w) ==
    /\ queue[s] # <<>> /\ Head(queue[s]) = w
    /\ queue' = [queue EXCEPT ![s] = Tail(@)]
    /\ place' = [place EXCEPT ![w] = "done"]
    /\ Set(w, NoFields)
    /\ UNCHANGED <<gets, stopped, pointer, taken, given>>

\* The task looks into an optional that is empty, or runs a null callback.
Aborts(w) ==
    /\ abort' = w
    /\ UNCHANGED <<place, fields, gets, queue, stream, stopped, fate, pointer, taken, given>>

\* Push...WriteInfo, PullReq...WriteInfo and their Sync forms.
WritesMessage(s, w) ==
    /\ w.method \in {"kMMPush", "kMMPullReq"}
    /\ RunsTask(s, w) /\ Drop(fields[w])
    /\ UNCHANGED <<stream, abort>>

\* Memory that was moved from is no memory: the other side turns the message
\* down and closes its end of the pipe.
SharedMMMojoWriteInfo(s, w) ==
    /\ w.method = "kMMShared"
    /\ HasRemote(s) => fields[w].shared_memory # Unset
    /\ RunsTask(s, w) /\ Drop(fields[w])
    /\ stream' = [stream EXCEPT ![s] =
                     IF @ = "open" /\ fields[w].shared_memory = Moved THEN "refused" ELSE @]
    /\ UNCHANGED abort

SharedMMMojoWriteInfoAborts(s, w) ==
    /\ w.method = "kMMShared" /\ queue[s] # <<>> /\ Head(queue[s]) = w
    /\ HasRemote(s) /\ fields[w].shared_memory = Unset
    /\ Aborts(w)

\* The field the task looks at.
Used(w) == IF w.sync THEN fields[w].callbacksync ELSE fields[w].callback

\* PullResp...WriteInfo and its Sync form run the callback, on the thread of
\* the write info's stream; it answers on the pipe the pull came from.
PullRespMMMojoWriteInfo(s, w) ==
    /\ w.method = "kMMPullResp"
    /\ HasImpl(s) => Used(w) # Moved
    /\ RunsTask(s, w)
    /\ fate' = [m \in Pulls |->
           IF m \notin Callbacks(fields[w]) THEN fate[m]
           ELSE IF m # Used(w) \/ ~HasImpl(s) THEN "dropped"
           ELSE IF m.stream # s THEN "foreign"
           ELSE IF HasReceiver(s) THEN "answered" ELSE "void"]
    /\ UNCHANGED <<stream, abort>>

\* Mutant: the callback is run without the test that there is one.
PullRespMMMojoWriteInfoAbortsUntested(s, w) ==
    /\ w.method = "kMMPullResp" /\ queue[s] # <<>> /\ Head(queue[s]) = w
    /\ HasImpl(s) /\ Used(w) \notin Pulls
    /\ Aborts(w)

PullRespMMMojoWriteInfoAborts(s, w) ==
    /\ w.method = "kMMPullResp" /\ queue[s] # <<>> /\ Head(queue[s]) = w
    /\ HasImpl(s) /\ Used(w) = Moved
    /\ Aborts(w)

SetStream(s, state) ==
    /\ stream' = [stream EXCEPT ![s] = state]
    /\ UNCHANGED <<place, fields, gets, queue, stopped, fate, pointer, taken, given, abort>>

\* Mutant: another stream is hit.
RaiseErrorElsewhere(s) ==
    /\ HasReceiver(s)
    /\ \E m \in Pulls : fate[m] = "dropped"
    /\ SetStream(s, "error")

\* Mojo closes the receiving pipe of a pull whose callback was destroyed.
RaiseError(s) ==
    /\ HasReceiver(s)
    /\ \E m \in Pulls : m.stream = s /\ fate[m] = "dropped"
    /\ SetStream(s, "error")

\* The peer has gone, or was told of a pipe closed at this end or closed one of
\* its own, and has reset the other one in turn.
OnMojoDisconnect(s) ==
    \/ s \in Faulty /\ HasRemote(s) /\ SetStream(s, "gone")
    \/ stream[s] \in {"error", "refused"} /\ SetStream(s, "reset")

\* StopEnvironment takes the streams one after the other and waits for each.
Before(s) ==
    CASE s = Default -> {}
      [] s = DefaultSync -> {Default}
      [] OTHER -> {Default, DefaultSync}

RemoveStream(s) ==
    /\ Stops /\ s \notin stopped /\ \A b \in Before(s) : stream[b] = "removed"
    /\ \A b \in stopped : stream[b] = "removed"
    /\ stopped' = stopped \cup {s}
    /\ UNCHANGED <<place, fields, gets, queue, stream, fate, pointer, taken, given, abort>>

\* The last task of a stream.
RemoveRemoteAndReceiverStream(s) ==
    /\ s \in stopped /\ queue[s] = <<>> /\ stream[s] # "removed"
    /\ SetStream(s, "removed")
-----------------------------------------------------------------------------
Next ==
    /\ abort = None
    /\ \/ \E m \in Message : \/ Arrive(m)
                             \/ GetMMMojoReadInfoRequest(m)
                             \/ GetMMMojoReadInfoAttach(m)
                             \/ RemoveMMMojoReadInfo(m)
       \/ \E w \in WriteInfo : \/ CreateMMMojoWriteInfo(w)
                               \/ GetMMMojoWriteInfoRequest(w)
                               \/ GetMMMojoWriteInfoAttach(w)
                               \/ SendMMMojoWriteInfo(w)
                               \/ RemoveMMMojoWriteInfo(w)
       \/ \E w \in WriteInfo, m \in Message : \/ SwapMMMojoWriteInfoCallback(w, m)
                                              \/ SwapMMMojoWriteInfoMessage(w, m)
       \/ \E s \in Stream, w \in WriteInfo : \/ WritesMessage(s, w)
                                             \/ SharedMMMojoWriteInfo(s, w)
                                             \/ SharedMMMojoWriteInfoAborts(s, w)
                                             \/ PullRespMMMojoWriteInfo(s, w)
                                             \/ PullRespMMMojoWriteInfoAborts(s, w)
       \/ \E s \in Stream : \/ RaiseError(s) \/ OnMojoDisconnect(s)
                            \/ RemoveStream(s) \/ RemoveRemoteAndReceiverStream(s)

Spec == Init /\ [][Next]_vars
-----------------------------------------------------------------------------
(* Properties                                                              *)

Held(i) == {fields[i].request_data, fields[i].attach_data, fields[i].callback,
            fields[i].callbacksync, fields[i].shared_memory, fields[i].shared_buffer}
           \ {Unset, Moved}

\* Whatever the calls, a callback, a buffer and a mapping belong to one info,
\* and a callback to one as long as it was neither run nor dropped.
OneOwner ==
    /\ \A i, j \in Info : i # j => Held(i) \cap Held(j) = {}
    /\ \A m \in Pulls : fate[m] # "held" => \A i \in Info : m \notin Held(i)
    /\ \A m \in Pulls : fate[m] = "held" /\ place[m] # "none" =>
           \E i \in Info : m \in Held(i)

\* The application answers a pull the way the interface asks for: with one
\* write info, which takes no other callback, has the flag and the stream of
\* the pull, and was sent before the stop.
ByTheBook(m, w) ==
    /\ w.method = "kMMPullResp" /\ w.sync = m.sync /\ StreamOf(w) = m.stream
    /\ taken[m] = <<w>>
    /\ \A n \in Message \ {m} : w \notin ToSet(taken[n])

\* Then the callback is run, on its own thread, and the answer is sent as long
\* as the stream is whole.
AnsweredByTheBook ==
    \A m \in Pulls, w \in WriteInfo :
        ByTheBook(m, w) =>
            /\ place[w] = "task" => fate[m] = "held"
            /\ place[w] = "done" =>
                   fate[m] = "answered" \/ (fate[m] = "void" /\ ~HasReceiver(m.stream))

\* The application let go of a pull: it removed the read info with the callback
\* in it, or gave the callback to a write info that does not reply by the book,
\* or that it removed or was refused.
LetGo(m) ==
    \/ place[m] = "removed" /\ taken[m] = <<>>
    \/ \E w \in ToSet(taken[m]) :
           ~ByTheBook(m, w) \/ place[w] \in {"removed", "refused"}

\* It sent on a stream shared memory that it had passed on before.
SentMoved(s) ==
    \E w \in WriteInfo, m \in Message :
        /\ w.method = "kMMShared" /\ StreamOf(w) = s /\ place[w] = "done"
        /\ m.method = "kMMShared" /\ Len(given[m]) > 1 /\ w \in ToSet(Tail(given[m]))

\* What the calls of the application make of a stream, unless the peer goes: our
\* end of a pipe is closed only if it let go of a pull of this very stream, the
\* peer's end only if it sent shared memory twice.
BreaksAreDeserved ==
    \A s \in Stream :
        LET lost == \E m \in Pulls : m.stream = s /\ LetGo(m)
        IN  /\ stream[s] = "error"   => lost
            /\ stream[s] = "refused" => SentMoved(s)
            /\ stream[s] = "reset"   => lost \/ SentMoved(s)

\* The memory a write info sends is the memory its mapping shows: what the
\* application wrote through the last pointer is what the other side maps.
MappingShowsMemory ==
    \A i \in Info : fields[i].shared_buffer \in Mapping =>
        fields[i].shared_buffer.memory = fields[i].shared_memory

\* The process only ends itself for a reply with a callback that was taken
\* before, for shared memory nobody allocated or a message without any put in
\* its place, for the number of an append stream that does not exist, and for an
\* append stream after the stop.
AbortsAreDeserved ==
    abort # None =>
        \/ /\ abort.method = "kMMPullResp"
           /\ \E m \in Pulls : Len(taken[m]) > 1 /\ abort \in ToSet(Tail(taken[m]))
        \/ /\ abort.method = "kMMShared"
           /\ \/ \A p \in pointer : p.info # abort \/ p.to.kind # "mapping"
              \/ \E m \in Message : abort \in ToSet(given[m]) /\ m.method # "kMMShared"
        \/ abort.pipe \in Missing
        \/ abort.pipe # NoPipe /\ stopped = Stream

\* The info that keeps alive what a pointer of i points to.
Keeper(i) == IF i \in Message /\ given[i] # <<>> THEN given[i][1] ELSE i

\* A later call returned another pointer of the same kind.
Renewed(p) ==
    \E q \in pointer :
        /\ q.info = p.info /\ q.to.kind = p.to.kind /\ q.to.n > p.to.n

\* A pointer from a getter is good, also after its message was swapped to a
\* write info, until the info that has it now is removed or sent, is given
\* another message, or was asked for a buffer or mapping of its own in its place.
PointersLive ==
    \A p \in pointer :
        LET k == Keeper(p.info)
        IN  \/ p.to \in Held(k)
            \/ place[k] \in {"done", "refused", "removed"}
            \/ Renewed(p)
            \/ \E m \in Message : k \in ToSet(given[m]) /\ (m = p.info => Len(given[m]) > 1)
            \/ \E q \in pointer : q.info = k /\ q.info # p.info /\ q.to.kind = p.to.kind
=============================================================================
