-------------------------- MODULE MMMojoInfoProofs --------------------------
(***************************************************************************)
(* What holds of MMMojoInfo for all messages that arrive, all write infos, *)
(* all streams and any number of calls.                                    *)
(***************************************************************************)
EXTENDS MMMojoInfo, SequenceElements, TLAPS

-----------------------------------------------------------------------------
(* The inductive invariant                                                 *)

OfKind(kind) == {b \in Buffer : b.kind = kind}

\* No content is ever in two fields of an info: each has its own kind.
Contents ==
    [request_data  : Optional(OfKind("request")), attach_data : Optional(OfKind("attach")),
     callback      : Optional({m \in Pulls : ~m.sync}),
     callbacksync  : Optional({m \in Pulls : m.sync}),
     shared_memory : Optional(OfKind("memory")), shared_buffer : Optional(Mapping)]

KindInv == fields \in [Info -> Contents]

\* Only an info the application or a task has got holds something; one that was
\* not created was not swapped with, and a read info is never sent.
PlaceInv ==
    /\ \A i \in Info : place[i] \notin {"app", "task"} => fields[i] = NoFields
    /\ \A m \in Message : place[m] \in {"none", "app", "removed"}
    /\ \A w \in WriteInfo, m \in Message :
          place[w] = "none" => w \notin ToSet(taken[m]) /\ w \notin ToSet(given[m])

\* What a message or a getter is about to make is held by nobody yet.
FreshInv ==
    /\ \A i \in Info : \A x \in Held(i) :
          /\ x \in Pulls => place[x] # "none"
          /\ x \in Buffer \cup Mapping => place[x.info] # "none" /\ x.n <= gets[x.info]
    /\ \A m \in Pulls : place[m] = "none" => fate[m] = "held"

\* A write info is in the task of its own stream, once.
QueueInv ==
    \A s \in Stream :
        /\ IsInjective(queue[s])
        /\ \A w \in ToSet(queue[s]) : place[w] = "task" /\ StreamOf(w) = s

\* A callback of a stream was dropped.
Lost(s) == \E m \in Pulls : m.stream = s /\ fate[m] = "dropped"

\* A stream goes when it is stopped and its tasks are done; it breaks when a
\* callback is dropped or memory is sent a second time.
StreamInv ==
    \A s \in Stream :
        /\ stream[s] = "removed" => s \in stopped /\ queue[s] = <<>>
        /\ stream[s] = "error"   => Lost(s)
        /\ stream[s] = "refused" => SentMoved(s)
        /\ stream[s] = "reset"   => Lost(s) \/ SentMoved(s)

\* A read info has its callback until it is swapped.
ReadCallbackInv ==
    \A m \in Message :
        /\ fields[m].callback \in {Unset, Moved, m}
        /\ fields[m].callbacksync \in {Unset, Moved, m}
        /\ fields[m].callback = Moved \/ fields[m].callbacksync = Moved
               => m \in Pulls /\ taken[m] # <<>>
        /\ place[m] = "app" /\ m \in Pulls /\ taken[m] = <<>> =>
               /\ m.sync => fields[m].callbacksync = m /\ fields[m].callback = Unset
               /\ ~m.sync => fields[m].callback = m /\ fields[m].callbacksync = Unset

\* A write info has a callback from a swap, and none from a second one.
WriteCallbackInv ==
    \A w \in WriteInfo :
        /\ fields[w].callback # Unset \/ fields[w].callbacksync # Unset =>
               \E m \in Message : w \in ToSet(taken[m])
        /\ fields[w].callback = Moved \/ fields[w].callbacksync = Moved =>
               \E m \in Pulls : Len(taken[m]) > 1 /\ w \in ToSet(Tail(taken[m]))

\* By the book, a write info keeps the callback it was given.
BookInv ==
    \A m \in Pulls, w \in WriteInfo :
        ByTheBook(m, w) /\ place[w] \in {"app", "task"} => Used(w) = m

\* Shared memory is there before anything is mapped, and stays.
SharedInv ==
    /\ \A m \in Message : place[m] = "app" /\ m.method = "kMMShared" =>
          fields[m].shared_memory # Unset
    /\ \A w \in WriteInfo :
          /\ w.method = "kMMShared" /\ place[w] \in {"app", "task"}
          /\ fields[w].shared_memory = Unset
          => \/ \A p \in pointer : p.info # w \/ p.to.kind # "mapping"
             \/ \E m \in Message : w \in ToSet(given[m]) /\ m.method # "kMMShared"

\* A write info was given shared memory that another one had got before.
Second(w) ==
    \E m \in Message :
        m.method = "kMMShared" /\ Len(given[m]) > 1 /\ w \in ToSet(Tail(given[m]))

\* Shared memory that is moved from was passed on before.
MemoryInv ==
    /\ \A m \in Message :
          /\ fields[m].shared_memory # Unset => m.method = "kMMShared"
          /\ fields[m].shared_memory = Moved => given[m] # <<>>
    /\ \A w \in WriteInfo : fields[w].shared_memory = Moved => Second(w)

\* A pointer is to what its info made; a read info makes no more once its
\* message is given away.
PointerInv ==
    /\ \A p \in pointer :
          /\ p.to.info = p.info /\ p.to.n <= gets[p.info]
          /\ p.to.kind \in {"request", "attach", "mapping"}
          /\ place[p.info] # "none"
    /\ \A m \in Message :
          /\ \A x \in Held(m) \cap (Buffer \cup Mapping) : x.info = m
          /\ given[m] # <<>> => Held(m) \cap (Buffer \cup Mapping) = {} /\ place[m] # "none"

IInv ==
    /\ TypeOK /\ KindInv /\ PlaceInv /\ FreshInv /\ QueueInv /\ StreamInv
    /\ ReadCallbackInv /\ WriteCallbackInv /\ BookInv /\ SharedInv /\ MemoryInv /\ PointerInv
    /\ OneOwner /\ AnsweredByTheBook /\ MappingShowsMemory /\ AbortsAreDeserved
    /\ PointersLive
-----------------------------------------------------------------------------
(* The sets and the building blocks of the actions                         *)

\* Infos, buffers, mappings and the contents that are none are different things.
LEMMA Apart ==
    /\ Message \cap WriteInfo = {} /\ Buffer \cap Mapping = {}
    /\ (Buffer \cup Mapping) \cap Message = {}
    /\ Unset # Moved /\ {Unset, Moved} \cap (Message \cup Buffer \cup Mapping) = {}
    /\ Pulls \subseteq Message
<1>1. Messages \cap WriteInfos = {}
  BY DEF Messages, WriteInfos
<1>2. Buffer \cap Mapping = {}
  BY DEF Buffer, Mapping
<1>3. Buffer \cap Messages = {} /\ Mapping \cap Messages = {}
  BY DEF Buffer, Mapping, Messages
<1>4. Unset # Moved /\ {Unset, Moved} \cap (Message \cup Buffer \cup Mapping) = {}
  BY ContentAssumption
<1> QED
  BY <1>1, <1>2, <1>3, <1>4, InfoAssumption DEF Pulls

\* The bounds are numbers, and a message or a write info says which stream it is for.
LEMMA Parts ==
    /\ MaxGets \in Nat /\ MaxTakes \in Nat /\ MaxGives \in Nat
    /\ None \notin WriteInfo
    /\ \A m \in Message : m.method \in Method /\ m.sync \in BOOLEAN /\ m.stream \in Stream
    /\ \A w \in WriteInfo : w.method \in Method /\ w.sync \in BOOLEAN
    /\ \A x \in Buffer \cup Mapping : x.info \in Info /\ x.n \in 0..MaxGets
<1>1. {MaxGets, MaxTakes, MaxGives} \subseteq Nat /\ None \notin WriteInfo
  BY InfoAssumption
<1>2. \A m \in Message : m.method \in Method /\ m.sync \in BOOLEAN /\ m.stream \in Stream
  BY InfoAssumption DEF Messages
<1>3. \A w \in WriteInfo : w.method \in Method /\ w.sync \in BOOLEAN
  BY InfoAssumption DEF WriteInfos
<1>4. \A x \in Buffer \cup Mapping : x.info \in Info /\ x.n \in 0..MaxGets
  BY DEF Buffer, Mapping
<1> QED
  BY <1>1, <1>2, <1>3, <1>4

\* What an info may hold.
LEMMA Holds ==
    ASSUME KindInv, NEW i \in Info
    PROVE  /\ fields[i].request_data \in Optional(OfKind("request"))
           /\ fields[i].attach_data \in Optional(OfKind("attach"))
           /\ fields[i].callback \in Optional({m \in Pulls : ~m.sync})
           /\ fields[i].callbacksync \in Optional({m \in Pulls : m.sync})
           /\ fields[i].shared_memory \in Optional(OfKind("memory"))
           /\ fields[i].shared_buffer \in Optional(Mapping)
           /\ Held(i) \subseteq Buffer \cup Mapping \cup Pulls
           /\ Held(i) \cap Pulls = Callbacks(fields[i])
<1>1. fields[i] \in Contents
  BY DEF KindInv
<1>2. /\ fields[i].request_data \in Optional(OfKind("request"))
      /\ fields[i].attach_data \in Optional(OfKind("attach"))
      /\ fields[i].callback \in Optional({m \in Pulls : ~m.sync})
      /\ fields[i].callbacksync \in Optional({m \in Pulls : m.sync})
      /\ fields[i].shared_memory \in Optional(OfKind("memory"))
      /\ fields[i].shared_buffer \in Optional(Mapping)
  BY <1>1 DEF Contents
<1>3. /\ fields[i].request_data \in Buffer \cup {Unset, Moved}
      /\ fields[i].attach_data \in Buffer \cup {Unset, Moved}
      /\ fields[i].shared_memory \in Buffer \cup {Unset, Moved}
      /\ fields[i].shared_buffer \in Mapping \cup {Unset, Moved}
      /\ fields[i].callback \in Pulls \cup {Unset, Moved}
      /\ fields[i].callbacksync \in Pulls \cup {Unset, Moved}
  BY <1>2 DEF Optional, OfKind
<1>4. Held(i) \subseteq Buffer \cup Mapping \cup Pulls
  BY <1>3 DEF Held
<1>5. Held(i) \cap Pulls = Callbacks(fields[i])
  BY <1>3, Apart DEF Held, Callbacks
<1> QED
  BY <1>2, <1>4, <1>5

\* Fields with nothing in them.
LEMMA Nothing ==
    /\ NoFields \in Contents
    /\ NoFields.callback = Unset /\ NoFields.callbacksync = Unset
    /\ NoFields.shared_memory = Unset /\ NoFields.shared_buffer = Unset
    /\ Callbacks(NoFields) = {}
    /\ \A i \in Info : fields[i] = NoFields => Held(i) = {}
    /\ \A i \in Info : fields'[i] = NoFields => Held(i)' = {}
<1>1. NoFields \in Contents
  BY DEF NoFields, Contents, Optional
<1>2. Callbacks(NoFields) = {}
  BY Apart DEF NoFields, Callbacks
<1> QED
  BY <1>1, <1>2 DEF NoFields, Held

\* Contents are fields.
LEMMA ContentsAreFields == Contents \subseteq Fields
  BY DEF Contents, Fields, Optional, OfKind

\* What moving does to the content of a field.
LEMMA MovedContent ==
    /\ \A x : MovedFrom(x) \in {Unset, Moved} /\ (MovedFrom(x) = Unset <=> x = Unset)
    /\ \A S, x : MovedFrom(x) \in Optional(S)
  BY Apart DEF MovedFrom, Optional

\* A swap of callbacks, and no more, from m to w.
LEMMA SwapEffect ==
    ASSUME KindInv, NEW w \in WriteInfo, NEW m \in Message,
           MoveFields(w, m, {"callback", "callbacksync"})
    PROVE  /\ KindInv'
           /\ \A i \in Info \ {w, m} : fields'[i] = fields[i]
           /\ \A i \in {w, m} :
                 /\ fields'[i].request_data = fields[i].request_data
                 /\ fields'[i].attach_data = fields[i].attach_data
                 /\ fields'[i].shared_memory = fields[i].shared_memory
                 /\ fields'[i].shared_buffer = fields[i].shared_buffer
           /\ fields'[w].callback = fields[m].callback
           /\ fields'[w].callbacksync = fields[m].callbacksync
           /\ fields'[m].callback = MovedFrom(fields[m].callback)
           /\ fields'[m].callbacksync = MovedFrom(fields[m].callbacksync)
<1>1. w # m /\ w \in Info /\ m \in Info
  BY Apart DEF Info
<1>2. fields \in [Info -> Contents]
  BY DEF KindInv
<1>3. /\ \A i \in Info \ {w, m} : fields'[i] = fields[i]
      /\ fields'[w] = [f \in DOMAIN fields[w] |->
                          IF f \in {"callback", "callbacksync"} THEN fields[m][f] ELSE fields[w][f]]
      /\ fields'[m] = [f \in DOMAIN fields[m] |->
                          IF f \in {"callback", "callbacksync"} THEN MovedFrom(fields[m][f])
                          ELSE fields[m][f]]
      /\ fields' = [i \in Info |-> fields'[i]]
  BY <1>1, <1>2 DEF MoveFields
<1>4. /\ fields[w] \in Contents /\ fields[m] \in Contents
      /\ DOMAIN fields[w] = {"request_data", "attach_data", "callback", "callbacksync",
                             "shared_memory", "shared_buffer"}
      /\ DOMAIN fields[m] = DOMAIN fields[w]
  BY <1>1, <1>2 DEF Contents
<1>5. \A f \in {"request_data", "attach_data", "callback", "callbacksync", "shared_memory",
               "shared_buffer"} :
         /\ fields'[w][f] = IF f \in {"callback", "callbacksync"} THEN fields[m][f] ELSE fields[w][f]
         /\ fields'[m][f] = IF f \in {"callback", "callbacksync"} THEN MovedFrom(fields[m][f]) ELSE fields[m][f]
  BY <1>3, <1>4
<1>6. /\ \A i \in {w, m} :
            /\ fields'[i].request_data = fields[i].request_data
            /\ fields'[i].attach_data = fields[i].attach_data
            /\ fields'[i].shared_memory = fields[i].shared_memory
            /\ fields'[i].shared_buffer = fields[i].shared_buffer
      /\ fields'[w].callback = fields[m].callback
      /\ fields'[w].callbacksync = fields[m].callbacksync
      /\ fields'[m].callback = MovedFrom(fields[m].callback)
      /\ fields'[m].callbacksync = MovedFrom(fields[m].callbacksync)
  BY <1>5
<1>7. fields'[w] \in Contents
  BY <1>3, <1>4, <1>6 DEF Contents
<1>8. fields'[m] \in Contents
  <2>1. /\ MovedFrom(fields[m].callback) \in Optional({p \in Pulls : ~p.sync})
        /\ MovedFrom(fields[m].callbacksync) \in Optional({p \in Pulls : p.sync})
    BY MovedContent
  <2> QED
    BY <1>3, <1>4, <1>6, <2>1 DEF Contents
<1>9. KindInv'
  BY <1>2, <1>3, <1>7, <1>8 DEF KindInv
<1> QED
  BY <1>3, <1>6, <1>9

\* A swap of a message, and no more, from m to w.
LEMMA PassEffect ==
    ASSUME KindInv, NEW w \in WriteInfo, NEW m \in Message,
           MoveFields(w, m, {"request_data", "attach_data", "shared_memory", "shared_buffer"})
    PROVE  /\ KindInv'
           /\ \A i \in Info \ {w, m} : fields'[i] = fields[i]
           /\ \A i \in {w, m} :
                 /\ fields'[i].callback = fields[i].callback
                 /\ fields'[i].callbacksync = fields[i].callbacksync
           /\ fields'[w].request_data = fields[m].request_data
           /\ fields'[w].attach_data = fields[m].attach_data
           /\ fields'[w].shared_memory = fields[m].shared_memory
           /\ fields'[w].shared_buffer = fields[m].shared_buffer
           /\ fields'[m].request_data = MovedFrom(fields[m].request_data)
           /\ fields'[m].attach_data = MovedFrom(fields[m].attach_data)
           /\ fields'[m].shared_memory = MovedFrom(fields[m].shared_memory)
           /\ fields'[m].shared_buffer = MovedFrom(fields[m].shared_buffer)
<1> DEFINE message == {"request_data", "attach_data", "shared_memory", "shared_buffer"}
<1>1. w # m /\ w \in Info /\ m \in Info
  BY Apart DEF Info
<1>2. fields \in [Info -> Contents]
  BY DEF KindInv
<1>3. /\ \A i \in Info \ {w, m} : fields'[i] = fields[i]
      /\ fields'[w] = [f \in DOMAIN fields[w] |->
                          IF f \in message THEN fields[m][f] ELSE fields[w][f]]
      /\ fields'[m] = [f \in DOMAIN fields[m] |->
                          IF f \in message THEN MovedFrom(fields[m][f]) ELSE fields[m][f]]
      /\ fields' = [i \in Info |-> fields'[i]]
  BY <1>1, <1>2 DEF MoveFields
<1>4. /\ fields[w] \in Contents /\ fields[m] \in Contents
      /\ DOMAIN fields[w] = {"request_data", "attach_data", "callback", "callbacksync",
                             "shared_memory", "shared_buffer"}
      /\ DOMAIN fields[m] = DOMAIN fields[w]
  BY <1>1, <1>2 DEF Contents
<1>5. \A f \in {"request_data", "attach_data", "callback", "callbacksync", "shared_memory",
               "shared_buffer"} :
         /\ fields'[w][f] = IF f \in message THEN fields[m][f] ELSE fields[w][f]
         /\ fields'[m][f] = IF f \in message THEN MovedFrom(fields[m][f]) ELSE fields[m][f]
  BY <1>3, <1>4
<1>6. /\ \A i \in {w, m} :
            /\ fields'[i].callback = fields[i].callback
            /\ fields'[i].callbacksync = fields[i].callbacksync
      /\ fields'[w].request_data = fields[m].request_data
      /\ fields'[w].attach_data = fields[m].attach_data
      /\ fields'[w].shared_memory = fields[m].shared_memory
      /\ fields'[w].shared_buffer = fields[m].shared_buffer
      /\ fields'[m].request_data = MovedFrom(fields[m].request_data)
      /\ fields'[m].attach_data = MovedFrom(fields[m].attach_data)
      /\ fields'[m].shared_memory = MovedFrom(fields[m].shared_memory)
      /\ fields'[m].shared_buffer = MovedFrom(fields[m].shared_buffer)
  BY <1>5
<1>7. fields'[w] \in Contents
  BY <1>3, <1>4, <1>6 DEF Contents
<1>8. fields'[m] \in Contents
  <2>1. /\ MovedFrom(fields[m].request_data) \in Optional(OfKind("request"))
        /\ MovedFrom(fields[m].attach_data) \in Optional(OfKind("attach"))
        /\ MovedFrom(fields[m].shared_memory) \in Optional(OfKind("memory"))
        /\ MovedFrom(fields[m].shared_buffer) \in Optional(Mapping)
    BY MovedContent
  <2> QED
    BY <1>3, <1>4, <1>6, <2>1 DEF Contents
<1>9. KindInv'
  BY <1>2, <1>3, <1>7, <1>8 DEF KindInv
<1> QED
  BY <1>3, <1>6, <1>9

\* A read info is made with new buffers, or new memory, and its own callback.
LEMMA ContentEffect ==
    ASSUME NEW m \in Message
    PROVE  /\ Content(m) \in Contents
           /\ Content(m).shared_buffer = Unset
           /\ \A x \in {Content(m).request_data, Content(m).attach_data, Content(m).shared_memory} :
                 x = Unset \/ (x \in Buffer /\ x.info = m /\ x.n = 0)
           /\ m.method = "kMMShared" <=> Content(m).shared_memory # Unset
           /\ m \in Pulls =>
                 /\ m.sync => Content(m).callbacksync = m /\ Content(m).callback = Unset
                 /\ ~m.sync => Content(m).callback = m /\ Content(m).callbacksync = Unset
           /\ m \notin Pulls => Content(m).callback = Unset /\ Content(m).callbacksync = Unset
<1> DEFINE Part(kind) == [kind |-> kind, info |-> m, n |-> 0]
<1>1. /\ Part("request") \in OfKind("request") /\ Part("attach") \in OfKind("attach")
      /\ Part("memory") \in OfKind("memory")
  BY Parts DEF Info, Buffer, OfKind
<1>2. \A kind : Part(kind).info = m /\ Part(kind).n = 0
  OBVIOUS
<1>3. OfKind("request") \cup OfKind("attach") \cup OfKind("memory") \subseteq Buffer
  BY DEF OfKind
<1>4. PICK r, a, y : r = Part("request") /\ a = Part("attach") /\ y = Part("memory")
  OBVIOUS
<1>5. m.sync \in BOOLEAN /\ (m \in Pulls <=> m.method = "kMMPullReq")
  BY Parts DEF Pulls
<1>6. CASE m.method = "kMMShared"
  <2>1. Content(m) = [request_data |-> Unset, attach_data |-> a, callback |-> Unset,
                      callbacksync |-> Unset, shared_memory |-> y, shared_buffer |-> Unset]
    BY <1>4, <1>6 DEF Content, NoFields
  <2> QED
    BY <1>1, <1>2, <1>3, <1>4, <1>5, <1>6, <2>1, Apart DEF Contents, Optional
<1>7. CASE m.method = "kMMPullReq" /\ m.sync
  <2>1. Content(m) = [request_data |-> r, attach_data |-> a, callback |-> Unset,
                      callbacksync |-> m, shared_memory |-> Unset, shared_buffer |-> Unset]
    BY <1>4, <1>7 DEF Content, NoFields
  <2> QED
    BY <1>1, <1>2, <1>3, <1>4, <1>5, <1>7, <2>1, Apart DEF Contents, Optional
<1>8. CASE m.method = "kMMPullReq" /\ ~m.sync
  <2>1. Content(m) = [request_data |-> r, attach_data |-> a, callback |-> m,
                      callbacksync |-> Unset, shared_memory |-> Unset, shared_buffer |-> Unset]
    BY <1>4, <1>8 DEF Content, NoFields
  <2> QED
    BY <1>1, <1>2, <1>3, <1>4, <1>5, <1>8, <2>1, Apart DEF Contents, Optional
<1>9. CASE m.method \notin {"kMMShared", "kMMPullReq"}
  <2>1. Content(m) = [request_data |-> r, attach_data |-> a, callback |-> Unset,
                      callbacksync |-> Unset, shared_memory |-> Unset, shared_buffer |-> Unset]
    BY <1>4, <1>9 DEF Content, NoFields
  <2> QED
    BY <1>1, <1>2, <1>3, <1>4, <1>5, <1>9, <2>1, Apart DEF Contents, Optional
<1> QED
  BY <1>5, <1>6, <1>7, <1>8, <1>9
-----------------------------------------------------------------------------
(* What a step can do                                                      *)

\* A getter of i returns x, which is new unless a read info has had it.
Getter(i, x) ==
    /\ place[i] = "app"
    /\ gets' = [gets EXCEPT ![i] = @ + 1] /\ gets[i] < MaxGets
    /\ pointer' = pointer \cup {[info |-> i, to |-> x]}
    /\ UNCHANGED <<place, queue, stream, stopped, fate, taken, given, abort>>
    /\ KindInv'
    /\ \A j \in Info \ {i} : fields'[j] = fields[j]
    /\ fields'[i].callback = fields[i].callback
    /\ fields'[i].callbacksync = fields[i].callbacksync
    /\ x \in (Buffer \cup Mapping) \cap Held(i)' /\ x.kind \in {"request", "attach", "mapping"}
    /\ \A y \in Held(i)' \ Held(i) :
          y \in Buffer \cup Mapping /\ y.info = i /\ y.n = gets[i] + 1
    /\ \A y \in Held(i) \ Held(i)' :
          /\ y \in Buffer \cup Mapping
          /\ y.kind = "memory" \/ (y.kind = x.kind /\ x.n = gets[i] + 1)
    /\ \/ /\ fields'[i].shared_memory = fields[i].shared_memory
          /\ fields'[i].shared_buffer = fields[i].shared_buffer
          /\ x.kind # "mapping"
       \/ /\ fields'[i].shared_memory \in Buffer
          /\ fields'[i].shared_buffer.memory = fields'[i].shared_memory
    /\ i \in Message =>
          Held(i) \cap Buffer # {} /\ fields'[i].shared_memory = fields[i].shared_memory
    /\ i \in WriteInfo => x.info = i /\ x.n = gets[i] + 1

\* The info i, and what it holds, is destroyed.
Ends(i) ==
    /\ place[i] \in {"app", "task"}
    /\ place' \in [Info -> {"none", "app", "task", "done", "refused", "removed"}]
    /\ place'[i] \in {"done", "refused", "removed"}
    /\ i \in Message => place'[i] = "removed"
    /\ \A j \in Info \ {i} : place'[j] = place[j]
    /\ fields' = [fields EXCEPT ![i] = NoFields]
    /\ fate' \in [Pulls -> {"held", "answered", "void", "foreign", "dropped"}]
    /\ \A m \in Pulls : IF m \in Callbacks(fields[i]) THEN fate'[m] # "held"
                                                      ELSE fate'[m] = fate[m]
    /\ UNCHANGED <<gets, stopped, pointer, taken, given, abort>>

\* A write info is destroyed by a call, or at the end of its task.
EndsInCall(i) == Ends(i) /\ place[i] = "app" /\ queue' = queue /\ place'[i] # "done"
EndsInTask(w) ==
    /\ Ends(w) /\ place'[w] = "done" /\ StreamOf(w) \in Stream
    /\ w \in ToSet(queue[StreamOf(w)]) /\ queue[StreamOf(w)] # <<>>
    /\ Head(queue[StreamOf(w)]) = w
    /\ queue' = [queue EXCEPT ![StreamOf(w)] = Tail(@)]

\* Send posts a task.
Posts(w) ==
    /\ place[w] = "app" /\ place' = [place EXCEPT ![w] = "task"]
    /\ StreamOf(w) \in Stream \ stopped
    /\ queue' = [queue EXCEPT ![StreamOf(w)] = Append(@, w)]
    /\ UNCHANGED <<fields, gets, stream, stopped, fate, pointer, taken, given, abort>>

\* Only a stream, or what the process ends with, changes.
InfosRest == UNCHANGED <<place, fields, gets, fate, pointer, taken, given, queue>>

\* A getter that makes something new, or shows what is there.
LEMMA VectorGetter ==
    ASSUME TypeOK, KindInv, NEW i \in WriteInfo, GetsVector(i) \/ GetMMMojoWriteInfoAttach(i)
    PROVE  \E x : Getter(i, x)
<1> DEFINE kind == IF GetsVector(i) THEN "request" ELSE "attach"
<1>1. PICK x : x = [kind |-> kind, info |-> i, n |-> gets[i] + 1]
  OBVIOUS
<1>2. /\ i \in Info /\ place[i] = "app" /\ gets[i] < MaxGets /\ gets[i] \in 0..MaxGets
      /\ gets' = [gets EXCEPT ![i] = @ + 1]
      /\ UNCHANGED <<place, queue, stream, stopped, fate, taken, given, abort>>
  BY DEF GetsVector, GetMMMojoWriteInfoAttach, Gets, TypeOK, Info
<1>3. x \in OfKind(kind) /\ x \in Buffer /\ x.info = i /\ x.n = gets[i] + 1 /\ x.kind = kind
  BY <1>1, <1>2, Parts DEF Buffer, OfKind
<1>4. fields[i] \in Contents
  BY <1>2 DEF KindInv
<1>5. /\ pointer' = pointer \cup {[info |-> i, to |-> x]}
      /\ \/ kind = "request" /\ fields' = [fields EXCEPT ![i] = [fields[i] EXCEPT !.request_data = x]]
         \/ kind = "attach" /\ fields' = [fields EXCEPT ![i] = [fields[i] EXCEPT !.attach_data = x]]
  BY <1>1 DEF GetsVector, GetMMMojoWriteInfoAttach, Return, Set, New
<1>6. /\ \A j \in Info \ {i} : fields'[j] = fields[j]
      /\ fields'[i].callback = fields[i].callback
      /\ fields'[i].callbacksync = fields[i].callbacksync
      /\ fields'[i].shared_memory = fields[i].shared_memory
      /\ fields'[i].shared_buffer = fields[i].shared_buffer
      /\ \/ /\ kind = "request" /\ fields'[i].request_data = x
            /\ fields'[i].attach_data = fields[i].attach_data
         \/ /\ kind = "attach" /\ fields'[i].attach_data = x
            /\ fields'[i].request_data = fields[i].request_data
  BY <1>2, <1>4, <1>5 DEF KindInv, Contents
<1>7. fields'[i] \in Contents /\ fields' = [fields EXCEPT ![i] = fields'[i]]
  BY <1>2, <1>3, <1>4, <1>5 DEF KindInv, Contents, Optional
<1>8. KindInv'
  BY <1>2, <1>7 DEF KindInv
<1>9. x \in Held(i)' /\ \A y \in Held(i)' \ Held(i) : y = x
  BY <1>3, <1>6, Apart DEF Held
<1>10. \A y \in Held(i) \ Held(i)' : y \in Buffer /\ y.kind = kind
  BY <1>2, <1>6, Holds DEF Held, Optional, OfKind
<1>11. kind \in {"request", "attach"} /\ i \notin Message
  BY Apart
<1> QED
  BY <1>2, <1>3, <1>5, <1>6, <1>8, <1>9, <1>10, <1>11 DEF Getter

\* The getter of a write info that makes shared memory.
LEMMA MemoryGetter ==
    ASSUME TypeOK, KindInv, NEW i \in WriteInfo, GetsMemory(i)
    PROVE  \E x : Getter(i, x)
<1>1. PICK y : y = [kind |-> "memory", info |-> i, n |-> gets[i] + 1]
  OBVIOUS
<1>2. PICK x : x = [kind |-> "mapping", info |-> i, n |-> gets[i] + 1, memory |-> y]
  OBVIOUS
<1>3. /\ i \in Info /\ place[i] = "app" /\ gets[i] < MaxGets /\ gets[i] \in 0..MaxGets
      /\ gets' = [gets EXCEPT ![i] = @ + 1]
      /\ UNCHANGED <<place, queue, stream, stopped, fate, taken, given, abort>>
  BY DEF GetsMemory, Gets, TypeOK, Info
<1>4. y \in OfKind("memory") /\ y \in Buffer /\ y.info = i /\ y.n = gets[i] + 1
  BY <1>1, <1>3, Parts DEF Buffer, OfKind
<1>5. x \in Mapping /\ x.info = i /\ x.n = gets[i] + 1 /\ x.kind = "mapping" /\ x.memory = y
  BY <1>2, <1>3, <1>4, Parts DEF Mapping
<1>6. fields[i] \in Contents
  BY <1>3 DEF KindInv
<1>7. /\ pointer' = pointer \cup {[info |-> i, to |-> x]}
      /\ fields' = [fields EXCEPT ![i] =
                       [fields[i] EXCEPT !.shared_memory = y, !.shared_buffer = x]]
  BY <1>1, <1>2 DEF GetsMemory, Return, Set, New, Map
<1>8. /\ \A j \in Info \ {i} : fields'[j] = fields[j]
      /\ fields'[i].callback = fields[i].callback
      /\ fields'[i].callbacksync = fields[i].callbacksync
      /\ fields'[i].request_data = fields[i].request_data
      /\ fields'[i].attach_data = fields[i].attach_data
      /\ fields'[i].shared_memory = y /\ fields'[i].shared_buffer = x
  BY <1>3, <1>6, <1>7 DEF KindInv, Contents
<1>9. fields'[i] \in Contents /\ fields' = [fields EXCEPT ![i] = fields'[i]]
  BY <1>3, <1>4, <1>5, <1>6, <1>7 DEF KindInv, Contents, Optional
<1>10. KindInv'
  BY <1>3, <1>9 DEF KindInv
<1>11. x \in Held(i)' /\ \A z \in Held(i)' \ Held(i) : z = x \/ z = y
  BY <1>4, <1>5, <1>8, Apart DEF Held
<1>12. \A z \in Held(i) \ Held(i)' :
          (z \in Buffer /\ z.kind = "memory") \/ (z \in Mapping /\ z.kind = "mapping")
  <2>1. \A z \in Held(i) \ Held(i)' : z \in {fields[i].shared_memory, fields[i].shared_buffer}
                                             \ {Unset, Moved}
    BY <1>8 DEF Held
  <2>2. \A z \in Mapping : z.kind = "mapping"
    BY DEF Mapping
  <2> QED
    BY <1>3, <2>1, <2>2, Holds DEF Optional, OfKind
<1>13. i \notin Message
  BY Apart
<1> QED
  BY <1>3, <1>4, <1>5, <1>7, <1>8, <1>10, <1>11, <1>12, <1>13 DEF Getter

\* The getter of a read info that maps the memory that came.
LEMMA MappingGetter ==
    ASSUME TypeOK, KindInv, NEW i \in Message, Gets(i),
           fields[i].shared_memory \in Buffer,
           LET mapping == Map(i, fields[i].shared_memory)
           IN  Return(i, mapping) /\ Set(i, [fields[i] EXCEPT !.shared_buffer = mapping])
    PROVE  \E x : Getter(i, x)
<1>1. PICK x : x = [kind |-> "mapping", info |-> i, n |-> gets[i] + 1,
                    memory |-> fields[i].shared_memory]
  OBVIOUS
<1>2. /\ i \in Info /\ place[i] = "app" /\ gets[i] < MaxGets /\ gets[i] \in 0..MaxGets
      /\ gets' = [gets EXCEPT ![i] = @ + 1]
      /\ UNCHANGED <<place, queue, stream, stopped, fate, taken, given, abort>>
  BY DEF Gets, TypeOK, Info
<1>3. /\ x \in Mapping /\ x.info = i /\ x.n = gets[i] + 1 /\ x.kind = "mapping"
      /\ x.memory = fields[i].shared_memory
  BY <1>1, <1>2, Parts DEF Mapping
<1>4. fields[i] \in Contents
  BY <1>2 DEF KindInv
<1>5. /\ pointer' = pointer \cup {[info |-> i, to |-> x]}
      /\ fields' = [fields EXCEPT ![i] = [fields[i] EXCEPT !.shared_buffer = x]]
  BY <1>1 DEF Return, Set, Map
<1>6. /\ \A j \in Info \ {i} : fields'[j] = fields[j]
      /\ fields'[i].callback = fields[i].callback
      /\ fields'[i].callbacksync = fields[i].callbacksync
      /\ fields'[i].request_data = fields[i].request_data
      /\ fields'[i].attach_data = fields[i].attach_data
      /\ fields'[i].shared_memory = fields[i].shared_memory /\ fields'[i].shared_buffer = x
  BY <1>2, <1>4, <1>5 DEF KindInv, Contents
<1>7. fields'[i] \in Contents /\ fields' = [fields EXCEPT ![i] = fields'[i]]
  BY <1>2, <1>3, <1>4, <1>5 DEF KindInv, Contents, Optional
<1>8. KindInv'
  BY <1>2, <1>7 DEF KindInv
<1>9. x \in Held(i)' /\ \A z \in Held(i)' \ Held(i) : z = x
  BY <1>3, <1>6, Apart DEF Held
<1>10. \A z \in Held(i) \ Held(i)' : z \in Mapping /\ z.kind = "mapping"
  <2>1. \A z \in Held(i) \ Held(i)' : z = fields[i].shared_buffer /\ z \notin {Unset, Moved}
    BY <1>6 DEF Held
  <2>2. \A z \in Mapping : z.kind = "mapping"
    BY DEF Mapping
  <2> QED
    BY <1>2, <2>1, <2>2, Holds DEF Optional
<1>11. fields[i].shared_memory \in Held(i) /\ i \notin WriteInfo
  BY Apart DEF Held
<1> QED
  BY <1>2, <1>3, <1>5, <1>6, <1>8, <1>9, <1>10, <1>11 DEF Getter

\* The getters of a read info that show what is there.
LEMMA BufferGetter ==
    ASSUME TypeOK, KindInv, NEW i \in Message, Gets(i), UNCHANGED fields,
           NEW x \in {fields[i].request_data, fields[i].attach_data}, x \in Buffer, Return(i, x)
    PROVE  Getter(i, x)
<1>1. /\ i \in Info /\ place[i] = "app" /\ gets[i] < MaxGets
      /\ gets' = [gets EXCEPT ![i] = @ + 1]
      /\ UNCHANGED <<place, queue, stream, stopped, fate, taken, given, abort>>
  BY DEF Gets, Info
<1>2. pointer' = pointer \cup {[info |-> i, to |-> x]}
  BY DEF Return
<1>3. x.kind \in {"request", "attach"} /\ x \in Held(i)
  BY <1>1, Holds, Apart DEF Optional, OfKind, Held
<1>4. KindInv' /\ Held(i)' = Held(i) /\ i \notin WriteInfo
  BY Apart DEF KindInv, Held
<1> QED
  BY <1>1, <1>2, <1>3, <1>4 DEF Getter

\* The calls and tasks that destroy an info.
LEMMA CallEnds ==
    ASSUME TypeOK, KindInv, NEW i \in Info, place[i] = "app",
           NEW how \in {"refused", "removed"}, i \in Message => how = "removed",
           place' = [place EXCEPT ![i] = how],
           Set(i, NoFields), Drop(fields[i]),
           UNCHANGED <<gets, queue, stopped, pointer, taken, given, abort>>
    PROVE  EndsInCall(i)
<1>1. \A m \in Pulls : fate'[m] = IF m \in Callbacks(fields[i]) THEN "dropped" ELSE fate[m]
  BY DEF Drop
<1>2. fate' \in [Pulls -> {"held", "answered", "void", "foreign", "dropped"}]
  BY DEF Drop, TypeOK
<1>3. /\ place' \in [Info -> {"none", "app", "task", "done", "refused", "removed"}]
      /\ place'[i] = how /\ \A j \in Info \ {i} : place'[j] = place[j]
  BY DEF TypeOK
<1> QED
  BY <1>1, <1>2, <1>3 DEF EndsInCall, Ends, Set

\* A task destroys its write info.
LEMMA TaskEnds ==
    ASSUME TypeOK, QueueInv, NEW s \in Stream, NEW w \in WriteInfo, RunsTask(s, w),
           fate' \in [Pulls -> {"held", "answered", "void", "foreign", "dropped"}],
           \A m \in Pulls : IF m \in Callbacks(fields[w]) THEN fate'[m] # "held"
                                                          ELSE fate'[m] = fate[m],
           UNCHANGED abort
    PROVE  EndsInTask(w) /\ StreamOf(w) = s
<1>1. queue[s] \in Seq(WriteInfo) /\ queue[s] # <<>> /\ w = Head(queue[s])
  BY DEF RunsTask, TypeOK
<1>2. w \in ToSet(queue[s])
  BY <1>1, TailElements
<1>3. place[w] = "task" /\ StreamOf(w) = s
  BY <1>2 DEF QueueInv
<1>4. /\ w \in Info /\ place' \in [Info -> {"none", "app", "task", "done", "refused", "removed"}]
      /\ place'[w] = "done" /\ \A j \in Info \ {w} : place'[j] = place[j]
  BY DEF RunsTask, TypeOK, Info
<1>5. queue' = [queue EXCEPT ![StreamOf(w)] = Tail(@)] /\ fields' = [fields EXCEPT ![w] = NoFields]
  BY <1>3 DEF RunsTask, Set
<1>6. w \notin Message
  BY Apart
<1> QED
  BY <1>1, <1>2, <1>3, <1>4, <1>5, <1>6 DEF EndsInTask, Ends, RunsTask

\* Every step does one of these.
LEMMA StepMoves ==
    ASSUME TypeOK, KindInv, QueueInv, [Next]_vars
    PROVE  \/ \E m \in Message : Arrive(m)
           \/ \E w \in WriteInfo : CreateMMMojoWriteInfo(w)
           \/ \E i \in Info : \E x : Getter(i, x)
           \/ \E i \in Info : EndsInCall(i)
           \/ \E w \in WriteInfo : EndsInTask(w)
           \/ \E w \in WriteInfo, m \in Message : SwapMMMojoWriteInfoCallback(w, m)
           \/ \E w \in WriteInfo, m \in Message : SwapMMMojoWriteInfoMessage(w, m)
           \/ \E w \in WriteInfo : Posts(w)
           \/ InfosRest
<1>1. ASSUME NEW m \in Message, GetMMMojoReadInfoRequest(m) \/ GetMMMojoReadInfoAttach(m)
      PROVE  \E i \in Info : \E x : Getter(i, x)
  <2>1. Gets(m) /\ m \in Info
    BY <1>1 DEF GetMMMojoReadInfoRequest, GetMMMojoReadInfoAttach, Info
  <2>2. CASE fields[m].request_data \in Buffer /\ Return(m, fields[m].request_data)
             /\ UNCHANGED fields
    BY <2>1, <2>2, BufferGetter
  <2>3. CASE fields[m].attach_data \in Buffer /\ Return(m, fields[m].attach_data)
             /\ UNCHANGED fields
    BY <2>1, <2>3, BufferGetter
  <2>4. CASE /\ fields[m].shared_memory \in Buffer
             /\ LET mapping == Map(m, fields[m].shared_memory)
                IN  Return(m, mapping) /\ Set(m, [fields[m] EXCEPT !.shared_buffer = mapping])
    BY <2>1, <2>4, MappingGetter
  <2> QED
    BY <1>1, <2>2, <2>3, <2>4 DEF GetMMMojoReadInfoRequest, GetMMMojoReadInfoAttach
<1>2. ASSUME NEW w \in WriteInfo, GetMMMojoWriteInfoRequest(w) \/ GetMMMojoWriteInfoAttach(w)
      PROVE  \E i \in Info : \E x : Getter(i, x)
  <2>1. w \in Info
    BY DEF Info
  <2> QED
    BY <1>2, <2>1, VectorGetter, MemoryGetter DEF GetMMMojoWriteInfoRequest
<1>3. ASSUME NEW i \in Info, RemoveMMMojoReadInfo(i) \/ RemoveMMMojoWriteInfo(i)
      PROVE  EndsInCall(i)
  BY <1>3, CallEnds DEF RemoveMMMojoReadInfo, RemoveMMMojoWriteInfo
<1>4. ASSUME NEW w \in WriteInfo, SendMMMojoWriteInfo(w)
      PROVE  Posts(w) \/ EndsInCall(w) \/ InfosRest
  <2>1. w \in Info /\ w \notin Message /\ place[w] = "app"
    BY <1>4, Apart DEF Info, SendMMMojoWriteInfo
  <2>2. CASE /\ StreamOf(w) \in Stream \ stopped /\ place' = [place EXCEPT ![w] = "task"]
             /\ queue' = [queue EXCEPT ![StreamOf(w)] = Append(@, w)]
             /\ UNCHANGED <<fields, fate, abort>>
    BY <1>4, <2>1, <2>2 DEF Posts, SendMMMojoWriteInfo
  <2>3. CASE /\ place' = [place EXCEPT ![w] = "refused"]
             /\ Set(w, NoFields) /\ Drop(fields[w]) /\ UNCHANGED <<queue, abort>>
    BY <1>4, <2>1, <2>3, CallEnds DEF SendMMMojoWriteInfo
  <2>4. CASE UNCHANGED <<place, fields, queue, fate>>
    BY <1>4, <2>4 DEF SendMMMojoWriteInfo, InfosRest
  <2> QED
    BY <1>4, <2>2, <2>3, <2>4 DEF SendMMMojoWriteInfo
<1>5. ASSUME NEW s \in Stream, NEW w \in WriteInfo,
             WritesMessage(s, w) \/ SharedMMMojoWriteInfo(s, w)
      PROVE  EndsInTask(w)
  <2>1. RunsTask(s, w) /\ Drop(fields[w]) /\ abort' = abort
    BY <1>5 DEF WritesMessage, SharedMMMojoWriteInfo
  <2>2. /\ fate' \in [Pulls -> {"held", "answered", "void", "foreign", "dropped"}]
        /\ \A m \in Pulls : IF m \in Callbacks(fields[w]) THEN fate'[m] # "held"
                                                          ELSE fate'[m] = fate[m]
    BY <2>1 DEF Drop, TypeOK
  <2> QED
    BY <2>1, <2>2, TaskEnds
<1>6. ASSUME NEW s \in Stream, NEW w \in WriteInfo, PullRespMMMojoWriteInfo(s, w)
      PROVE  EndsInTask(w)
  <2>1. RunsTask(s, w) /\ abort' = abort
    BY <1>6 DEF PullRespMMMojoWriteInfo
  <2>2. /\ fate' \in [Pulls -> {"held", "answered", "void", "foreign", "dropped"}]
        /\ \A m \in Pulls : IF m \in Callbacks(fields[w]) THEN fate'[m] # "held"
                                                          ELSE fate'[m] = fate[m]
    BY <1>6 DEF PullRespMMMojoWriteInfo, TypeOK
  <2> QED
    BY <2>1, <2>2, TaskEnds
<1>7. ASSUME NEW s \in Stream, NEW w \in WriteInfo,
             SharedMMMojoWriteInfoAborts(s, w) \/ PullRespMMMojoWriteInfoAborts(s, w)
      PROVE  InfosRest
  BY <1>7 DEF SharedMMMojoWriteInfoAborts, PullRespMMMojoWriteInfoAborts, Aborts, InfosRest
<1>8. ASSUME NEW s \in Stream,
             \/ RaiseError(s) \/ OnMojoDisconnect(s)
             \/ RemoveStream(s) \/ RemoveRemoteAndReceiverStream(s)
      PROVE  InfosRest
  BY <1>8 DEF RaiseError, OnMojoDisconnect, RemoveStream, RemoveRemoteAndReceiverStream,
         SetStream, InfosRest
<1>9. UNCHANGED vars => InfosRest
  BY DEF vars, InfosRest
<1>10. Message \subseteq Info /\ WriteInfo \subseteq Info
  BY DEF Info
<1> QED
  BY <1>1, <1>2, <1>3, <1>4, <1>5, <1>6, <1>7, <1>8, <1>9, <1>10 DEF Next
-----------------------------------------------------------------------------
(* Types, and what an info can hold                                        *)

\* A read info that arrives, and what it holds.
LEMMA ArriveEffect ==
    ASSUME TypeOK, KindInv, PlaceInv, NEW m \in Message, Arrive(m)
    PROVE  /\ m \in Info /\ place[m] = "none" /\ Held(m) = {}
           /\ place' = [place EXCEPT ![m] = "app"] /\ place'[m] = "app"
           /\ \A j \in Info \ {m} : place'[j] = place[j] /\ fields'[j] = fields[j]
           /\ fields'[m] = Content(m) /\ KindInv'
           /\ \A x \in Held(m)' : x = m \/ (x \in Buffer /\ x.info = m /\ x.n = 0)
           /\ m \in Pulls => m \in Held(m)'
           /\ UNCHANGED <<gets, queue, stream, stopped, fate, pointer, taken, given, abort>>
<1>1. m \in Info /\ place[m] = "none" /\ fields[m] = NoFields
  BY DEF Arrive, PlaceInv, Info
<1>2. /\ place' = [place EXCEPT ![m] = "app"] /\ fields' = [fields EXCEPT ![m] = Content(m)]
      /\ UNCHANGED <<gets, queue, stream, stopped, fate, pointer, taken, given, abort>>
  BY DEF Arrive, Set
<1>3. /\ place'[m] = "app" /\ fields'[m] = Content(m)
      /\ \A j \in Info \ {m} : place'[j] = place[j] /\ fields'[j] = fields[j]
  BY <1>1, <1>2 DEF TypeOK
<1>4. KindInv'
  BY <1>1, <1>2, ContentEffect DEF KindInv
<1>5. \A x \in Held(m)' : x = m \/ (x \in Buffer /\ x.info = m /\ x.n = 0)
  BY <1>3, ContentEffect DEF Held
<1>6. m \in Pulls => m \in Held(m)'
  <2>1. m \in Pulls => m.sync \in BOOLEAN
    BY Parts
  <2> QED
    BY <1>3, <2>1, ContentEffect, Apart DEF Held
<1> QED
  BY <1>1, <1>2, <1>3, <1>4, <1>5, <1>6, Nothing

\* Every step keeps each content in a field of its kind.
LEMMA KindStepInv ==
    ASSUME TypeOK, KindInv, PlaceInv, QueueInv, [Next]_vars
    PROVE  KindInv'
<1>1. ASSUME NEW m \in Message, Arrive(m)
      PROVE  KindInv'
  BY <1>1, ArriveEffect
<1>2. ASSUME NEW i \in Info, \/ EndsInCall(i)
                             \/ EndsInTask(i)
      PROVE  KindInv'
  BY <1>2, Nothing DEF EndsInCall, EndsInTask, Ends, KindInv
<1>3. ASSUME NEW w \in WriteInfo, NEW m \in Message,
             SwapMMMojoWriteInfoCallback(w, m) \/ SwapMMMojoWriteInfoMessage(w, m)
      PROVE  KindInv'
  BY <1>3, SwapEffect, PassEffect DEF SwapMMMojoWriteInfoCallback, SwapMMMojoWriteInfoMessage
<1>4. UNCHANGED fields => KindInv'
  BY DEF KindInv
<1>5. WriteInfo \subseteq Info
  BY DEF Info
<1> QED
  BY <1>1, <1>2, <1>3, <1>4, <1>5, StepMoves
     DEF Getter, Posts, CreateMMMojoWriteInfo, InfosRest

\* What a step can do to the streams.
LEMMA StreamMoves ==
    ASSUME TypeOK, KindInv, QueueInv, [Next]_vars
    PROVE  \/ UNCHANGED <<stream, stopped>>
           \/ \E s \in Stream, w \in WriteInfo :
                 /\ SharedMMMojoWriteInfo(s, w) /\ fields[w].shared_memory = Moved
                 /\ stream[s] = "open" /\ stream' = [stream EXCEPT ![s] = "refused"]
                 /\ stopped' = stopped
           \/ \E s \in Stream :
                 /\ \/ /\ stream' = [stream EXCEPT ![s] = "error"] /\ stopped' = stopped
                       /\ Lost(s)
                    \/ stream' = [stream EXCEPT ![s] = "gone"] /\ stopped' = stopped
                    \/ /\ stream' = [stream EXCEPT ![s] = "reset"] /\ stopped' = stopped
                       /\ stream[s] \in {"error", "refused"}
                    \/ /\ stream' = [stream EXCEPT ![s] = "removed"] /\ stopped' = stopped
                       /\ s \in stopped /\ queue[s] = <<>>
                    \/ stopped' = stopped \cup {s} /\ stream' = stream
                 /\ InfosRest /\ abort' = abort
<1>1. ASSUME NEW m \in Message,
             \/ Arrive(m) \/ RemoveMMMojoReadInfo(m)
             \/ GetMMMojoReadInfoRequest(m) \/ GetMMMojoReadInfoAttach(m)
      PROVE  UNCHANGED <<stream, stopped>>
  BY <1>1 DEF Arrive, RemoveMMMojoReadInfo, GetMMMojoReadInfoRequest, GetMMMojoReadInfoAttach,
         Gets
<1>2. ASSUME NEW w \in WriteInfo,
             \/ CreateMMMojoWriteInfo(w) \/ GetMMMojoWriteInfoRequest(w)
             \/ GetMMMojoWriteInfoAttach(w) \/ SendMMMojoWriteInfo(w) \/ RemoveMMMojoWriteInfo(w)
      PROVE  UNCHANGED <<stream, stopped>>
  BY <1>2 DEF CreateMMMojoWriteInfo, GetMMMojoWriteInfoRequest, GetsVector, GetsMemory,
         GetMMMojoWriteInfoAttach, SendMMMojoWriteInfo, RemoveMMMojoWriteInfo, Gets
<1>3. ASSUME NEW w \in WriteInfo, NEW m \in Message,
             SwapMMMojoWriteInfoCallback(w, m) \/ SwapMMMojoWriteInfoMessage(w, m)
      PROVE  UNCHANGED <<stream, stopped>>
  BY <1>3 DEF SwapMMMojoWriteInfoCallback, SwapMMMojoWriteInfoMessage, TakesCallback,
         PassesMessage
<1>4. ASSUME NEW s \in Stream, NEW w \in WriteInfo,
             \/ WritesMessage(s, w) \/ SharedMMMojoWriteInfoAborts(s, w)
             \/ PullRespMMMojoWriteInfo(s, w) \/ PullRespMMMojoWriteInfoAborts(s, w)
      PROVE  UNCHANGED <<stream, stopped>>
  BY <1>4 DEF WritesMessage, SharedMMMojoWriteInfoAborts, PullRespMMMojoWriteInfo,
         PullRespMMMojoWriteInfoAborts, RunsTask, Aborts
<1>5. ASSUME NEW s \in Stream, RaiseError(s)
      PROVE  /\ stream' = [stream EXCEPT ![s] = "error"] /\ stopped' = stopped
             /\ Lost(s) /\ InfosRest /\ abort' = abort
  BY <1>5 DEF RaiseError, SetStream, InfosRest, Lost
<1>6. ASSUME NEW s \in Stream, OnMojoDisconnect(s)
      PROVE  /\ \/ stream' = [stream EXCEPT ![s] = "gone"]
                \/ /\ stream' = [stream EXCEPT ![s] = "reset"]
                   /\ stream[s] \in {"error", "refused"}
             /\ stopped' = stopped /\ InfosRest /\ abort' = abort
  BY <1>6 DEF OnMojoDisconnect, SetStream, InfosRest
<1>7. ASSUME NEW s \in Stream, RemoveRemoteAndReceiverStream(s)
      PROVE  /\ stream' = [stream EXCEPT ![s] = "removed"] /\ stopped' = stopped
             /\ s \in stopped /\ queue[s] = <<>>
             /\ InfosRest /\ abort' = abort
  BY <1>7 DEF RemoveRemoteAndReceiverStream, SetStream, InfosRest
<1>8. ASSUME NEW s \in Stream, RemoveStream(s)
      PROVE  /\ stopped' = stopped \cup {s} /\ stream' = stream
             /\ InfosRest /\ abort' = abort
  BY <1>8 DEF RemoveStream, InfosRest
<1>9. UNCHANGED vars => UNCHANGED <<stream, stopped>>
  BY DEF vars
<1>10. ASSUME NEW s \in Stream, NEW w \in WriteInfo, SharedMMMojoWriteInfo(s, w)
       PROVE  \/ UNCHANGED <<stream, stopped>>
              \/ /\ fields[w].shared_memory = Moved /\ stream[s] = "open"
                 /\ stream' = [stream EXCEPT ![s] = "refused"] /\ stopped' = stopped
  BY <1>10 DEF SharedMMMojoWriteInfo, RunsTask, TypeOK
<1> QED
  BY <1>1, <1>2, <1>3, <1>4, <1>5, <1>6, <1>7, <1>8, <1>9, <1>10 DEF Next

\* What a step can end the process with.
LEMMA AbortMoves ==
    ASSUME [Next]_vars
    PROVE  \/ abort' = abort
           \/ /\ abort = None /\ InfosRest /\ UNCHANGED <<stream, stopped>>
              /\ abort' \in WriteInfo
              /\ \/ abort'.pipe \in Missing \/ (abort'.pipe # NoPipe /\ AppendReset)
                 \/ /\ abort'.method = "kMMShared" /\ fields[abort'].shared_memory = Unset
                    /\ \E s \in Stream : queue[s] # <<>> /\ Head(queue[s]) = abort'
                 \/ /\ abort'.method = "kMMPullResp" /\ Used(abort') = Moved
<1>1. ASSUME NEW m \in Message,
             \/ Arrive(m) \/ RemoveMMMojoReadInfo(m)
             \/ GetMMMojoReadInfoRequest(m) \/ GetMMMojoReadInfoAttach(m)
      PROVE  abort' = abort
  BY <1>1 DEF Arrive, RemoveMMMojoReadInfo, GetMMMojoReadInfoRequest, GetMMMojoReadInfoAttach,
         Gets
<1>2. ASSUME NEW w \in WriteInfo,
             \/ CreateMMMojoWriteInfo(w) \/ GetMMMojoWriteInfoRequest(w)
             \/ GetMMMojoWriteInfoAttach(w) \/ RemoveMMMojoWriteInfo(w)
      PROVE  abort' = abort
  BY <1>2 DEF CreateMMMojoWriteInfo, GetMMMojoWriteInfoRequest, GetsVector, GetsMemory,
         GetMMMojoWriteInfoAttach, RemoveMMMojoWriteInfo, Gets
<1>3. ASSUME NEW w \in WriteInfo, NEW m \in Message,
             SwapMMMojoWriteInfoCallback(w, m) \/ SwapMMMojoWriteInfoMessage(w, m)
      PROVE  abort' = abort
  BY <1>3 DEF SwapMMMojoWriteInfoCallback, SwapMMMojoWriteInfoMessage, TakesCallback,
         PassesMessage
<1>4. ASSUME NEW s \in Stream, NEW w \in WriteInfo,
             \/ WritesMessage(s, w) \/ SharedMMMojoWriteInfo(s, w)
             \/ PullRespMMMojoWriteInfo(s, w)
      PROVE  abort' = abort
  BY <1>4 DEF WritesMessage, SharedMMMojoWriteInfo, PullRespMMMojoWriteInfo
<1>5. ASSUME NEW s \in Stream,
             \/ RaiseError(s) \/ OnMojoDisconnect(s)
             \/ RemoveStream(s) \/ RemoveRemoteAndReceiverStream(s)
      PROVE  abort' = abort
  BY <1>5 DEF RaiseError, OnMojoDisconnect, RemoveStream, RemoveRemoteAndReceiverStream,
         SetStream
<1>6. ASSUME NEW w \in WriteInfo, SendMMMojoWriteInfo(w)
      PROVE  \/ abort' = abort
             \/ /\ abort' = w /\ (w.pipe \in Missing \/ (w.pipe # NoPipe /\ AppendReset))
                /\ InfosRest /\ UNCHANGED <<stream, stopped>>
  BY <1>6 DEF SendMMMojoWriteInfo, InfosRest
<1>7. ASSUME NEW s \in Stream, NEW w \in WriteInfo,
             SharedMMMojoWriteInfoAborts(s, w) \/ PullRespMMMojoWriteInfoAborts(s, w)
      PROVE  /\ abort' = w /\ InfosRest /\ UNCHANGED <<stream, stopped>>
             /\ queue[s] # <<>> /\ Head(queue[s]) = w
             /\ \/ w.method = "kMMShared" /\ fields[w].shared_memory = Unset
                \/ w.method = "kMMPullResp" /\ Used(w) = Moved
  BY <1>7 DEF SharedMMMojoWriteInfoAborts, PullRespMMMojoWriteInfoAborts, Aborts, InfosRest
<1>8. UNCHANGED vars => abort' = abort
  BY DEF vars
<1> QED
  BY <1>1, <1>2, <1>3, <1>4, <1>5, <1>6, <1>7, <1>8 DEF Next

\* Every step keeps the types.
LEMMA StepType ==
    ASSUME TypeOK, KindInv, PlaceInv, QueueInv, [Next]_vars
    PROVE  TypeOK'
<1>1. fields' \in [Info -> Fields]
  BY KindStepInv, ContentsAreFields DEF KindInv
<1>2. abort' \in WriteInfo \cup {None}
  BY AbortMoves DEF TypeOK
<1>3. /\ stream' \in [Stream -> {"open", "refused", "error", "reset", "gone", "removed"}]
      /\ stopped' \subseteq Stream
  BY StreamMoves DEF TypeOK
<1> DEFINE P == /\ place' \in [Info -> {"none", "app", "task", "done", "refused", "removed"}]
                /\ gets' \in [Info -> 0..MaxGets]
                /\ queue' \in [Stream -> Seq(WriteInfo)]
                /\ fate' \in [Pulls -> {"held", "answered", "void", "foreign", "dropped"}]
                /\ pointer' \subseteq [info : Info, to : Buffer \cup Mapping]
                /\ taken' \in [Message -> Seq(WriteInfo)]
                /\ given' \in [Message -> Seq(WriteInfo)]
<1>4. ASSUME NEW m \in Message, Arrive(m)
      PROVE  P
  BY <1>4 DEF Arrive, TypeOK
<1>5. ASSUME NEW w \in WriteInfo, CreateMMMojoWriteInfo(w)
      PROVE  P
  BY <1>5 DEF CreateMMMojoWriteInfo, TypeOK
<1>6. ASSUME NEW i \in Info, NEW x, Getter(i, x)
      PROVE  P
  <2>1. gets[i] + 1 \in 0..MaxGets
    BY <1>6, Parts DEF Getter, TypeOK
  <2>2. [info |-> i, to |-> x] \in [info : Info, to : Buffer \cup Mapping]
    BY <1>6 DEF Getter
  <2> QED
    BY <1>6, <2>1, <2>2 DEF Getter, TypeOK
<1>7. ASSUME NEW i \in Info, EndsInCall(i)
      PROVE  P
  BY <1>7 DEF EndsInCall, Ends, TypeOK
<1>8. ASSUME NEW w \in WriteInfo, EndsInTask(w)
      PROVE  P
  <2>1. Tail(queue[StreamOf(w)]) \in Seq(WriteInfo)
    BY <1>8, TailElements DEF EndsInTask, TypeOK
  <2> QED
    BY <1>8, <2>1 DEF EndsInTask, Ends, TypeOK
<1>9. ASSUME NEW w \in WriteInfo, NEW m \in Message, SwapMMMojoWriteInfoCallback(w, m)
      PROVE  P
  <2>1. Append(taken[m], w) \in Seq(WriteInfo)
    BY AppendElements DEF TypeOK
  <2> QED
    BY <1>9, <2>1 DEF SwapMMMojoWriteInfoCallback, TakesCallback, Drop, TypeOK
<1>10. ASSUME NEW w \in WriteInfo, NEW m \in Message, SwapMMMojoWriteInfoMessage(w, m)
       PROVE  P
  <2>1. Append(given[m], w) \in Seq(WriteInfo)
    BY AppendElements DEF TypeOK
  <2> QED
    BY <1>10, <2>1 DEF SwapMMMojoWriteInfoMessage, PassesMessage, TypeOK
<1>11. ASSUME NEW w \in WriteInfo, Posts(w)
       PROVE  P
  <2>1. Append(queue[StreamOf(w)], w) \in Seq(WriteInfo)
    BY <1>11, AppendElements DEF Posts, TypeOK
  <2> QED
    BY <1>11, <2>1 DEF Posts, TypeOK
<1>12. ASSUME InfosRest
       PROVE  P
  <2>1. /\ place' = place /\ gets' = gets /\ queue' = queue /\ fate' = fate
        /\ pointer' = pointer /\ taken' = taken /\ given' = given
    BY <1>12 DEF InfosRest
  <2> QED
    BY <2>1 DEF TypeOK
<1>13. P
  <2> HIDE DEF P
  <2> QED
    BY <1>4, <1>5, <1>6, <1>7, <1>8, <1>9, <1>10, <1>11, <1>12, StepMoves
<1> QED
  BY <1>1, <1>2, <1>3, <1>13 DEF TypeOK
-----------------------------------------------------------------------------
(* Who holds what                                                          *)

\* An info whose fields are left alone holds what it held.
LEMMA HeldStays == \A i \in Info : fields'[i] = fields[i] => Held(i)' = Held(i)
  BY DEF Held

\* A swap hands on what callbacks there are.
LEMMA SwapHeld ==
    ASSUME KindInv, NEW w \in WriteInfo, NEW m \in Message, SwapMMMojoWriteInfoCallback(w, m)
    PROVE  /\ \A i \in Info \ {w, m} : Held(i)' = Held(i)
           /\ Held(w)' = (Held(w) \ Pulls) \cup (Held(m) \cap Pulls)
           /\ Held(m)' = Held(m) \ Pulls
           /\ w # m /\ w \in Info /\ m \in Info /\ place[w] = "app" /\ place[m] = "app"
           /\ taken' = [taken EXCEPT ![m] = Append(@, w)]
           /\ \A p \in Pulls : fate'[p] = IF p \in Held(w) THEN "dropped" ELSE fate[p]
           /\ UNCHANGED <<place, gets, queue, stream, stopped, pointer, given, abort>>
<1>1. w # m /\ w \in Info /\ m \in Info
  BY Apart DEF Info
<1>2. /\ MoveFields(w, m, {"callback", "callbacksync"}) /\ Drop(fields[w])
      /\ place[w] = "app" /\ place[m] = "app"
      /\ taken' = [taken EXCEPT ![m] = Append(@, w)]
      /\ UNCHANGED <<place, gets, queue, stream, stopped, pointer, given, abort>>
  BY DEF SwapMMMojoWriteInfoCallback, TakesCallback
<1>3. /\ \A i \in Info \ {w, m} : fields'[i] = fields[i]
      /\ \A i \in {w, m} :
            /\ fields'[i].request_data = fields[i].request_data
            /\ fields'[i].attach_data = fields[i].attach_data
            /\ fields'[i].shared_memory = fields[i].shared_memory
            /\ fields'[i].shared_buffer = fields[i].shared_buffer
      /\ fields'[w].callback = fields[m].callback
      /\ fields'[w].callbacksync = fields[m].callbacksync
      /\ fields'[m].callback \in {Unset, Moved} /\ fields'[m].callbacksync \in {Unset, Moved}
  BY <1>2, SwapEffect, MovedContent
<1>4. ASSUME NEW i \in {w, m}
      PROVE  /\ {fields[i].request_data, fields[i].attach_data, fields[i].shared_memory,
                 fields[i].shared_buffer} \cap Pulls = {}
             /\ {fields[i].callback, fields[i].callbacksync} \subseteq Pulls \cup {Unset, Moved}
  BY <1>1, <1>4, Holds, Apart DEF Optional, OfKind
<1>5. Held(w)' = (Held(w) \ Pulls) \cup (Held(m) \cap Pulls)
  BY <1>3, <1>4, Apart DEF Held
<1>6. Held(m)' = Held(m) \ Pulls
  BY <1>3, <1>4, Apart DEF Held
<1>7. \A p \in Pulls : p \in Callbacks(fields[w]) <=> p \in Held(w)
  BY <1>1, Holds
<1> QED
  BY <1>1, <1>2, <1>3, <1>5, <1>6, <1>7, HeldStays DEF Drop

\* A swap hands on all but the callbacks.
LEMMA PassHeld ==
    ASSUME KindInv, NEW w \in WriteInfo, NEW m \in Message, SwapMMMojoWriteInfoMessage(w, m)
    PROVE  /\ \A i \in Info \ {w, m} : Held(i)' = Held(i)
           /\ Held(w)' = (Held(w) \cap Pulls) \cup (Held(m) \ Pulls)
           /\ Held(m)' = Held(m) \cap Pulls
           /\ w # m /\ w \in Info /\ m \in Info /\ place[w] = "app" /\ place[m] = "app"
           /\ given' = [given EXCEPT ![m] = Append(@, w)]
           /\ UNCHANGED <<place, gets, queue, stream, stopped, fate, pointer, taken, abort>>
<1>1. w # m /\ w \in Info /\ m \in Info
  BY Apart DEF Info
<1>2. /\ MoveFields(w, m, {"request_data", "attach_data", "shared_memory", "shared_buffer"})
      /\ place[w] = "app" /\ place[m] = "app"
      /\ given' = [given EXCEPT ![m] = Append(@, w)]
      /\ UNCHANGED <<place, gets, queue, stream, stopped, fate, pointer, taken, abort>>
  BY DEF SwapMMMojoWriteInfoMessage, PassesMessage
<1>3. /\ \A i \in Info \ {w, m} : fields'[i] = fields[i]
      /\ \A i \in {w, m} :
            /\ fields'[i].callback = fields[i].callback
            /\ fields'[i].callbacksync = fields[i].callbacksync
      /\ fields'[w].request_data = fields[m].request_data
      /\ fields'[w].attach_data = fields[m].attach_data
      /\ fields'[w].shared_memory = fields[m].shared_memory
      /\ fields'[w].shared_buffer = fields[m].shared_buffer
      /\ {fields'[m].request_data, fields'[m].attach_data, fields'[m].shared_memory,
          fields'[m].shared_buffer} \subseteq {Unset, Moved}
  BY <1>2, PassEffect, MovedContent
<1>4. ASSUME NEW i \in {w, m}
      PROVE  /\ {fields[i].request_data, fields[i].attach_data, fields[i].shared_memory,
                 fields[i].shared_buffer} \cap Pulls = {}
             /\ {fields[i].callback, fields[i].callbacksync} \subseteq Pulls \cup {Unset, Moved}
  BY <1>1, <1>4, Holds, Apart DEF Optional, OfKind
<1>5. Held(w)' = (Held(w) \cap Pulls) \cup (Held(m) \ Pulls)
  BY <1>3, <1>4, Apart DEF Held
<1>6. Held(m)' = Held(m) \cap Pulls
  BY <1>3, <1>4, Apart DEF Held
<1> QED
  BY <1>1, <1>2, <1>3, <1>5, <1>6, HeldStays

\* An info that ends holds nothing.
LEMMA EndsHeld ==
    ASSUME TypeOK, KindInv, NEW i \in Info, Ends(i)
    PROVE  /\ Held(i)' = {} /\ fields'[i] = NoFields
           /\ \A j \in Info \ {i} : Held(j)' = Held(j) /\ fields'[j] = fields[j]
           /\ \A p \in Pulls : /\ p \in Held(i) => fate'[p] # "held"
                               /\ p \notin Held(i) => fate'[p] = fate[p]
<1>1. fields' = [fields EXCEPT ![i] = NoFields]
  BY DEF Ends
<1>2. fields'[i] = NoFields /\ \A j \in Info \ {i} : fields'[j] = fields[j]
  BY <1>1 DEF TypeOK
<1>3. \A p \in Pulls : p \in Callbacks(fields[i]) <=> p \in Held(i)
  BY Holds
<1> QED
  BY <1>2, <1>3, Nothing, HeldStays DEF Ends

\* Every step leaves an info that is not there empty and unswapped.
LEMMA PlaceStepInv ==
    ASSUME TypeOK, KindInv, PlaceInv, QueueInv, [Next]_vars
    PROVE  PlaceInv'
<1>0. /\ \A w \in WriteInfo, m \in Message : taken[m] \in Seq(WriteInfo) /\ given[m] \in Seq(WriteInfo)
      /\ Message \subseteq Info /\ WriteInfo \subseteq Info
  BY DEF TypeOK, Info
<1>1. ASSUME NEW m \in Message, Arrive(m)
      PROVE  PlaceInv'
  BY <1>0, <1>1, ArriveEffect, Apart DEF PlaceInv
<1>2. ASSUME NEW w \in WriteInfo, CreateMMMojoWriteInfo(w)
      PROVE  PlaceInv'
  BY <1>0, <1>2 DEF CreateMMMojoWriteInfo, PlaceInv, TypeOK
<1>3. ASSUME NEW i \in Info, NEW x, Getter(i, x)
      PROVE  PlaceInv'
  BY <1>3 DEF Getter, PlaceInv
<1>4. ASSUME NEW i \in Info, Ends(i)
      PROVE  PlaceInv'
  <2>1. /\ fields'[i] = NoFields /\ \A j \in Info \ {i} : fields'[j] = fields[j]
        /\ i \in Message => place'[i] = "removed"
        /\ place'[i] # "none" /\ \A j \in Info \ {i} : place'[j] = place[j]
        /\ taken' = taken /\ given' = given
    BY <1>4, EndsHeld DEF Ends
  <2> QED
    BY <1>0, <2>1 DEF PlaceInv
<1>5. ASSUME NEW w \in WriteInfo, NEW m \in Message, SwapMMMojoWriteInfoCallback(w, m)
      PROVE  PlaceInv'
  <2>1. /\ place' = place /\ place[w] = "app" /\ place[m] = "app" /\ given' = given
        /\ taken' = [taken EXCEPT ![m] = Append(@, w)]
        /\ \A i \in Info \ {w, m} : fields'[i] = fields[i]
    BY <1>5, SwapHeld, SwapEffect DEF SwapMMMojoWriteInfoCallback
  <2>2. ToSet(taken'[m]) = ToSet(taken[m]) \cup {w}
    BY <1>0, <2>1, AppendElements DEF TypeOK
  <2> QED
    BY <2>1, <2>2 DEF PlaceInv, TypeOK
<1>6. ASSUME NEW w \in WriteInfo, NEW m \in Message, SwapMMMojoWriteInfoMessage(w, m)
      PROVE  PlaceInv'
  <2>1. /\ place' = place /\ place[w] = "app" /\ place[m] = "app" /\ taken' = taken
        /\ given' = [given EXCEPT ![m] = Append(@, w)]
        /\ \A i \in Info \ {w, m} : fields'[i] = fields[i]
    BY <1>6, PassHeld, PassEffect DEF SwapMMMojoWriteInfoMessage
  <2>2. ToSet(given'[m]) = ToSet(given[m]) \cup {w}
    BY <1>0, <2>1, AppendElements DEF TypeOK
  <2> QED
    BY <2>1, <2>2 DEF PlaceInv, TypeOK
<1>7. ASSUME NEW w \in WriteInfo, Posts(w)
      PROVE  PlaceInv'
  BY <1>0, <1>7, Apart DEF Posts, PlaceInv, TypeOK
<1>8. CASE InfosRest
  BY <1>8 DEF InfosRest, PlaceInv
<1> QED
  BY <1>0, <1>1, <1>2, <1>3, <1>4, <1>5, <1>6, <1>7, <1>8, StepMoves DEF EndsInCall, EndsInTask

\* Every step keeps new what messages and getters have yet to make.
LEMMA FreshStepInv ==
    ASSUME TypeOK, KindInv, PlaceInv, QueueInv, FreshInv, [Next]_vars
    PROVE  FreshInv'
<1>0. /\ Pulls \subseteq Info /\ \A x \in Buffer \cup Mapping : x.info \in Info /\ x.n \in Nat
      /\ \A i \in Info : gets[i] \in Nat
      /\ (Buffer \cup Mapping) \cap Pulls = {}
  BY Apart, Parts DEF Info, TypeOK
<1>1. ASSUME \A i \in Info : place[i] # "none" => place'[i] # "none",
             \A i \in Info : gets[i] <= gets'[i],
             \A m \in Pulls : fate'[m] = "held" \/ fate'[m] = fate[m] \/ place[m] # "none",
             \A i \in Info : \A x \in Held(i)' :
                \/ \E j \in Info : x \in Held(j)
                \/ x \in Pulls /\ place'[x] # "none"
                \/ x \in Buffer \cup Mapping /\ place'[x.info] # "none" /\ x.n <= gets'[x.info]
      PROVE  FreshInv'
  <2>1. ASSUME NEW i \in Info, NEW x \in Held(i)'
        PROVE  /\ x \in Pulls => place'[x] # "none"
               /\ x \in Buffer \cup Mapping => place'[x.info] # "none" /\ x.n <= gets'[x.info]
    <3>1. CASE \E j \in Info : x \in Held(j)
      <4>1. /\ x \in Pulls => place[x] # "none"
            /\ x \in Buffer \cup Mapping => place[x.info] # "none" /\ x.n <= gets[x.info]
        BY <3>1 DEF FreshInv
      <4>2. x \in Buffer \cup Mapping => gets[x.info] <= gets'[x.info] /\ x.n <= gets'[x.info]
        <5> SUFFICES ASSUME x \in Buffer \cup Mapping
                     PROVE  x.n <= gets'[x.info] /\ gets[x.info] <= gets'[x.info]
          OBVIOUS
        <5>1. x.info \in Info /\ x.n \in Nat /\ gets[x.info] \in Nat
          BY <1>0
        <5>2. gets'[x.info] \in Nat
          BY <5>1, StepType, Parts DEF TypeOK
        <5> QED
          BY <1>1, <4>1, <5>1, <5>2
      <4> QED
        BY <1>0, <1>1, <4>1, <4>2
    <3> QED
      BY <1>0, <1>1, <2>1, <3>1
  <2>2. \A m \in Pulls : place'[m] = "none" => fate'[m] = "held"
    BY <1>0, <1>1 DEF FreshInv
  <2> QED
    BY <2>1, <2>2 DEF FreshInv
<1>2. ASSUME NEW m \in Message, Arrive(m)
      PROVE  FreshInv'
  <2>1. \A x \in Held(m)' : x = m \/ (x \in Buffer /\ x.info = m /\ x.n = 0)
    BY <1>2, ArriveEffect
  <2>2. m \in Held(m)' => m \in Pulls
    <3>1. m \in Pulls \/ (fields'[m].callback = Unset /\ fields'[m].callbacksync = Unset)
      BY <1>2, ArriveEffect, ContentEffect
    <3>2. m \notin {fields'[m].request_data, fields'[m].attach_data, fields'[m].shared_memory}
      BY <1>2, ArriveEffect, ContentEffect, Apart
    <3>3. fields'[m].shared_buffer = Unset
      BY <1>2, ArriveEffect, ContentEffect
    <3> QED
      BY <3>1, <3>2, <3>3, Apart DEF Held
  <2>3. \A j \in Info \ {m} : Held(j)' = Held(j) /\ place'[j] = place[j]
    BY <1>2, ArriveEffect, HeldStays
  <2> QED
    BY <1>0, <1>1, <1>2, <2>1, <2>2, <2>3, ArriveEffect
<1>3. ASSUME NEW w \in WriteInfo, CreateMMMojoWriteInfo(w)
      PROVE  FreshInv'
  <2>1. UNCHANGED <<fields, gets, fate>> /\ \A i \in Info : place[i] # "none" => place'[i] # "none"
    BY <1>3 DEF CreateMMMojoWriteInfo, TypeOK
  <2> QED
    BY <1>0, <1>1, <2>1, HeldStays
<1>4. ASSUME NEW i \in Info, NEW x, Getter(i, x)
      PROVE  FreshInv'
  <2>1. place' = place /\ fate' = fate /\ gets'[i] = gets[i] + 1 /\ place[i] # "none"
        /\ \A j \in Info : gets[j] <= gets'[j]
    BY <1>0, <1>4 DEF Getter, TypeOK
  <2>2. \A j \in Info \ {i} : Held(j)' = Held(j)
    BY <1>4, HeldStays DEF Getter
  <2>3. \A y \in Held(i)' \ Held(i) : y \in Buffer \cup Mapping /\ y.info = i /\ y.n = gets'[i]
    BY <1>4, <2>1 DEF Getter
  <2>4. gets'[i] <= gets'[i]
    BY <1>0, <2>1
  <2> QED
    BY <1>1, <2>1, <2>2, <2>3, <2>4
<1>5. ASSUME NEW i \in Info, Ends(i)
      PROVE  FreshInv'
  <2>1. /\ \A j \in Info : place[j] # "none" => place'[j] # "none"
        /\ gets' = gets /\ \A j \in Info : Held(j)' \subseteq Held(j)
    BY <1>5, EndsHeld DEF Ends
  <2>2. \A p \in Pulls : fate'[p] = fate[p] \/ p \in Held(i)
    BY <1>5, EndsHeld
  <2> QED
    BY <1>0, <1>1, <1>5, <2>1, <2>2 DEF FreshInv
<1>6. ASSUME NEW w \in WriteInfo, NEW m \in Message, SwapMMMojoWriteInfoCallback(w, m)
      PROVE  FreshInv'
  <2>1. /\ place' = place /\ gets' = gets /\ w \in Info
        /\ \A j \in Info : \A x \in Held(j)' : \E k \in Info : x \in Held(k)
    BY <1>6, SwapHeld
  <2>2. \A p \in Pulls : fate'[p] = fate[p] \/ p \in Held(w)
    BY <1>6, SwapHeld
  <2> QED
    BY <1>0, <1>1, <2>1, <2>2 DEF FreshInv
<1>7. ASSUME NEW w \in WriteInfo, NEW m \in Message, SwapMMMojoWriteInfoMessage(w, m)
      PROVE  FreshInv'
  <2>1. /\ place' = place /\ gets' = gets /\ fate' = fate
        /\ \A j \in Info : \A x \in Held(j)' : \E k \in Info : x \in Held(k)
    BY <1>7, PassHeld
  <2> QED
    BY <1>0, <1>1, <2>1
<1>8. ASSUME NEW w \in WriteInfo, Posts(w)
      PROVE  FreshInv'
  <2>1. UNCHANGED <<fields, gets, fate>> /\ \A i \in Info : place[i] # "none" => place'[i] # "none"
    BY <1>8 DEF Posts, TypeOK
  <2> QED
    BY <1>0, <1>1, <2>1, HeldStays
<1>9. CASE InfosRest
  BY <1>0, <1>1, <1>9, HeldStays DEF InfosRest
<1>10. WriteInfo \subseteq Info
  BY DEF Info
<1> QED
  BY <1>2, <1>3, <1>4, <1>5, <1>6, <1>7, <1>8, <1>9, <1>10, StepMoves DEF EndsInCall, EndsInTask

\* Every step keeps each callback, buffer and mapping with one info.
LEMMA OwnerStepInv ==
    ASSUME TypeOK, KindInv, PlaceInv, QueueInv, FreshInv, OneOwner, [Next]_vars
    PROVE  OneOwner'
<1>0. /\ Pulls \subseteq Info /\ (Buffer \cup Mapping) \cap Pulls = {}
      /\ \A i \in Info : gets[i] \in Nat /\ Held(i) \subseteq Buffer \cup Mapping \cup Pulls
      /\ \A x \in Buffer \cup Mapping : x.n \in Nat
  <2>1. Pulls \subseteq Info /\ (Buffer \cup Mapping) \cap Pulls = {}
    BY Apart DEF Info
  <2>2. \A i \in Info : gets[i] \in Nat
    BY Parts DEF TypeOK
  <2>3. \A x \in Buffer \cup Mapping : x.n \in Nat
    BY Parts
  <2> QED
    BY <2>1, <2>2, <2>3, Holds
<1>1. /\ \A i, j \in Info : i # j => Held(i) \cap Held(j) = {}
      /\ \A m \in Pulls : fate[m] # "held" => \A i \in Info : m \notin Held(i)
      /\ \A m \in Pulls : fate[m] = "held" /\ place[m] # "none" => \E i \in Info : m \in Held(i)
  BY DEF OneOwner
<1>2. ASSUME \A i \in Info : Held(i)' = Held(i), fate' = fate,
             \A m \in Pulls : place'[m] # "none" => place[m] # "none"
      PROVE  OneOwner'
  BY <1>1, <1>2 DEF OneOwner
<1>3. ASSUME NEW m \in Message, Arrive(m)
      PROVE  OneOwner'
  <2>1. /\ \A j \in Info \ {m} : Held(j)' = Held(j) /\ place'[j] = place[j]
        /\ Held(m) = {} /\ fate' = fate /\ m \in Info /\ place[m] = "none"
        /\ m \in Pulls => m \in Held(m)'
    BY <1>3, ArriveEffect, HeldStays
  <2>2. ASSUME NEW x \in Held(m)', NEW j \in Info
        PROVE  x \notin Held(j)
    <3>1. x = m \/ (x \in Buffer /\ x.info = m)
      BY <1>3, ArriveEffect
    <3>2. CASE x = m
      BY <1>0, <1>3, <2>1, <3>2, Apart DEF FreshInv
    <3>3. CASE x \in Buffer /\ x.info = m
      BY <2>1, <3>3 DEF FreshInv
    <3> QED
      BY <3>1, <3>2, <3>3
  <2>3. \A i, j \in Info : i # j => Held(i)' \cap Held(j)' = {}
    BY <1>1, <2>1, <2>2
  <2>4. \A p \in Pulls : fate[p] # "held" => \A i \in Info : p \notin Held(i)'
    <3> SUFFICES ASSUME NEW p \in Pulls, fate[p] # "held", p \in Held(m)'
                 PROVE  FALSE
      BY <1>1, <2>1
    <3>1. p = m
      BY <1>0, <1>3, ArriveEffect
    <3> QED
      BY <2>1, <3>1 DEF FreshInv
  <2>5. \A p \in Pulls : fate[p] = "held" /\ place'[p] # "none" => \E i \in Info : p \in Held(i)'
    BY <1>0, <1>1, <2>1
  <2> QED
    BY <2>1, <2>3, <2>4, <2>5 DEF OneOwner
<1>4. ASSUME NEW w \in WriteInfo, CreateMMMojoWriteInfo(w)
      PROVE  OneOwner'
  <2>1. UNCHANGED <<fields, fate>> /\ \A m \in Pulls : place'[m] = place[m]
    BY <1>4, Apart DEF CreateMMMojoWriteInfo, TypeOK
  <2> QED
    BY <1>2, <2>1, HeldStays
<1>5. ASSUME NEW i \in Info, NEW x, Getter(i, x)
      PROVE  OneOwner'
  <2>1. /\ \A j \in Info \ {i} : Held(j)' = Held(j)
        /\ \A y \in Held(i)' \ Held(i) :
              y \in Buffer \cup Mapping /\ y.info = i /\ y.n = gets[i] + 1
        /\ \A y \in Held(i) \ Held(i)' : y \in Buffer \cup Mapping
        /\ UNCHANGED <<place, fate>>
    BY <1>5, HeldStays DEF Getter
  <2>2. ASSUME NEW y \in Held(i)' \ Held(i), NEW j \in Info
        PROVE  y \notin Held(j)
    <3> SUFFICES ASSUME y \in Held(j)
                 PROVE  FALSE
      OBVIOUS
    <3>1. y.n = gets[i] + 1 /\ y.n <= gets[i]
      BY <2>1 DEF FreshInv
    <3> QED
      BY <1>0, <3>1
  <2>3. \A j, k \in Info : j # k => Held(j)' \cap Held(k)' = {}
    BY <1>1, <2>1, <2>2
  <2>4. \A p \in Pulls, j \in Info : p \in Held(j)' <=> p \in Held(j)
    BY <1>0, <2>1
  <2> QED
    BY <1>1, <2>1, <2>3, <2>4 DEF OneOwner
<1>6. ASSUME NEW i \in Info, Ends(i)
      PROVE  OneOwner'
  <2>1. /\ Held(i)' = {} /\ \A j \in Info \ {i} : Held(j)' = Held(j)
        /\ \A p \in Pulls : /\ p \in Held(i) => fate'[p] # "held"
                            /\ p \notin Held(i) => fate'[p] = fate[p]
    BY <1>6, EndsHeld
  <2>2. \A p \in Pulls : place'[p] # "none" => place[p] # "none"
    BY <1>0, <1>6 DEF Ends
  <2>3. \A j, k \in Info : j # k => Held(j)' \cap Held(k)' = {}
    BY <1>1, <2>1
  <2>4. \A p \in Pulls : fate'[p] # "held" => \A j \in Info : p \notin Held(j)'
    BY <1>1, <2>1
  <2>5. \A p \in Pulls : fate'[p] = "held" /\ place'[p] # "none" => \E j \in Info : p \in Held(j)'
    BY <1>1, <2>1, <2>2
  <2> QED
    BY <2>3, <2>4, <2>5 DEF OneOwner
<1>7. ASSUME NEW w \in WriteInfo, NEW m \in Message, SwapMMMojoWriteInfoCallback(w, m)
      PROVE  OneOwner'
  <2>1. /\ \A i \in Info \ {w, m} : Held(i)' = Held(i)
        /\ Held(w)' = (Held(w) \ Pulls) \cup (Held(m) \cap Pulls)
        /\ Held(m)' = Held(m) \ Pulls
        /\ w # m /\ w \in Info /\ m \in Info /\ place' = place
        /\ \A p \in Pulls : fate'[p] = IF p \in Held(w) THEN "dropped" ELSE fate[p]
    BY <1>7, SwapHeld
  <2>2. \A j, k \in Info : j # k => Held(j)' \cap Held(k)' = {}
    BY <1>1, <2>1
  <2>3. \A p \in Pulls : fate'[p] # "held" => \A j \in Info : p \notin Held(j)'
    BY <1>1, <2>1
  <2>4. \A p \in Pulls : fate'[p] = "held" /\ place'[p] # "none" => \E j \in Info : p \in Held(j)'
    BY <1>1, <2>1
  <2> QED
    BY <2>2, <2>3, <2>4 DEF OneOwner
<1>8. ASSUME NEW w \in WriteInfo, NEW m \in Message, SwapMMMojoWriteInfoMessage(w, m)
      PROVE  OneOwner'
  <2>1. /\ \A i \in Info \ {w, m} : Held(i)' = Held(i)
        /\ Held(w)' = (Held(w) \cap Pulls) \cup (Held(m) \ Pulls)
        /\ Held(m)' = Held(m) \cap Pulls
        /\ w # m /\ w \in Info /\ m \in Info /\ place' = place /\ fate' = fate
    BY <1>8, PassHeld
  <2>2. \A j, k \in Info : j # k => Held(j)' \cap Held(k)' = {}
    BY <1>1, <2>1
  <2>3. \A p \in Pulls : fate'[p] # "held" => \A j \in Info : p \notin Held(j)'
    BY <1>1, <2>1
  <2>4. \A p \in Pulls : fate'[p] = "held" /\ place'[p] # "none" => \E j \in Info : p \in Held(j)'
    BY <1>1, <2>1
  <2> QED
    BY <2>2, <2>3, <2>4 DEF OneOwner
<1>9. ASSUME NEW w \in WriteInfo, Posts(w)
      PROVE  OneOwner'
  <2>1. UNCHANGED <<fields, fate>> /\ \A m \in Pulls : place'[m] = place[m]
    BY <1>9, Apart DEF Posts, TypeOK
  <2> QED
    BY <1>2, <2>1, HeldStays
<1>10. CASE InfosRest
  BY <1>2, <1>10, HeldStays DEF InfosRest
<1>11. WriteInfo \subseteq Info
  BY DEF Info
<1> QED
  BY <1>3, <1>4, <1>5, <1>6, <1>7, <1>8, <1>9, <1>10, <1>11, StepMoves DEF EndsInCall, EndsInTask

\* What became of a callback stays.
LEMMA FateStays ==
    ASSUME TypeOK, KindInv, QueueInv, OneOwner, [Next]_vars
    PROVE  \A p \in Pulls : fate[p] # "held" => fate'[p] = fate[p]
<1>1. \A p \in Pulls : fate[p] # "held" => \A i \in Info : p \notin Held(i)
  BY DEF OneOwner
<1>2. WriteInfo \subseteq Info
  BY DEF Info
<1>3. ASSUME NEW i \in Info, Ends(i)
      PROVE  \A p \in Pulls : fate[p] # "held" => fate'[p] = fate[p]
  BY <1>1, <1>3, EndsHeld
<1>4. ASSUME NEW w \in WriteInfo, NEW m \in Message, SwapMMMojoWriteInfoCallback(w, m)
      PROVE  \A p \in Pulls : fate[p] # "held" => fate'[p] = fate[p]
  BY <1>1, <1>2, <1>4, SwapHeld
<1>5. \A w \in WriteInfo, m \in Message : SwapMMMojoWriteInfoMessage(w, m) => fate' = fate
  BY DEF SwapMMMojoWriteInfoMessage, PassesMessage
<1> QED
  BY <1>2, <1>3, <1>4, <1>5, StepMoves
     DEF Arrive, CreateMMMojoWriteInfo, Getter, EndsInCall, EndsInTask, Posts, InfosRest
-----------------------------------------------------------------------------
(* The tasks and the streams                                               *)

\* Every step keeps a write info in one task, on its own stream.
LEMMA QueueStepInv ==
    ASSUME TypeOK, KindInv, PlaceInv, QueueInv, [Next]_vars
    PROVE  QueueInv'
<1>0. /\ \A s \in Stream : queue[s] \in Seq(WriteInfo) /\ IsInjective(queue[s])
      /\ \A s \in Stream : \A w \in ToSet(queue[s]) : place[w] = "task" /\ StreamOf(w) = s
      /\ \A s \in Stream : ToSet(queue[s]) \subseteq WriteInfo
      /\ WriteInfo \subseteq Info /\ Message \subseteq Info /\ Message \cap WriteInfo = {}
  BY ElementIndex, Apart DEF TypeOK, QueueInv, Info
<1>1. ASSUME queue' = queue, \A w \in WriteInfo : place[w] = "task" => place'[w] = "task"
      PROVE  QueueInv'
  BY <1>0, <1>1 DEF QueueInv
<1>2. ASSUME NEW m \in Message, Arrive(m)
      PROVE  QueueInv'
  BY <1>0, <1>1, <1>2, ArriveEffect
<1>3. ASSUME NEW w \in WriteInfo, CreateMMMojoWriteInfo(w)
      PROVE  QueueInv'
  BY <1>0, <1>1, <1>3 DEF CreateMMMojoWriteInfo, TypeOK
<1>4. ASSUME NEW i \in Info, EndsInCall(i)
      PROVE  QueueInv'
  BY <1>0, <1>1, <1>4 DEF EndsInCall, Ends
<1>5. ASSUME NEW w \in WriteInfo, EndsInTask(w)
      PROVE  QueueInv'
  <2>1. /\ StreamOf(w) \in Stream
        /\ queue[StreamOf(w)] # <<>> /\ Head(queue[StreamOf(w)]) = w
        /\ queue' = [queue EXCEPT ![StreamOf(w)] = Tail(@)]
        /\ \A j \in Info \ {w} : place'[j] = place[j]
    BY <1>5 DEF EndsInTask, Ends
  <2>2. /\ IsInjective(Tail(queue[StreamOf(w)])) /\ w \notin ToSet(Tail(queue[StreamOf(w)]))
        /\ ToSet(Tail(queue[StreamOf(w)])) \subseteq ToSet(queue[StreamOf(w)])
    BY <1>0, <2>1, TailDistinct, TailElements
  <2>3. ASSUME NEW s \in Stream
        PROVE  /\ IsInjective(queue'[s]) /\ ToSet(queue'[s]) \subseteq ToSet(queue[s])
               /\ w \notin ToSet(queue'[s])
    <3>1. CASE s = StreamOf(w)
      BY <2>1, <2>2, <3>1 DEF TypeOK
    <3>2. CASE s # StreamOf(w)
      <4>1. queue'[s] = queue[s]
        BY <2>1, <3>2 DEF TypeOK
      <4>2. w \notin ToSet(queue[s])
        BY <1>0, <3>2
      <4> QED
        BY <1>0, <4>1, <4>2
    <3> QED
      BY <3>1, <3>2
  <2>4. ASSUME NEW s \in Stream, NEW x \in ToSet(queue'[s])
        PROVE  place'[x] = "task" /\ StreamOf(x) = s
    <3>1. x \in ToSet(queue[s]) /\ x # w
      BY <2>3, <2>4
    <3> QED
      BY <1>0, <2>1, <3>1
  <2> QED
    BY <2>3, <2>4 DEF QueueInv
<1>6. ASSUME NEW w \in WriteInfo, Posts(w)
      PROVE  QueueInv'
  <2>1. /\ queue' = [queue EXCEPT ![StreamOf(w)] = Append(@, w)]
        /\ place[w] = "app" /\ place' = [place EXCEPT ![w] = "task"] /\ StreamOf(w) \in Stream
    BY <1>6 DEF Posts
  <2>2. /\ IsInjective(Append(queue[StreamOf(w)], w))
        /\ ToSet(Append(queue[StreamOf(w)], w)) = ToSet(queue[StreamOf(w)]) \cup {w}
    BY <1>0, <2>1, AppendDistinct, AppendElements
  <2>3. ASSUME NEW s \in Stream
        PROVE  /\ IsInjective(queue'[s])
               /\ \A x \in ToSet(queue'[s]) : x \in ToSet(queue[s]) \/ (x = w /\ s = StreamOf(w))
    <3>1. CASE s = StreamOf(w)
      BY <2>1, <2>2, <3>1 DEF TypeOK
    <3>2. CASE s # StreamOf(w)
      BY <1>0, <2>1, <3>2 DEF TypeOK
    <3> QED
      BY <3>1, <3>2
  <2>4. \A x \in WriteInfo : place'[x] = IF x = w THEN "task" ELSE place[x]
    BY <1>0, <2>1 DEF TypeOK
  <2> QED
    BY <1>0, <2>3, <2>4 DEF QueueInv
<1>7. \A i \in Info : \A x : Getter(i, x) => UNCHANGED <<place, queue>>
  BY DEF Getter
<1>8. \A w \in WriteInfo, m \in Message :
         SwapMMMojoWriteInfoCallback(w, m) \/ SwapMMMojoWriteInfoMessage(w, m)
         => UNCHANGED <<place, queue>>
  BY DEF SwapMMMojoWriteInfoCallback, SwapMMMojoWriteInfoMessage, TakesCallback, PassesMessage
<1> QED
  BY <1>1, <1>2, <1>3, <1>4, <1>5, <1>6, <1>7, <1>8, StepMoves DEF InfosRest

\* Passing a message on, as far as its data go.
LEMMA PassMessages ==
    ASSUME TypeOK, KindInv, NEW w \in WriteInfo, NEW m \in Message,
           SwapMMMojoWriteInfoMessage(w, m)
    PROVE  /\ w # m /\ w \in Info /\ m \in Info /\ place[w] = "app" /\ place[m] = "app"
           /\ place' = place /\ pointer' = pointer /\ gets' = gets
           /\ \A i \in Info \ {w, m} : fields'[i] = fields[i]
           /\ fields'[w].shared_memory = fields[m].shared_memory
           /\ fields'[w].shared_buffer = fields[m].shared_buffer
           /\ fields'[m].shared_memory = MovedFrom(fields[m].shared_memory)
           /\ fields'[m].shared_buffer = MovedFrom(fields[m].shared_buffer)
           /\ given[m] \in Seq(WriteInfo) /\ given'[m] # <<>>
           /\ ToSet(given'[m]) = ToSet(given[m]) \cup {w}
           /\ given[m] = <<>> => given'[m][1] = w
           /\ given[m] # <<>> =>
                 /\ given'[m][1] = given[m][1] /\ Len(given'[m]) > 1
                 /\ ToSet(Tail(given'[m])) = ToSet(Tail(given[m])) \cup {w}
           /\ \A n \in Message \ {m} : given'[n] = given[n]
<1>1. /\ \A i \in Info \ {w, m} : fields'[i] = fields[i]
      /\ fields'[w].shared_memory = fields[m].shared_memory
      /\ fields'[w].shared_buffer = fields[m].shared_buffer
      /\ fields'[m].shared_memory = MovedFrom(fields[m].shared_memory)
      /\ fields'[m].shared_buffer = MovedFrom(fields[m].shared_buffer)
  BY PassEffect DEF SwapMMMojoWriteInfoMessage
<1>2. /\ w # m /\ w \in Info /\ m \in Info /\ place[w] = "app" /\ place[m] = "app"
      /\ place' = place /\ pointer' = pointer /\ gets' = gets
      /\ given' = [given EXCEPT ![m] = Append(@, w)]
  BY PassHeld
<1>3. /\ given[m] \in Seq(WriteInfo) /\ given'[m] = Append(given[m], w)
      /\ \A n \in Message \ {m} : given'[n] = given[n]
  BY <1>2 DEF TypeOK
<1>4. ToSet(given'[m]) = ToSet(given[m]) \cup {w}
  BY <1>3, AppendElements
<1>5. /\ given'[m] # <<>> /\ (given[m] = <<>> => given'[m][1] = w)
      /\ given[m] # <<>> => /\ given'[m][1] = given[m][1] /\ Len(given'[m]) > 1
                            /\ ToSet(Tail(given'[m])) = ToSet(Tail(given[m])) \cup {w}
  BY <1>3, AppendFirst, TailAppend
<1> QED
  BY <1>1, <1>2, <1>3, <1>4, <1>5

\* A write info that was given memory another one had got before stays one.
LEMMA SecondStays ==
    ASSUME TypeOK, KindInv, NEW w \in WriteInfo, NEW m \in Message,
           given' = given \/ SwapMMMojoWriteInfoMessage(w, m)
    PROVE  \A v \in WriteInfo : Second(v) => Second(v)'
<1>1. CASE given' = given
  BY <1>1 DEF Second
<1>2. CASE SwapMMMojoWriteInfoMessage(w, m)
  <2> SUFFICES ASSUME NEW v \in WriteInfo, NEW n \in Message, n.method = "kMMShared",
                      Len(given[n]) > 1, v \in ToSet(Tail(given[n]))
               PROVE  Len(given'[n]) > 1 /\ v \in ToSet(Tail(given'[n]))
    BY DEF Second
  <2>1. CASE n # m
    BY <1>2, <2>1, PassMessages
  <2>2. CASE n = m
    <3>1. given[m] # <<>>
      BY <2>2
    <3> QED
      BY <1>2, <2>2, <3>1, PassMessages
  <2> QED
    BY <2>1, <2>2
<1> QED
  BY <1>1, <1>2

\* So does a stream on which memory was sent a second time.
LEMMA SentStays ==
    ASSUME TypeOK, KindInv, QueueInv, [Next]_vars
    PROVE  /\ \A w \in WriteInfo : Second(w) => Second(w)'
           /\ \A s \in Stream : SentMoved(s) => SentMoved(s)'
<1>0. Message \subseteq Info /\ WriteInfo \subseteq Info
  BY DEF Info
<1>1. \/ given' = given
      \/ \E w \in WriteInfo, m \in Message : SwapMMMojoWriteInfoMessage(w, m)
  <2>1. \A i \in Info : Ends(i) => given' = given
    BY DEF Ends
  <2>2. \A w \in WriteInfo, m \in Message : SwapMMMojoWriteInfoCallback(w, m) => given' = given
    BY DEF SwapMMMojoWriteInfoCallback, TakesCallback
  <2> QED
    BY <1>0, <2>1, <2>2, StepMoves
       DEF Arrive, CreateMMMojoWriteInfo, Getter, EndsInCall, EndsInTask, Posts, InfosRest
<1>2. \A w \in WriteInfo : Second(w) => Second(w)'
  <2>1. CASE given' = given
    BY <2>1 DEF Second
  <2> QED
    BY <1>1, <2>1, SecondStays
<1>3. \A w \in WriteInfo : place[w] = "done" => place'[w] = "done"
  <2>1. \A i \in Info : Ends(i) => \A w \in WriteInfo : place[w] = "done" => place'[w] = "done"
    BY <1>0 DEF Ends
  <2>2. \A m \in Message : Arrive(m) => \A w \in WriteInfo : place[w] = "done" => place'[w] = "done"
    BY <1>0 DEF Arrive, TypeOK
  <2>3. \A v \in WriteInfo : CreateMMMojoWriteInfo(v) \/ Posts(v) =>
           \A w \in WriteInfo : place[w] = "done" => place'[w] = "done"
    BY <1>0 DEF CreateMMMojoWriteInfo, Posts, TypeOK
  <2>4. \A w \in WriteInfo, m \in Message :
           SwapMMMojoWriteInfoCallback(w, m) \/ SwapMMMojoWriteInfoMessage(w, m) => place' = place
    BY DEF SwapMMMojoWriteInfoCallback, SwapMMMojoWriteInfoMessage, TakesCallback, PassesMessage
  <2> QED
    BY <1>0, <2>1, <2>2, <2>3, <2>4, StepMoves DEF Getter, EndsInCall, EndsInTask, InfosRest
<1>4. \A s \in Stream : SentMoved(s) <=>
         \E w \in WriteInfo :
            w.method = "kMMShared" /\ StreamOf(w) = s /\ place[w] = "done" /\ Second(w)
  BY DEF SentMoved, Second
<1>5. \A s \in Stream : SentMoved(s)' <=>
         \E w \in WriteInfo :
            w.method = "kMMShared" /\ StreamOf(w) = s /\ place'[w] = "done" /\ Second(w)'
  BY DEF SentMoved, Second
<1> QED
  BY <1>2, <1>3, <1>4, <1>5

\* Every step keeps the swaps by which shared memory was passed on.
LEMMA MemoryStepInv ==
    ASSUME TypeOK, KindInv, PlaceInv, QueueInv, MemoryInv, [Next]_vars
    PROVE  MemoryInv'
<1>0. /\ Message \subseteq Info /\ WriteInfo \subseteq Info /\ Message \cap WriteInfo = {}
      /\ Unset # Moved /\ Moved \notin Buffer
  BY Apart DEF Info
<1>1. \A w \in WriteInfo : Second(w) => Second(w)'
  BY SentStays
<1>2. ASSUME given' = given,
             \A i \in Info : \/ fields'[i].shared_memory = fields[i].shared_memory
                             \/ fields'[i].shared_memory = Unset
                             \/ fields'[i].shared_memory \in Buffer /\ i \in WriteInfo
      PROVE  MemoryInv'
  BY <1>0, <1>1, <1>2 DEF MemoryInv
<1>3. ASSUME NEW m \in Message, Arrive(m)
      PROVE  MemoryInv'
  <2>1. /\ fields'[m] = Content(m) /\ given' = given
        /\ \A j \in Info \ {m} : fields'[j] = fields[j]
    BY <1>3, ArriveEffect
  <2>2. /\ fields'[m].shared_memory # Unset => m.method = "kMMShared"
        /\ fields'[m].shared_memory # Moved
    BY <1>0, <2>1, ContentEffect
  <2> QED
    BY <1>0, <1>1, <2>1, <2>2 DEF MemoryInv
<1>4. ASSUME NEW i \in Info, NEW x, Getter(i, x)
      PROVE  MemoryInv'
  <2>1. /\ given' = given /\ \A j \in Info \ {i} : fields'[j] = fields[j]
        /\ \/ fields'[i].shared_memory = fields[i].shared_memory
           \/ fields'[i].shared_memory \in Buffer /\ i \notin Message
    BY <1>4 DEF Getter
  <2> QED
    BY <1>0, <1>2, <2>1 DEF Info
<1>5. ASSUME NEW i \in Info, Ends(i)
      PROVE  MemoryInv'
  BY <1>2, <1>5, EndsHeld, Nothing DEF Ends
<1>6. ASSUME NEW w \in WriteInfo, NEW m \in Message, SwapMMMojoWriteInfoCallback(w, m)
      PROVE  MemoryInv'
  <2>1. \A i \in Info : fields'[i].shared_memory = fields[i].shared_memory
    BY <1>6, SwapEffect DEF SwapMMMojoWriteInfoCallback
  <2> QED
    BY <1>2, <1>6, <2>1, SwapHeld
<1>7. ASSUME NEW w \in WriteInfo, NEW m \in Message, SwapMMMojoWriteInfoMessage(w, m)
      PROVE  MemoryInv'
  <2>1. /\ \A i \in Info \ {w, m} : fields'[i] = fields[i]
        /\ fields'[w].shared_memory = fields[m].shared_memory
        /\ fields'[m].shared_memory = Unset <=> fields[m].shared_memory = Unset
        /\ given'[m] # <<>> /\ \A n \in Message \ {m} : given'[n] = given[n]
    BY <1>7, PassMessages, MovedContent
  <2>2. fields[m].shared_memory = Moved => Second(w)'
    <3> SUFFICES ASSUME fields[m].shared_memory = Moved
                 PROVE  Second(w)'
      OBVIOUS
    <3>1. m.method = "kMMShared" /\ given[m] # <<>>
      BY <1>0 DEF MemoryInv
    <3>2. /\ Len(given'[m]) > 1
          /\ ToSet(Tail(given'[m])) = ToSet(Tail(given[m])) \cup {w}
      BY <1>7, <3>1, PassMessages
    <3> QED
      BY <3>1, <3>2 DEF Second
  <2> QED
    BY <1>0, <1>1, <2>1, <2>2 DEF MemoryInv
<1>8. ASSUME fields' = fields, given' = given
      PROVE  MemoryInv'
  BY <1>2, <1>8
<1> QED
  BY <1>0, <1>3, <1>4, <1>5, <1>6, <1>7, <1>8, StepMoves
     DEF CreateMMMojoWriteInfo, EndsInCall, EndsInTask, Posts, InfosRest

\* Every step keeps the reasons for which streams go and break.
LEMMA StreamStepInv ==
    ASSUME TypeOK, KindInv, QueueInv, OneOwner, MemoryInv, StreamInv, [Next]_vars
    PROVE  StreamInv'
<1>1. /\ \A s \in Stream : Lost(s) => Lost(s)'
      /\ \A s \in Stream : SentMoved(s) => SentMoved(s)'
  BY FateStays, SentStays DEF Lost
<1>2. \A s \in Stream : /\ stream[s] = "removed" => s \in stopped /\ queue[s] = <<>>
                        /\ stream[s] = "error" => Lost(s)
                        /\ stream[s] = "refused" => SentMoved(s)
                        /\ stream[s] = "reset" => Lost(s) \/ SentMoved(s)
  BY DEF StreamInv
<1>3. \A s \in Stream : s \in stopped /\ queue[s] = <<>> => queue'[s] = <<>>
  <2>1. ASSUME NEW w \in WriteInfo, Posts(w)
        PROVE  \A s \in Stream : s \in stopped => queue'[s] = queue[s]
    BY <2>1 DEF Posts, TypeOK
  <2>2. ASSUME NEW w \in WriteInfo, EndsInTask(w)
        PROVE  \A s \in Stream : queue[s] = <<>> => queue'[s] = queue[s]
    BY <2>2 DEF EndsInTask, TypeOK
  <2>3. \A w \in WriteInfo, m \in Message :
           SwapMMMojoWriteInfoCallback(w, m) \/ SwapMMMojoWriteInfoMessage(w, m) => queue' = queue
    BY DEF SwapMMMojoWriteInfoCallback, SwapMMMojoWriteInfoMessage, TakesCallback, PassesMessage
  <2> QED
    BY <2>1, <2>2, <2>3, StepMoves
       DEF Arrive, CreateMMMojoWriteInfo, Getter, EndsInCall, InfosRest
<1> HIDE DEF Lost, SentMoved
<1>4. CASE UNCHANGED <<stream, stopped>>
  BY <1>1, <1>2, <1>3, <1>4 DEF StreamInv
<1>5. ASSUME NEW s \in Stream, stopped' = stopped, queue' = queue,
             \/ stream' = [stream EXCEPT ![s] = "error"] /\ Lost(s)
             \/ stream' = [stream EXCEPT ![s] = "gone"]
             \/ /\ stream' = [stream EXCEPT ![s] = "reset"]
                /\ stream[s] \in {"error", "refused"}
             \/ /\ stream' = [stream EXCEPT ![s] = "removed"]
                /\ s \in stopped /\ queue[s] = <<>>
      PROVE  StreamInv'
  BY <1>1, <1>2, <1>5 DEF StreamInv, TypeOK
<1>6. ASSUME NEW s \in Stream, stopped' = stopped \cup {s}, stream' = stream, queue' = queue
      PROVE  StreamInv'
  BY <1>1, <1>2, <1>6 DEF StreamInv
<1>7. ASSUME NEW s \in Stream, NEW w \in WriteInfo, SharedMMMojoWriteInfo(s, w),
             fields[w].shared_memory = Moved, stopped' = stopped,
             stream' = [stream EXCEPT ![s] = "refused"]
      PROVE  StreamInv'
  <2>1. /\ w.method = "kMMShared" /\ queue[s] # <<>> /\ Head(queue[s]) = w
        /\ place' = [place EXCEPT ![w] = "done"] /\ given' = given
    BY <1>7 DEF SharedMMMojoWriteInfo, RunsTask
  <2>2. StreamOf(w) = s
    <3>1. w \in ToSet(queue[s])
      BY <2>1, TailElements DEF TypeOK
    <3> QED
      BY <3>1 DEF QueueInv
  <2>3. place'[w] = "done"
    BY <2>1 DEF TypeOK, Info
  <2>4. \E m \in Message :
           m.method = "kMMShared" /\ Len(given[m]) > 1 /\ w \in ToSet(Tail(given[m]))
    BY <1>7 DEF MemoryInv, Second
  <2>5. SentMoved(s)'
    BY <2>1, <2>2, <2>3, <2>4 DEF SentMoved
  <2> QED
    BY <1>1, <1>2, <1>3, <1>7, <2>5 DEF StreamInv, TypeOK
<1> QED
  BY <1>4, <1>5, <1>6, <1>7, StreamMoves DEF InfosRest
-----------------------------------------------------------------------------
(* The callbacks                                                           *)

\* The callbacks of infos change when one arrives, ends or is swapped; the rest
\* leaves them, and gives nobody an info but one that is created.
CallbacksRest ==
    /\ taken' = taken
    /\ \A i \in Info : /\ fields'[i].callback = fields[i].callback
                       /\ fields'[i].callbacksync = fields[i].callbacksync
    /\ \A m \in Message : place'[m] = "app" => place[m] = "app"
    /\ \A w \in WriteInfo : place'[w] \in {"app", "task"} => place[w] \in {"none", "app", "task"}

\* What a step can do to the callbacks.
LEMMA CallbackMoves ==
    ASSUME TypeOK, KindInv, QueueInv, [Next]_vars
    PROVE  \/ \E m \in Message : Arrive(m)
           \/ \E i \in Info : Ends(i)
           \/ \E w \in WriteInfo, m \in Message : SwapMMMojoWriteInfoCallback(w, m)
           \/ CallbacksRest
<1>0. Message \subseteq Info /\ WriteInfo \subseteq Info /\ Message \cap WriteInfo = {}
  BY Apart DEF Info
<1>1. ASSUME NEW w \in WriteInfo, CreateMMMojoWriteInfo(w)
      PROVE  CallbacksRest
  BY <1>0, <1>1 DEF CreateMMMojoWriteInfo, CallbacksRest, TypeOK
<1>2. ASSUME NEW i \in Info, NEW x, Getter(i, x)
      PROVE  CallbacksRest
  <2>1. \A j \in Info : /\ fields'[j].callback = fields[j].callback
                        /\ fields'[j].callbacksync = fields[j].callbacksync
    BY <1>2 DEF Getter
  <2> QED
    BY <1>2, <2>1 DEF Getter, CallbacksRest
<1>3. ASSUME NEW w \in WriteInfo, NEW m \in Message, SwapMMMojoWriteInfoMessage(w, m)
      PROVE  CallbacksRest
  <2>1. \A j \in Info : /\ fields'[j].callback = fields[j].callback
                        /\ fields'[j].callbacksync = fields[j].callbacksync
    BY <1>3, PassEffect DEF SwapMMMojoWriteInfoMessage
  <2> QED
    BY <1>3, <2>1, PassHeld DEF CallbacksRest
<1>4. ASSUME NEW w \in WriteInfo, Posts(w)
      PROVE  CallbacksRest
  BY <1>0, <1>4 DEF Posts, CallbacksRest, TypeOK
<1>5. InfosRest => CallbacksRest
  BY DEF InfosRest, CallbacksRest
<1> QED
  BY <1>0, <1>1, <1>2, <1>3, <1>4, <1>5, StepMoves DEF EndsInCall, EndsInTask

\* A swap, as far as the callbacks go.
LEMMA SwapCallbacks ==
    ASSUME TypeOK, KindInv, NEW w \in WriteInfo, NEW m \in Message,
           SwapMMMojoWriteInfoCallback(w, m)
    PROVE  /\ w # m /\ w \in Info /\ m \in Info /\ place[w] = "app" /\ place[m] = "app"
           /\ place' = place
           /\ \A i \in Info \ {w, m} : fields'[i] = fields[i]
           /\ fields'[w].callback = fields[m].callback
           /\ fields'[w].callbacksync = fields[m].callbacksync
           /\ fields'[m].callback = MovedFrom(fields[m].callback)
           /\ fields'[m].callbacksync = MovedFrom(fields[m].callbacksync)
           /\ taken[m] \in Seq(WriteInfo) /\ taken'[m] = Append(taken[m], w)
           /\ taken'[m] # <<>> /\ ToSet(taken'[m]) = ToSet(taken[m]) \cup {w}
           /\ taken[m] # <<>> =>
                 /\ ToSet(Tail(taken'[m])) = ToSet(Tail(taken[m])) \cup {w}
                 /\ Len(taken'[m]) > 1
           /\ \A n \in Message \ {m} : taken'[n] = taken[n]
<1>1. /\ \A i \in Info \ {w, m} : fields'[i] = fields[i]
      /\ fields'[w].callback = fields[m].callback
      /\ fields'[w].callbacksync = fields[m].callbacksync
      /\ fields'[m].callback = MovedFrom(fields[m].callback)
      /\ fields'[m].callbacksync = MovedFrom(fields[m].callbacksync)
  BY SwapEffect DEF SwapMMMojoWriteInfoCallback
<1>2. /\ w # m /\ w \in Info /\ m \in Info /\ place[w] = "app" /\ place[m] = "app"
      /\ place' = place /\ taken' = [taken EXCEPT ![m] = Append(@, w)]
  BY SwapHeld
<1>3. /\ taken[m] \in Seq(WriteInfo) /\ taken'[m] = Append(taken[m], w)
      /\ \A n \in Message \ {m} : taken'[n] = taken[n]
  BY <1>2 DEF TypeOK
<1>4. taken'[m] # <<>> /\ ToSet(taken'[m]) = ToSet(taken[m]) \cup {w}
  BY <1>3, AppendElements
<1>5. taken[m] # <<>> => /\ ToSet(Tail(taken'[m])) = ToSet(Tail(taken[m])) \cup {w}
                         /\ Len(taken'[m]) > 1
  BY <1>3, TailAppend
<1> QED
  BY <1>1, <1>2, <1>3, <1>4, <1>5

\* Every step keeps the callback of a read info until it is swapped.
LEMMA ReadCallbackStepInv ==
    ASSUME TypeOK, KindInv, PlaceInv, QueueInv, ReadCallbackInv, [Next]_vars
    PROVE  ReadCallbackInv'
<1>0. Message \subseteq Info /\ WriteInfo \subseteq Info /\ Pulls \subseteq Message
  BY Apart DEF Info
<1>1. ASSUME NEW m \in Message, Arrive(m)
      PROVE  ReadCallbackInv'
  <2>1. /\ fields'[m] = Content(m) /\ taken' = taken
        /\ \A j \in Info \ {m} : fields'[j] = fields[j] /\ place'[j] = place[j]
    BY <1>1, ArriveEffect
  <2>2. /\ fields'[m].callback \in {Unset, m} /\ fields'[m].callbacksync \in {Unset, m}
        /\ m \in Pulls => /\ m.sync => fields'[m].callbacksync = m /\ fields'[m].callback = Unset
                          /\ ~m.sync => fields'[m].callback = m /\ fields'[m].callbacksync = Unset
    <3>1. m \in Pulls => m.sync \in BOOLEAN
      BY Parts
    <3> QED
      BY <2>1, <3>1, ContentEffect
  <2>3. m # Moved
    BY Apart
  <2> QED
    BY <1>0, <2>1, <2>2, <2>3, Apart DEF ReadCallbackInv
<1>2. ASSUME NEW i \in Info, Ends(i)
      PROVE  ReadCallbackInv'
  <2>1. /\ fields'[i].callback = Unset /\ fields'[i].callbacksync = Unset /\ taken' = taken
        /\ place'[i] # "app"
        /\ \A j \in Info \ {i} : fields'[j] = fields[j] /\ place'[j] = place[j]
    BY <1>2, EndsHeld, Nothing DEF Ends
  <2> QED
    BY <1>0, <2>1, Apart DEF ReadCallbackInv
<1>3. ASSUME NEW w \in WriteInfo, NEW m \in Message, SwapMMMojoWriteInfoCallback(w, m)
      PROVE  ReadCallbackInv'
  <2>1. \A n \in Message \ {m} : fields'[n] = fields[n] /\ taken'[n] = taken[n]
    BY <1>0, <1>3, SwapCallbacks, Apart
  <2>2. /\ place' = place /\ taken'[m] # <<>>
        /\ fields'[m].callback \in {Unset, Moved} /\ fields'[m].callbacksync \in {Unset, Moved}
        /\ fields'[m].callback = Moved => fields[m].callback # Unset
        /\ fields'[m].callbacksync = Moved => fields[m].callbacksync # Unset
    BY <1>3, SwapCallbacks, MovedContent, Apart
  <2>3. fields[m].callback # Unset \/ fields[m].callbacksync # Unset => m \in Pulls
    <3>1. /\ fields[m].callback \in Pulls \cup {Unset, Moved}
          /\ fields[m].callbacksync \in Pulls \cup {Unset, Moved}
      BY <1>0, Holds DEF Optional
    <3> QED
      BY <3>1, Apart DEF ReadCallbackInv
  <2> QED
    BY <2>1, <2>2, <2>3 DEF ReadCallbackInv
<1>4. CASE CallbacksRest
  BY <1>0, <1>4 DEF CallbacksRest, ReadCallbackInv
<1> QED
  BY <1>1, <1>2, <1>3, <1>4, CallbackMoves

\* Every step keeps the swaps a write info has its callback from.
LEMMA WriteCallbackStepInv ==
    ASSUME TypeOK, KindInv, PlaceInv, QueueInv, ReadCallbackInv, WriteCallbackInv, [Next]_vars
    PROVE  WriteCallbackInv'
<1>0. /\ Message \subseteq Info /\ WriteInfo \subseteq Info /\ Pulls \subseteq Message
      /\ Message \cap WriteInfo = {}
  BY Apart DEF Info
<1>1. ASSUME taken' = taken, NEW w \in WriteInfo,
             \/ UNCHANGED <<fields[w].callback, fields[w].callbacksync>>
             \/ fields'[w].callback = Unset /\ fields'[w].callbacksync = Unset
      PROVE  /\ fields'[w].callback # Unset \/ fields'[w].callbacksync # Unset =>
                   \E m \in Message : w \in ToSet(taken'[m])
             /\ fields'[w].callback = Moved \/ fields'[w].callbacksync = Moved =>
                   \E m \in Pulls : Len(taken'[m]) > 1 /\ w \in ToSet(Tail(taken'[m]))
  BY <1>1, Apart DEF WriteCallbackInv
<1>2. ASSUME NEW m \in Message, Arrive(m)
      PROVE  WriteCallbackInv'
  <2>1. taken' = taken /\ \A w \in WriteInfo : fields'[w] = fields[w]
    BY <1>0, <1>2, ArriveEffect
  <2> QED
    BY <1>1, <2>1 DEF WriteCallbackInv
<1>3. ASSUME NEW i \in Info, Ends(i)
      PROVE  WriteCallbackInv'
  <2>1. /\ fields'[i].callback = Unset /\ fields'[i].callbacksync = Unset /\ taken' = taken
        /\ \A j \in Info \ {i} : fields'[j] = fields[j]
    BY <1>3, EndsHeld, Nothing DEF Ends
  <2>2. \A w \in WriteInfo : \/ UNCHANGED <<fields[w].callback, fields[w].callbacksync>>
                             \/ fields'[w].callback = Unset /\ fields'[w].callbacksync = Unset
    BY <1>0, <2>1
  <2> QED
    BY <1>1, <2>1, <2>2 DEF WriteCallbackInv
<1>4. ASSUME NEW w \in WriteInfo, NEW m \in Message, SwapMMMojoWriteInfoCallback(w, m)
      PROVE  WriteCallbackInv'
  <2>1. /\ w \in ToSet(taken'[m])
        /\ fields'[w].callback = fields[m].callback
        /\ fields'[w].callbacksync = fields[m].callbacksync
        /\ \A i \in Info \ {w, m} : fields'[i] = fields[i]
        /\ ToSet(taken'[m]) = ToSet(taken[m]) \cup {w}
        /\ \A n \in Message \ {m} : taken'[n] = taken[n]
        /\ taken[m] # <<>> =>
              w \in ToSet(Tail(taken'[m])) /\ Len(taken'[m]) > 1
    <3>1. /\ ToSet(taken'[m]) = ToSet(taken[m]) \cup {w}
          /\ taken[m] # <<>> => /\ ToSet(Tail(taken'[m])) = ToSet(Tail(taken[m])) \cup {w}
                                /\ Len(taken'[m]) > 1
      BY <1>4, SwapCallbacks
    <3>2. /\ fields'[w].callback = fields[m].callback
          /\ fields'[w].callbacksync = fields[m].callbacksync
          /\ \A i \in Info \ {w, m} : fields'[i] = fields[i]
          /\ \A n \in Message \ {m} : taken'[n] = taken[n]
      BY <1>4, SwapCallbacks
    <3> QED
      BY <3>1, <3>2
  <2>2. fields'[w].callback = Moved \/ fields'[w].callbacksync = Moved =>
           m \in Pulls /\ Len(taken'[m]) > 1 /\ w \in ToSet(Tail(taken'[m]))
    <3>1. fields[m].callback = Moved \/ fields[m].callbacksync = Moved
              => m \in Pulls /\ taken[m] # <<>>
      BY DEF ReadCallbackInv
    <3> QED
      BY <2>1, <3>1
  <2>3. ASSUME NEW n \in Pulls, NEW x, Len(taken[n]) > 1, x \in ToSet(Tail(taken[n]))
        PROVE  Len(taken'[n]) > 1 /\ x \in ToSet(Tail(taken'[n]))
    <3>1. CASE n # m
      BY <1>0, <1>4, <2>3, <3>1, SwapCallbacks
    <3>2. CASE n = m
      <4>1. taken[m] # <<>>
        BY <2>3, <3>2
      <4> QED
        BY <1>4, <2>3, <3>2, <4>1, SwapCallbacks
    <3> QED
      BY <3>1, <3>2
  <2>4. \A n \in Message : ToSet(taken[n]) \subseteq ToSet(taken'[n])
    BY <2>1
  <2>5. ASSUME NEW x \in WriteInfo
        PROVE  /\ fields'[x].callback # Unset \/ fields'[x].callbacksync # Unset =>
                     \E n \in Message : x \in ToSet(taken'[n])
               /\ fields'[x].callback = Moved \/ fields'[x].callbacksync = Moved =>
                     \E n \in Pulls : Len(taken'[n]) > 1 /\ x \in ToSet(Tail(taken'[n]))
    <3>1. CASE x = w
      BY <2>1, <2>2, <3>1
    <3>2. CASE x # w
      <4>1. fields'[x] = fields[x]
        BY <1>0, <2>1, <3>2
      <4> QED
        BY <2>3, <2>4, <4>1 DEF WriteCallbackInv
    <3> QED
      BY <3>1, <3>2
  <2> QED
    BY <2>5 DEF WriteCallbackInv
<1>5. CASE CallbacksRest
  BY <1>0, <1>1, <1>5 DEF CallbacksRest, WriteCallbackInv
<1> QED
  BY <1>2, <1>3, <1>4, <1>5, CallbackMoves

\* What answers the book, step by step: nobody comes to it late.
LEMMA BookMoves ==
    ASSUME TypeOK, KindInv, QueueInv, [Next]_vars, NEW m \in Pulls, NEW w \in WriteInfo,
           ByTheBook(m, w)'
    PROVE  \/ ByTheBook(m, w)
           \/ /\ SwapMMMojoWriteInfoCallback(w, m)
              /\ taken[m] = <<>> /\ w.sync = m.sync
<1>0. m \in Message
  BY Apart
<1>1. /\ w.method = "kMMPullResp" /\ w.sync = m.sync /\ StreamOf(w) = m.stream
      /\ taken'[m] = <<w>> /\ \A n \in Message \ {m} : w \notin ToSet(taken'[n])
  BY DEF ByTheBook
<1>2. CASE taken' = taken
  BY <1>1, <1>2 DEF ByTheBook
<1>3. ASSUME NEW v \in WriteInfo, NEW n \in Message, SwapMMMojoWriteInfoCallback(v, n)
      PROVE  \/ ByTheBook(m, w)
             \/ v = w /\ n = m /\ taken[m] = <<>>
  <2>1. /\ taken[n] \in Seq(WriteInfo) /\ taken'[n] = Append(taken[n], v)
        /\ ToSet(taken'[n]) = ToSet(taken[n]) \cup {v}
        /\ \A k \in Message \ {n} : taken'[k] = taken[k]
    BY <1>3, SwapCallbacks
  <2>2. CASE n = m
    <3>1. taken[m] = <<>> /\ v = w
      BY <1>1, <2>1, <2>2, OneElement
    <3> QED
      BY <2>2, <3>1
  <2>3. CASE n # m
    <3>1. taken[m] = <<w>>
      BY <1>0, <1>1, <2>1, <2>3
    <3>2. \A k \in Message \ {m} : w \notin ToSet(taken[k])
      BY <1>1, <2>1
    <3> QED
      BY <1>1, <3>1, <3>2 DEF ByTheBook
  <2> QED
    BY <2>2, <2>3
<1>4. \/ taken' = taken
      \/ \E v \in WriteInfo, n \in Message : SwapMMMojoWriteInfoCallback(v, n)
  <2>1. \A n \in Message : Arrive(n) => taken' = taken
    BY DEF Arrive
  <2>2. \A i \in Info : Ends(i) => taken' = taken
    BY DEF Ends
  <2> QED
    BY <2>1, <2>2, CallbackMoves DEF CallbacksRest
<1> QED
  BY <1>1, <1>2, <1>3, <1>4

\* Every step keeps the callback with a write info that goes by the book.
LEMMA BookStepInv ==
    ASSUME TypeOK, KindInv, PlaceInv, QueueInv, ReadCallbackInv, BookInv, [Next]_vars
    PROVE  BookInv'
<1> SUFFICES ASSUME NEW m \in Pulls, NEW w \in WriteInfo, ByTheBook(m, w)',
                    place'[w] \in {"app", "task"}
             PROVE  Used(w)' = m
  BY DEF BookInv
<1>0. /\ Message \subseteq Info /\ WriteInfo \subseteq Info /\ m \in Message
      /\ Message \cap WriteInfo = {} /\ m.sync \in BOOLEAN
  BY Apart, Parts DEF Info
<1>1. CASE ByTheBook(m, w)
  <2>1. /\ taken[m] = <<w>> /\ taken'[m] = <<w>> /\ w \in ToSet(taken[m])
        /\ \A n \in Message \ {m} : w \notin ToSet(taken'[n])
    <3>1. taken[m] = <<w>> /\ taken'[m] = <<w>>
      BY <1>1 DEF ByTheBook
    <3>2. \A n \in Message \ {m} : w \notin ToSet(taken'[n])
      BY DEF ByTheBook
    <3>3. taken[m] \in Seq(WriteInfo)
      BY <1>0 DEF TypeOK
    <3>4. ToSet(<<w>>) = {w}
      BY <3>3, OneElement
    <3> QED
      BY <3>1, <3>2, <3>4
  <2>2. /\ place[w] \in {"app", "task"}
        /\ fields'[w].callback = fields[w].callback
        /\ fields'[w].callbacksync = fields[w].callbacksync
    <3>1. ASSUME NEW n \in Message, Arrive(n)
          PROVE  place'[w] = place[w] /\ fields'[w] = fields[w]
      BY <1>0, <3>1, ArriveEffect
    <3>2. ASSUME NEW i \in Info, Ends(i)
          PROVE  place'[w] = place[w] /\ fields'[w] = fields[w]
      BY <1>0, <3>2, EndsHeld DEF Ends
    <3>3. ASSUME NEW v \in WriteInfo, NEW n \in Message, SwapMMMojoWriteInfoCallback(v, n)
          PROVE  place'[w] = place[w] /\ fields'[w] = fields[w]
      <4>1. /\ place' = place /\ taken[n] \in Seq(WriteInfo) /\ taken'[n] = Append(taken[n], v)
            /\ ToSet(taken'[n]) = ToSet(taken[n]) \cup {v}
            /\ \A i \in Info \ {v, n} : fields'[i] = fields[i]
        BY <3>3, SwapCallbacks
      <4>2. n # m
        BY <2>1, <4>1, OneElement
      <4>3. w # v /\ w # n
        BY <1>0, <2>1, <4>1, <4>2
      <4> QED
        BY <1>0, <4>1, <4>3
    <3>4. ASSUME CallbacksRest
          PROVE  /\ place[w] \in {"app", "task"}
                 /\ fields'[w].callback = fields[w].callback
                 /\ fields'[w].callbacksync = fields[w].callbacksync
      <4>1. place[w] # "none"
        BY <1>0, <2>1 DEF PlaceInv
      <4> QED
        BY <1>0, <3>4, <4>1 DEF CallbacksRest
    <3> QED
      BY <3>1, <3>2, <3>3, <3>4, CallbackMoves
  <2> QED
    BY <1>1, <2>2 DEF BookInv, Used
<1>2. CASE SwapMMMojoWriteInfoCallback(w, m) /\ taken[m] = <<>> /\ w.sync = m.sync
  <2>1. /\ place[m] = "app"
        /\ fields'[w].callback = fields[m].callback
        /\ fields'[w].callbacksync = fields[m].callbacksync
    BY <1>0, <1>2, SwapCallbacks
  <2>2. /\ m.sync => fields[m].callbacksync = m
        /\ ~m.sync => fields[m].callback = m
    BY <1>0, <1>2, <2>1 DEF ReadCallbackInv
  <2> QED
    BY <1>0, <1>2, <2>1, <2>2 DEF Used
<1> QED
  BY <1>1, <1>2, BookMoves

\* A write info's task is done when it has run.
LEMMA DoneInTask ==
    ASSUME [Next]_vars, TypeOK, NEW w \in WriteInfo, w.method = "kMMPullResp",
           place[w] # "done", place'[w] = "done"
    PROVE  \E s \in Stream : PullRespMMMojoWriteInfo(s, w)
<1>1. w \in Info
  BY DEF Info
<1>2. ASSUME NEW i \in Info, NEW how \in {"app", "task", "refused", "removed"},
             place' = [place EXCEPT ![i] = how]
      PROVE  FALSE
  BY <1>1, <1>2 DEF TypeOK
<1>3. ASSUME NEW s \in Stream, NEW v \in WriteInfo, RunsTask(s, v)
      PROVE  v = w
  BY <1>1, <1>3 DEF RunsTask, TypeOK
<1>4. Message \subseteq Info /\ WriteInfo \subseteq Info /\ place' # place
  BY DEF Info
<1>5. \A m \in Message : ~(Arrive(m) \/ RemoveMMMojoReadInfo(m))
  BY <1>2, <1>4 DEF Arrive, RemoveMMMojoReadInfo
<1>6. \A m \in Message : ~(GetMMMojoReadInfoRequest(m) \/ GetMMMojoReadInfoAttach(m))
  BY <1>4 DEF GetMMMojoReadInfoRequest, GetMMMojoReadInfoAttach, Gets
<1>7. \A v \in WriteInfo :
         ~(CreateMMMojoWriteInfo(v) \/ SendMMMojoWriteInfo(v) \/ RemoveMMMojoWriteInfo(v))
  BY <1>2, <1>4 DEF CreateMMMojoWriteInfo, SendMMMojoWriteInfo, RemoveMMMojoWriteInfo
<1>8. \A v \in WriteInfo : ~(GetMMMojoWriteInfoRequest(v) \/ GetMMMojoWriteInfoAttach(v))
  BY <1>4 DEF GetMMMojoWriteInfoRequest, GetsVector, GetsMemory, GetMMMojoWriteInfoAttach, Gets
<1>9. \A v \in WriteInfo, m \in Message :
         ~(SwapMMMojoWriteInfoCallback(v, m) \/ SwapMMMojoWriteInfoMessage(v, m))
  BY <1>4 DEF SwapMMMojoWriteInfoCallback, SwapMMMojoWriteInfoMessage, TakesCallback,
         PassesMessage
<1>10. \A s \in Stream, v \in WriteInfo :
          ~(WritesMessage(s, v) \/ SharedMMMojoWriteInfo(s, v))
  BY <1>3 DEF WritesMessage, SharedMMMojoWriteInfo
<1>11. \A s \in Stream, v \in WriteInfo :
          ~(SharedMMMojoWriteInfoAborts(s, v) \/ PullRespMMMojoWriteInfoAborts(s, v))
  BY <1>4 DEF SharedMMMojoWriteInfoAborts, PullRespMMMojoWriteInfoAborts, Aborts
<1>12. \A s \in Stream : ~(\/ RaiseError(s) \/ OnMojoDisconnect(s)
                           \/ RemoveStream(s) \/ RemoveRemoteAndReceiverStream(s))
  BY <1>4 DEF RaiseError, OnMojoDisconnect, RemoveStream, RemoveRemoteAndReceiverStream,
         SetStream
<1>13. \A s \in Stream, v \in WriteInfo : PullRespMMMojoWriteInfo(s, v) => v = w
  BY <1>3 DEF PullRespMMMojoWriteInfo
<1>14. ~ UNCHANGED vars
  BY <1>4 DEF vars
<1> QED
  BY <1>5, <1>6, <1>7, <1>8, <1>9, <1>10, <1>11, <1>12, <1>13, <1>14 DEF Next

\* Every step answers by the book, or waits.
LEMMA AnswerStepInv ==
    ASSUME TypeOK, KindInv, PlaceInv, QueueInv, StreamInv, ReadCallbackInv, BookInv,
           OneOwner, AnsweredByTheBook, [Next]_vars, TypeOK', BookInv', OneOwner'
    PROVE  AnsweredByTheBook'
<1> SUFFICES ASSUME NEW m \in Pulls, NEW w \in WriteInfo, ByTheBook(m, w)'
             PROVE  /\ place'[w] = "task" => fate'[m] = "held"
                    /\ place'[w] = "done" =>
                          fate'[m] = "answered" \/ (fate'[m] = "void" /\ ~HasReceiver(m.stream)')
  BY DEF AnsweredByTheBook
<1>0. m \in Message /\ w \in Info /\ m.stream \in Stream /\ m # Unset /\ m # Moved
  BY Apart, Parts DEF Info
<1>1. ASSUME place'[w] = "task"
      PROVE  fate'[m] = "held"
  <2>1. Used(w)' = m
    BY <1>1 DEF BookInv
  <2>2. m \in Held(w)'
    BY <1>0, <2>1 DEF Used, Held
  <2> QED
    BY <1>0, <2>2 DEF OneOwner
<1>2. ASSUME place'[w] = "done", place[w] = "done"
      PROVE  fate'[m] = "answered" \/ (fate'[m] = "void" /\ ~HasReceiver(m.stream)')
  <2>1. ByTheBook(m, w)
    <3>1. SwapMMMojoWriteInfoCallback(w, m) => place[w] = "app"
      BY DEF SwapMMMojoWriteInfoCallback, TakesCallback
    <3> QED
      BY <1>2, <3>1, BookMoves
  <2>2. fate[m] = "answered" \/ (fate[m] = "void" /\ ~HasReceiver(m.stream))
    BY <1>2, <2>1 DEF AnsweredByTheBook
  <2>3. fate'[m] = fate[m]
    BY <2>2, FateStays
  <2>4. ~HasReceiver(m.stream) => ~HasReceiver(m.stream)'
    <3>1. \/ stream' = stream
          \/ \E s \in Stream : /\ stream[s] = "open"
                                /\ stream' = [stream EXCEPT ![s] = "refused"]
          \/ \E s \in Stream, x \in {"error", "reset", "gone", "removed"} :
                stream' = [stream EXCEPT ![s] = x]
      BY StreamMoves
    <3> QED
      BY <1>0, <3>1 DEF HasReceiver, TypeOK
  <2> QED
    BY <2>2, <2>3, <2>4
<1>3. ASSUME place'[w] = "done", place[w] # "done"
      PROVE  fate'[m] = "answered" \/ (fate'[m] = "void" /\ ~HasReceiver(m.stream)')
  <2>1. w.method = "kMMPullResp" /\ StreamOf(w) = m.stream
    BY DEF ByTheBook
  <2>2. PICK s \in Stream : PullRespMMMojoWriteInfo(s, w)
    BY <1>3, <2>1, DoneInTask
  <2>3. queue[s] \in Seq(WriteInfo) /\ queue[s] # <<>> /\ w \in ToSet(queue[s])
    BY <2>2, TailElements DEF PullRespMMMojoWriteInfo, RunsTask, TypeOK
  <2>4. place[w] = "task" /\ s = m.stream /\ HasImpl(s)
    BY <2>1, <2>3 DEF QueueInv, StreamInv, HasImpl
  <2>5. ByTheBook(m, w)
    <3>1. SwapMMMojoWriteInfoCallback(w, m) => place[w] = "app"
      BY DEF SwapMMMojoWriteInfoCallback, TakesCallback
    <3> QED
      BY <2>4, <3>1, BookMoves
  <2>6. Used(w) = m
    BY <2>4, <2>5 DEF BookInv
  <2>7. m \in Callbacks(fields[w])
    BY <2>6 DEF Used, Callbacks
  <2>8. fate'[m] = IF HasReceiver(s) THEN "answered" ELSE "void"
    BY <2>2, <2>4, <2>6, <2>7 DEF PullRespMMMojoWriteInfo
  <2>9. stream' = stream
    BY <2>2 DEF PullRespMMMojoWriteInfo
  <2> QED
    BY <2>4, <2>8, <2>9 DEF HasReceiver
<1> QED
  BY <1>1, <1>2, <1>3
-----------------------------------------------------------------------------
(* The memory and the pointers                                             *)

\* Every step keeps the shared memory of a read info, and of a write info that
\* has mapped some or was passed some.
LEMMA SharedStepInv ==
    ASSUME TypeOK, KindInv, PlaceInv, QueueInv, PointerInv, SharedInv, [Next]_vars
    PROVE  SharedInv'
<1>0. /\ Message \subseteq Info /\ WriteInfo \subseteq Info /\ Message \cap WriteInfo = {}
      /\ Unset \notin Buffer
  BY Apart DEF Info
<1> DEFINE Excused(w) == \/ \A p \in pointer : p.info # w \/ p.to.kind # "mapping"
                         \/ \E m \in Message : w \in ToSet(given[m]) /\ m.method # "kMMShared"
<1>1. /\ \A m \in Message : place[m] = "app" /\ m.method = "kMMShared" =>
            fields[m].shared_memory # Unset
      /\ \A w \in WriteInfo :
            w.method = "kMMShared" /\ place[w] \in {"app", "task"}
            /\ fields[w].shared_memory = Unset => Excused(w)
  BY DEF SharedInv
<1>2. ASSUME \A m \in Message : place'[m] = "app" /\ m.method = "kMMShared" =>
                fields'[m].shared_memory # Unset,
             \A w \in WriteInfo :
                w.method = "kMMShared" /\ place'[w] \in {"app", "task"}
                /\ fields'[w].shared_memory = Unset => Excused(w)'
      PROVE  SharedInv'
  BY <1>2 DEF SharedInv
<1>3. ASSUME \A i \in Info : /\ fields'[i].shared_memory = fields[i].shared_memory
                             /\ place'[i] = "app" => place[i] = "app"
                             /\ place'[i] = "task" => place[i] \in {"app", "task"},
             pointer' = pointer, given' = given
      PROVE  SharedInv'
  <2>1. \A w \in WriteInfo : Excused(w) => Excused(w)'
    BY <1>3
  <2> HIDE DEF Excused
  <2> QED
    BY <1>0, <1>1, <1>2, <1>3, <2>1
<1>4. ASSUME NEW n \in Message, Arrive(n)
      PROVE  SharedInv'
  <2>1. /\ n.method = "kMMShared" => fields'[n].shared_memory # Unset
        /\ \A j \in Info \ {n} : place'[j] = place[j] /\ fields'[j] = fields[j]
        /\ pointer' = pointer /\ given' = given
    BY <1>4, ArriveEffect, ContentEffect
  <2>2. \A w \in WriteInfo : Excused(w) => Excused(w)'
    BY <2>1
  <2> HIDE DEF Excused
  <2> QED
    BY <1>0, <1>1, <1>2, <2>1, <2>2
<1>5. ASSUME NEW v \in WriteInfo, CreateMMMojoWriteInfo(v)
      PROVE  SharedInv'
  <2>1. /\ place[v] = "none" /\ \A j \in Info \ {v} : place'[j] = place[j]
        /\ fields' = fields /\ pointer' = pointer /\ given' = given
    BY <1>5 DEF CreateMMMojoWriteInfo, TypeOK
  <2>2. Excused(v) /\ \A w \in WriteInfo : Excused(w) => Excused(w)'
    BY <2>1 DEF PointerInv
  <2> HIDE DEF Excused
  <2> QED
    BY <1>0, <1>1, <1>2, <2>1, <2>2
<1>6. ASSUME NEW i \in Info, NEW x, Getter(i, x)
      PROVE  SharedInv'
  <2>1. /\ place' = place /\ given' = given /\ pointer' = pointer \cup {[info |-> i, to |-> x]}
        /\ \A j \in Info \ {i} : fields'[j] = fields[j]
        /\ fields'[i].shared_memory = Unset =>
              fields[i].shared_memory = Unset /\ x.kind # "mapping"
    BY <1>0, <1>6 DEF Getter
  <2>2. ASSUME NEW w \in WriteInfo, Excused(w), w # i \/ x.kind # "mapping"
        PROVE  Excused(w)'
    BY <2>1, <2>2
  <2> HIDE DEF Excused
  <2>3. ASSUME NEW w \in WriteInfo, w.method = "kMMShared", place'[w] \in {"app", "task"},
               fields'[w].shared_memory = Unset
        PROVE  Excused(w)'
    <3>1. fields[w].shared_memory = Unset /\ (w # i \/ x.kind # "mapping")
      BY <1>0, <2>1, <2>3
    <3> QED
      BY <1>1, <2>1, <2>2, <2>3, <3>1
  <2>4. \A m \in Message : fields'[m].shared_memory = Unset => fields[m].shared_memory = Unset
    BY <1>0, <2>1
  <2> QED
    BY <1>1, <1>2, <2>1, <2>3, <2>4
<1>7. ASSUME NEW i \in Info, Ends(i)
      PROVE  SharedInv'
  <2>1. /\ place'[i] \notin {"app", "task"} /\ pointer' = pointer /\ given' = given
        /\ \A j \in Info \ {i} : place'[j] = place[j] /\ fields'[j] = fields[j]
    BY <1>7, EndsHeld DEF Ends
  <2>2. \A w \in WriteInfo : Excused(w) => Excused(w)'
    BY <2>1
  <2> HIDE DEF Excused
  <2> QED
    BY <1>0, <1>1, <1>2, <2>1, <2>2
<1>8. ASSUME NEW w \in WriteInfo, NEW m \in Message, SwapMMMojoWriteInfoCallback(w, m)
      PROVE  SharedInv'
  <2>1. \A i \in Info : fields'[i].shared_memory = fields[i].shared_memory
    BY <1>8, SwapEffect DEF SwapMMMojoWriteInfoCallback
  <2> QED
    BY <1>3, <1>8, <2>1, SwapHeld
<1>9. ASSUME NEW v \in WriteInfo, NEW n \in Message, SwapMMMojoWriteInfoMessage(v, n)
      PROVE  SharedInv'
  <2>1. /\ v \in Info /\ n \in Info /\ place[n] = "app" /\ place' = place /\ pointer' = pointer
        /\ \A i \in Info \ {v, n} : fields'[i] = fields[i]
        /\ fields'[v].shared_memory = fields[n].shared_memory
        /\ fields'[n].shared_memory = MovedFrom(fields[n].shared_memory)
        /\ ToSet(given'[n]) = ToSet(given[n]) \cup {v}
        /\ \A k \in Message \ {n} : given'[k] = given[k]
    <3>1. /\ v \in Info /\ n \in Info /\ place[n] = "app" /\ place' = place /\ pointer' = pointer
          /\ fields'[v].shared_memory = fields[n].shared_memory
          /\ fields'[n].shared_memory = MovedFrom(fields[n].shared_memory)
          /\ ToSet(given'[n]) = ToSet(given[n]) \cup {v}
      BY <1>9, PassMessages
    <3>2. \A i \in Info \ {v, n} : fields'[i] = fields[i]
      BY <1>9, PassMessages
    <3>3. \A k \in Message \ {n} : given'[k] = given[k]
      BY <1>9, PassMessages
    <3> QED
      BY <3>1, <3>2, <3>3
  <2>2. fields'[n].shared_memory = Unset => fields[n].shared_memory = Unset
    BY <2>1, MovedContent
  <2>3. \A w \in WriteInfo : Excused(w) => Excused(w)'
    BY <2>1
  <2>4. n.method # "kMMShared" => Excused(v)'
    BY <2>1
  <2> HIDE DEF Excused
  <2>5. fields'[v].shared_memory = Unset => n.method # "kMMShared"
    BY <1>1, <2>1
  <2> QED
    BY <1>0, <1>1, <1>2, <2>1, <2>2, <2>3, <2>4, <2>5
<1>10. ASSUME NEW w \in WriteInfo, Posts(w)
       PROVE  SharedInv'
  BY <1>0, <1>3, <1>10 DEF Posts, TypeOK
<1>11. CASE InfosRest
  BY <1>3, <1>11 DEF InfosRest
<1> QED
  BY <1>0, <1>4, <1>5, <1>6, <1>7, <1>8, <1>9, <1>10, <1>11, StepMoves
     DEF EndsInCall, EndsInTask

\* Every step keeps what a mapping shows.
LEMMA MappingStepInv ==
    ASSUME TypeOK, KindInv, PlaceInv, QueueInv, MappingShowsMemory, [Next]_vars
    PROVE  MappingShowsMemory'
<1>0. Message \subseteq Info /\ WriteInfo \subseteq Info /\ {Unset, Moved} \cap Mapping = {}
  BY Apart DEF Info
<1>1. ASSUME \A i \in Info : \/ /\ fields'[i].shared_memory = fields[i].shared_memory
                                /\ fields'[i].shared_buffer = fields[i].shared_buffer
                             \/ fields'[i].shared_buffer \in {Unset, Moved}
                             \/ fields'[i].shared_buffer.memory = fields'[i].shared_memory
      PROVE  MappingShowsMemory'
  BY <1>0, <1>1 DEF MappingShowsMemory
<1>2. ASSUME NEW m \in Message, Arrive(m)
      PROVE  MappingShowsMemory'
  BY <1>1, <1>2, ArriveEffect, ContentEffect
<1>3. ASSUME NEW i \in Info, NEW x, Getter(i, x)
      PROVE  MappingShowsMemory'
  <2>1. /\ \A j \in Info \ {i} : fields'[j] = fields[j]
        /\ \/ /\ fields'[i].shared_memory = fields[i].shared_memory
              /\ fields'[i].shared_buffer = fields[i].shared_buffer
           \/ fields'[i].shared_buffer.memory = fields'[i].shared_memory
    BY <1>3 DEF Getter
  <2> QED
    BY <1>1, <2>1
<1>4. ASSUME NEW i \in Info, Ends(i)
      PROVE  MappingShowsMemory'
  <2>1. fields'[i].shared_buffer = Unset /\ \A j \in Info \ {i} : fields'[j] = fields[j]
    BY <1>4, EndsHeld, Nothing
  <2> QED
    BY <1>1, <2>1
<1>5. ASSUME NEW w \in WriteInfo, NEW m \in Message, SwapMMMojoWriteInfoCallback(w, m)
      PROVE  MappingShowsMemory'
  <2>1. \A i \in Info : /\ fields'[i].shared_memory = fields[i].shared_memory
                        /\ fields'[i].shared_buffer = fields[i].shared_buffer
    BY <1>5, SwapEffect DEF SwapMMMojoWriteInfoCallback
  <2> QED
    BY <1>1, <2>1
<1>6. ASSUME NEW w \in WriteInfo, NEW m \in Message, SwapMMMojoWriteInfoMessage(w, m)
      PROVE  MappingShowsMemory'
  <2>1. /\ w \in Info /\ m \in Info /\ \A i \in Info \ {w, m} : fields'[i] = fields[i]
        /\ fields'[w].shared_memory = fields[m].shared_memory
        /\ fields'[w].shared_buffer = fields[m].shared_buffer
        /\ fields'[m].shared_buffer \in {Unset, Moved}
    BY <1>6, PassMessages, MovedContent
  <2>2. fields'[w].shared_buffer \in Mapping =>
           fields'[w].shared_buffer.memory = fields'[w].shared_memory
    BY <2>1 DEF MappingShowsMemory
  <2> QED
    BY <1>0, <2>1, <2>2 DEF MappingShowsMemory
<1>7. UNCHANGED fields => MappingShowsMemory'
  BY <1>1
<1> QED
  BY <1>0, <1>2, <1>3, <1>4, <1>5, <1>6, <1>7, StepMoves
     DEF EndsInCall, EndsInTask, CreateMMMojoWriteInfo, Posts, InfosRest

\* Every step keeps pointers to what their info made.
LEMMA PointerStepInv ==
    ASSUME TypeOK, KindInv, PlaceInv, QueueInv, FreshInv, PointerInv, [Next]_vars
    PROVE  PointerInv'
<1>0. /\ Message \subseteq Info /\ WriteInfo \subseteq Info /\ Message \cap WriteInfo = {}
      /\ (Buffer \cup Mapping) \cap Pulls = {} /\ Info = Message \cup WriteInfo
      /\ \A i \in Info : gets[i] \in Nat
      /\ \A p \in pointer : p.info \in Info /\ p.to.n \in Nat
  BY Apart, Parts DEF Info, TypeOK
<1>1. /\ \A p \in pointer :
            /\ p.to.info = p.info /\ p.to.n <= gets[p.info]
            /\ p.to.kind \in {"request", "attach", "mapping"}
            /\ place[p.info] # "none"
      /\ \A m \in Message :
            /\ \A x \in Held(m) \cap (Buffer \cup Mapping) : x.info = m
            /\ given[m] # <<>> =>
                  Held(m) \cap (Buffer \cup Mapping) = {} /\ place[m] # "none"
  BY DEF PointerInv
<1>2. ASSUME pointer' = pointer, gets' = gets, \A i \in Info : place[i] # "none" => place'[i] # "none",
             \A m \in Message : \/ /\ Held(m)' \cap (Buffer \cup Mapping)
                                         \subseteq Held(m) \cap (Buffer \cup Mapping)
                                   /\ given'[m] = <<>> \/ given[m] # <<>>
                                \/ /\ \A x \in Held(m)' \cap (Buffer \cup Mapping) : x.info = m
                                   /\ given'[m] = <<>>
                                \/ /\ Held(m)' \cap (Buffer \cup Mapping) = {}
                                   /\ place'[m] # "none"
      PROVE  PointerInv'
  BY <1>0, <1>1, <1>2 DEF PointerInv
<1>3. ASSUME NEW m \in Message, Arrive(m)
      PROVE  PointerInv'
  <2>1. given[m] = <<>>
    BY <1>1, <1>3, ArriveEffect
  <2>2. \A x \in Held(m)' \cap (Buffer \cup Mapping) : x.info = m
    BY <1>3, ArriveEffect, Apart
  <2>3. /\ UNCHANGED <<pointer, gets, given>> /\ place'[m] = "app"
        /\ \A j \in Info \ {m} : place'[j] = place[j] /\ Held(j)' = Held(j)
    BY <1>3, ArriveEffect, HeldStays
  <2> QED
    BY <1>0, <1>2, <2>1, <2>2, <2>3
<1>4. ASSUME NEW w \in WriteInfo, CreateMMMojoWriteInfo(w) \/ Posts(w)
      PROVE  PointerInv'
  <2>1. /\ UNCHANGED <<pointer, gets, given, fields>>
        /\ \A i \in Info : place[i] # "none" => place'[i] # "none"
    BY <1>0, <1>4 DEF CreateMMMojoWriteInfo, Posts, TypeOK
  <2> QED
    BY <1>0, <1>2, <2>1, HeldStays
<1>5. ASSUME NEW i \in Info, NEW x, Getter(i, x)
      PROVE  PointerInv'
  <2>1. /\ place' = place /\ place[i] = "app" /\ given' = given
        /\ pointer' = pointer \cup {[info |-> i, to |-> x]}
        /\ gets'[i] = gets[i] + 1 /\ \A j \in Info \ {i} : gets'[j] = gets[j]
        /\ \A j \in Info \ {i} : fields'[j] = fields[j]
    BY <1>5 DEF Getter, TypeOK
  <2>2. /\ x \in Buffer \cup Mapping /\ x \in Held(i)'
        /\ x.kind \in {"request", "attach", "mapping"}
        /\ \A y \in Held(i)' \ Held(i) :
              y \in Buffer \cup Mapping /\ y.info = i /\ y.n = gets[i] + 1
        /\ i \in Message => Held(i) \cap Buffer # {}
        /\ i \in WriteInfo => x.info = i /\ x.n = gets[i] + 1
    BY <1>5 DEF Getter
  <2>3. x.info = i /\ x.n <= gets'[i]
    <3>1. gets[i] \in Nat /\ gets'[i] = gets[i] + 1 /\ x.n \in Nat
      BY <1>0, <2>1, <2>2, Parts
    <3>2. CASE x \in Held(i) /\ i \in Message
      <4>1. x.info = i
        BY <1>1, <2>2, <3>2
      <4>2. x.n <= gets[i]
        BY <2>2, <3>2, <4>1 DEF FreshInv
      <4> QED
        BY <3>1, <4>1, <4>2
    <3>3. CASE x \notin Held(i) \/ i \in WriteInfo
      BY <2>2, <3>1, <3>3
    <3> QED
      BY <1>0, <3>2, <3>3
  <2>4. ASSUME NEW p \in pointer'
        PROVE  /\ p.to.info = p.info /\ p.to.n <= gets'[p.info]
               /\ p.to.kind \in {"request", "attach", "mapping"}
               /\ place'[p.info] # "none"
    <3>1. CASE p \in pointer
      <4>1. p.info \in Info /\ p.to.n \in Nat /\ p.to.n <= gets[p.info] /\ gets[p.info] \in Nat
        BY <1>0, <1>1, <3>1
      <4>2. gets'[p.info] = gets[p.info] \/ gets'[p.info] = gets[p.info] + 1
        BY <2>1, <4>1
      <4>3. p.to.n <= gets'[p.info]
        BY <4>1, <4>2
      <4> QED
        BY <1>1, <2>1, <3>1, <4>3
    <3>2. CASE p = [info |-> i, to |-> x]
      BY <2>1, <2>2, <2>3, <3>2
    <3> QED
      BY <2>1, <3>1, <3>2
  <2>5. ASSUME NEW m \in Message
        PROVE  /\ \A y \in Held(m)' \cap (Buffer \cup Mapping) : y.info = m
               /\ given'[m] # <<>> => Held(m)' \cap (Buffer \cup Mapping) = {} /\ place'[m] # "none"
    <3>1. CASE m = i
      <4>1. given[m] = <<>>
        BY <1>1, <2>2, <3>1
      <4> QED
        BY <1>1, <2>1, <2>2, <3>1, <4>1
    <3>2. CASE m # i
      <4>1. Held(m)' = Held(m)
        BY <1>0, <2>1, <3>2, HeldStays
      <4> QED
        BY <1>1, <2>1, <4>1
    <3> QED
      BY <3>1, <3>2
  <2> QED
    BY <2>4, <2>5 DEF PointerInv
<1>6. ASSUME NEW i \in Info, Ends(i)
      PROVE  PointerInv'
  <2>1. /\ UNCHANGED <<pointer, gets, given>>
        /\ \A j \in Info : place[j] # "none" => place'[j] # "none"
        /\ \A j \in Info : Held(j)' \subseteq Held(j)
    BY <1>6, EndsHeld DEF Ends
  <2> QED
    BY <1>0, <1>2, <2>1
<1>7. ASSUME NEW w \in WriteInfo, NEW m \in Message, SwapMMMojoWriteInfoCallback(w, m)
      PROVE  PointerInv'
  <2>1. /\ UNCHANGED <<pointer, gets, given, place>>
        /\ \A n \in Message : Held(n)' \subseteq Held(n)
    BY <1>0, <1>7, SwapHeld
  <2> QED
    BY <1>0, <1>2, <2>1
<1>8. ASSUME NEW w \in WriteInfo, NEW m \in Message, SwapMMMojoWriteInfoMessage(w, m)
      PROVE  PointerInv'
  <2>1. /\ UNCHANGED <<pointer, gets, place>> /\ place[m] = "app"
        /\ Held(m)' = Held(m) \cap Pulls /\ \A n \in Info \ {w, m} : Held(n)' = Held(n)
    BY <1>8, PassHeld
  <2>2. \A n \in Message \ {m} : given'[n] = given[n]
    BY <1>8, PassMessages
  <2> QED
    BY <1>0, <1>2, <2>1, <2>2
<1>9. CASE InfosRest
  BY <1>0, <1>2, <1>9, HeldStays DEF InfosRest
<1> QED
  BY <1>0, <1>3, <1>4, <1>5, <1>6, <1>7, <1>8, <1>9, StepMoves DEF EndsInCall, EndsInTask

\* Every step has the process end only for what the application did.
LEMMA AbortStepInv ==
    ASSUME TypeOK, KindInv, QueueInv, StreamInv, WriteCallbackInv, SharedInv,
           AbortsAreDeserved, [Next]_vars
    PROVE  AbortsAreDeserved'
<1>1. CASE abort # None
  <2>1. UNCHANGED vars
    BY <1>1 DEF Next
  <2> QED
    BY <2>1 DEF vars, AbortsAreDeserved
<1>2. CASE abort = None /\ abort' = abort
  BY <1>2 DEF AbortsAreDeserved
<1>3. CASE abort = None /\ abort' # abort
  <2>1. PICK w \in WriteInfo : w = abort'
    BY <1>3, AbortMoves
  <2>2. /\ taken' = taken /\ given' = given /\ pointer' = pointer /\ stopped' = stopped
        /\ \/ w.pipe \in Missing \/ (w.pipe # NoPipe /\ AppendReset)
           \/ /\ w.method = "kMMShared" /\ fields[w].shared_memory = Unset
              /\ \E s \in Stream : queue[s] # <<>> /\ Head(queue[s]) = w
           \/ w.method = "kMMPullResp" /\ Used(w) = Moved
    BY <1>3, <2>1, AbortMoves DEF InfosRest
  <2>3. CASE w.pipe # NoPipe /\ AppendReset
    <3>1. stopped = Stream
      BY <2>3 DEF AppendReset, StreamInv, TypeOK
    <3> QED
      BY <2>1, <2>2, <2>3, <3>1 DEF AbortsAreDeserved
  <2>4. CASE /\ w.method = "kMMShared" /\ fields[w].shared_memory = Unset
             /\ \E s \in Stream : queue[s] # <<>> /\ Head(queue[s]) = w
    <3>1. PICK s \in Stream : queue[s] # <<>> /\ Head(queue[s]) = w
      BY <2>4
    <3>2. w \in ToSet(queue[s])
      BY <3>1, TailElements DEF TypeOK
    <3>3. place[w] = "task"
      BY <3>2 DEF QueueInv
    <3>4. \/ \A p \in pointer : p.info # w \/ p.to.kind # "mapping"
          \/ \E m \in Message : w \in ToSet(given[m]) /\ m.method # "kMMShared"
      BY <2>4, <3>3 DEF SharedInv
    <3> QED
      BY <2>1, <2>2, <2>4, <3>4 DEF AbortsAreDeserved
  <2>5. CASE w.method = "kMMPullResp" /\ Used(w) = Moved
    <3>1. \E m \in Pulls : Len(taken[m]) > 1 /\ w \in ToSet(Tail(taken[m]))
      BY <2>5 DEF Used, WriteCallbackInv
    <3> QED
      BY <2>1, <2>2, <2>5, <3>1 DEF AbortsAreDeserved
  <2>6. CASE w.pipe \in Missing
    BY <2>1, <2>6 DEF AbortsAreDeserved
  <2> QED
    BY <2>2, <2>3, <2>4, <2>5, <2>6
<1> QED
  BY <1>1, <1>2, <1>3

\* The ways in which a pointer p, whose info has left its content to k, may be.
Live(p, k) ==
    \/ p.to \in Held(k)
    \/ place[k] \in {"done", "refused", "removed"}
    \/ Renewed(p)
    \/ \E m \in Message : k \in ToSet(given[m]) /\ (m = p.info => Len(given[m]) > 1)
    \/ \E q \in pointer : q.info = k /\ q.info # p.info /\ q.to.kind = p.to.kind

\* An info is its own keeper until it is a read info that is passed on.
LEMMA Keepers ==
    ASSUME TypeOK, NEW i \in Info
    PROVE  /\ Keeper(i) \in Info
           /\ Keeper(i) = i \/ (i \in Message /\ given[i] # <<>> /\ Keeper(i) \in WriteInfo)
           /\ given' = given => Keeper(i)' = Keeper(i)
<1>1. i \in Message /\ given[i] # <<>> => given[i][1] \in WriteInfo
  BY ElementIndex DEF TypeOK
<1> QED
  BY <1>1 DEF Keeper, Info

\* What a pointer is good for stays, if its info is as before.
LEMMA LiveStays ==
    ASSUME TypeOK, NEW p \in pointer, NEW k \in Info, Live(p, k),
           pointer \subseteq pointer', \A m \in Message :
               ToSet(given[m]) \subseteq ToSet(given'[m]) /\ (Len(given[m]) > 1 => Len(given'[m]) > 1),
           \/ p.to \in Held(k) => p.to \in Held(k)'
           \/ place'[k] \in {"done", "refused", "removed"},
           \A i \in Info : place[i] \in {"done", "refused", "removed"} => place'[i] = place[i]
    PROVE  Live(p, k)'
<1>1. Renewed(p) => Renewed(p)'
  BY DEF Renewed
<1> QED
  BY <1>1 DEF Live

\* Every step keeps the pointers good.
LEMMA LiveStepInv ==
    ASSUME TypeOK, KindInv, PlaceInv, QueueInv, PointerInv, PointersLive, [Next]_vars
    PROVE  PointersLive'
<1>0. /\ Message \subseteq Info /\ WriteInfo \subseteq Info /\ Message \cap WriteInfo = {}
      /\ Info = Message \cup WriteInfo /\ (Buffer \cup Mapping) \cap Pulls = {}
      /\ \A p \in pointer : p.info \in Info /\ p.to \in Buffer \cup Mapping
      /\ \A i \in Info : Keeper(i) \in Info
      /\ \A p \in pointer : p.to.n \in Nat /\ gets[p.info] \in Nat
  BY Apart, Parts, Keepers DEF Info, TypeOK
<1>1. \A p \in pointer : Live(p, Keeper(p.info))
  BY DEF PointersLive, Live
<1>2. ASSUME \A p \in pointer' : Live(p, Keeper(p.info))'
      PROVE  PointersLive'
  BY <1>2 DEF PointersLive, Live
<1>3. ASSUME pointer' = pointer, given' = given,
             \A p \in pointer, k \in Info : \/ p.to \in Held(k) => p.to \in Held(k)'
                                            \/ place'[k] \in {"done", "refused", "removed"},
             \A i \in Info : place[i] \in {"done", "refused", "removed"} => place'[i] = place[i]
      PROVE  PointersLive'
  <2>1. ASSUME NEW p \in pointer
        PROVE  Live(p, Keeper(p.info))'
    <3>1. PICK k \in Info : k = Keeper(p.info)
      BY <1>0
    <3>2. Keeper(p.info)' = k
      BY <1>0, <1>3, <3>1, Keepers
    <3>3. Live(p, k)'
      <4>1. Live(p, k)
        BY <1>1, <3>1
      <4>2. \A m \in Message : /\ ToSet(given[m]) \subseteq ToSet(given'[m])
                               /\ Len(given[m]) > 1 => Len(given'[m]) > 1
        BY <1>3
      <4> QED
        BY <1>3, <4>1, <4>2, LiveStays
    <3> QED
      BY <3>2, <3>3
  <2> QED
    BY <1>2, <1>3, <2>1
<1>4. ASSUME NEW m \in Message, Arrive(m)
      PROVE  PointersLive'
  <2>1. /\ Held(m) = {} /\ pointer' = pointer /\ given' = given /\ place[m] = "none"
        /\ \A j \in Info \ {m} : place'[j] = place[j] /\ Held(j)' = Held(j)
    BY <1>4, ArriveEffect, HeldStays
  <2> QED
    BY <1>0, <1>3, <2>1
<1>5. ASSUME NEW w \in WriteInfo, CreateMMMojoWriteInfo(w) \/ Posts(w)
      PROVE  PointersLive'
  <2>1. /\ UNCHANGED <<pointer, given, fields>>
        /\ \A i \in Info : place[i] \in {"done", "refused", "removed"} => place'[i] = place[i]
    BY <1>0, <1>5 DEF CreateMMMojoWriteInfo, Posts, TypeOK
  <2> QED
    BY <1>0, <1>3, <2>1, HeldStays
<1>6. ASSUME NEW i \in Info, NEW x, Getter(i, x)
      PROVE  PointersLive'
  <2>1. /\ place' = place /\ given' = given
        /\ pointer' = pointer \cup {[info |-> i, to |-> x]}
        /\ \A j \in Info \ {i} : Held(j)' = Held(j)
    BY <1>6, HeldStays DEF Getter
  <2>2. /\ x \in Held(i)' /\ gets[i] < MaxGets
        /\ \A y \in Held(i) \ Held(i)' : y.kind = "memory" \/ (y.kind = x.kind /\ x.n = gets[i] + 1)
        /\ i \in Message => Held(i) \cap Buffer # {}
    BY <1>6 DEF Getter
  <2>3. PICK r : r = [info |-> i, to |-> x]
    OBVIOUS
  <2>4. r \in pointer' /\ r.info = i /\ r.to = x /\ pointer' = pointer \cup {r}
    BY <2>1, <2>3
  <2>5. Live(r, Keeper(r.info))'
    <3>1. i \in Message => given'[i] = <<>>
      BY <2>1, <2>2 DEF PointerInv
    <3>2. Keeper(i)' = i
      BY <3>1 DEF Keeper
    <3>3. Live(r, i)'
      BY <2>2, <2>4 DEF Live
    <3> QED
      BY <2>4, <3>2, <3>3
  <2>6. ASSUME NEW p \in pointer
        PROVE  Live(p, Keeper(p.info))'
    <3>1. PICK k \in Info : k = Keeper(p.info) /\ k = Keeper(p.info)'
      BY <1>0, <2>1, Keepers
    <3>2. CASE p.to \in Held(k) => p.to \in Held(k)'
      BY <1>1, <2>1, <3>1, <3>2, LiveStays
    <3>3. CASE p.to \in Held(k) /\ p.to \notin Held(k)'
      <4>1. k = i
        BY <2>1, <3>3
      <4>2. p.to.kind # "memory" /\ p.to.n <= gets[p.info]
        BY DEF PointerInv
      <4>3. p.to.kind = x.kind /\ x.n = gets[i] + 1
        BY <2>2, <3>3, <4>1, <4>2
      <4>4. CASE i = p.info
        <5>1. r.to.n > p.to.n
          BY <1>0, <2>4, <4>2, <4>3, <4>4
        <5>2. Renewed(p)'
          BY <2>4, <4>3, <4>4, <5>1 DEF Renewed
        <5> QED
          BY <3>1, <5>2 DEF Live
      <4>5. CASE i # p.info
        BY <2>4, <3>1, <4>1, <4>3, <4>5 DEF Live
      <4> QED
        BY <4>4, <4>5
    <3> QED
      BY <3>2, <3>3
  <2> QED
    BY <1>2, <2>4, <2>5, <2>6
<1>7. ASSUME NEW i \in Info, Ends(i)
      PROVE  PointersLive'
  <2>1. /\ pointer' = pointer /\ given' = given /\ place[i] \in {"app", "task"}
        /\ place'[i] \in {"done", "refused", "removed"}
        /\ \A j \in Info \ {i} : place'[j] = place[j] /\ Held(j)' = Held(j)
    BY <1>7, EndsHeld DEF Ends
  <2> QED
    BY <1>0, <1>3, <2>1
<1>8. ASSUME NEW w \in WriteInfo, NEW m \in Message, SwapMMMojoWriteInfoCallback(w, m)
      PROVE  PointersLive'
  <2>1. /\ UNCHANGED <<pointer, given, place>>
        /\ \A j \in Info : Held(j) \ Pulls \subseteq Held(j)'
    BY <1>8, SwapHeld
  <2> QED
    BY <1>0, <1>3, <2>1
<1>9. ASSUME NEW w \in WriteInfo, NEW m \in Message, SwapMMMojoWriteInfoMessage(w, m)
      PROVE  PointersLive'
  <2>1. /\ UNCHANGED <<pointer, place>> /\ place[w] = "app" /\ place[m] = "app" /\ w # m
        /\ w \in Info /\ m \in Info /\ \A j \in Info \ {w, m} : Held(j)' = Held(j)
        /\ Held(w)' = (Held(w) \cap Pulls) \cup (Held(m) \ Pulls)
    BY <1>9, PassHeld
  <2>2. /\ ToSet(given'[m]) = ToSet(given[m]) \cup {w} /\ given'[m] # <<>>
        /\ given[m] = <<>> => given'[m][1] = w
        /\ given[m] # <<>> => given'[m][1] = given[m][1] /\ Len(given'[m]) > 1
    BY <1>9, PassMessages
  <2>3. \A n \in Message \ {m} : given'[n] = given[n]
    BY <1>9, PassMessages
  <2>4. \A n \in Message : /\ ToSet(given[n]) \subseteq ToSet(given'[n])
                           /\ Len(given[n]) > 1 => Len(given'[n]) > 1
    BY <2>2, <2>3
  <2>5. ASSUME NEW p \in pointer
        PROVE  Live(p, Keeper(p.info))'
    <3>1. PICK i \in Info, k \in Info : i = p.info /\ k = Keeper(p.info)
      BY <1>0
    <3>2. CASE i = m /\ given[m] = <<>>
      <4>1. k = m /\ Keeper(p.info)' = w
        BY <1>0, <2>2, <3>1, <3>2 DEF Keeper
      <4>2. CASE p.to \in Held(m)
        <5>1. p.to \in Held(w)'
          BY <1>0, <2>1, <4>2
        <5> QED
          BY <4>1, <5>1 DEF Live
      <4>3. CASE Renewed(p)
        <5>1. Renewed(p)'
          BY <2>1, <4>3 DEF Renewed
        <5> QED
          BY <4>1, <5>1 DEF Live
      <4>4. \A n \in Message : m \notin ToSet(given[n])
        BY <1>0, ElementIndex DEF TypeOK
      <4>5. p.to \in Held(m) \/ Renewed(p)
        BY <1>1, <2>1, <3>1, <3>2, <4>1, <4>4 DEF Live
      <4> QED
        BY <4>2, <4>3, <4>5
    <3>3. CASE ~(i = m /\ given[m] = <<>>)
      <4>1. Keeper(p.info)' = k /\ k # m
        <5>1. i \in Message => (given'[i] # <<>> <=> given[i] # <<>>)
          BY <2>2, <2>3, <3>3
        <5>2. i \in Message /\ given[i] # <<>> => given'[i][1] = given[i][1]
          BY <2>2, <2>3, <3>3
        <5>3. Keeper(p.info)' = k
          BY <3>1, <5>1, <5>2 DEF Keeper
        <5>4. k # m
          <6>1. i = m => given[m] # <<>>
            BY <3>3
          <6>2. k = i \/ (i \in Message /\ given[i] # <<>> /\ k \in WriteInfo)
            BY <3>1, Keepers
          <6>3. i \in Message /\ given[i] # <<>> => k # i
            <7>1. i \in Message /\ given[i] # <<>> => k = given[i][1] /\ given[i][1] \in WriteInfo
              BY <3>1, ElementIndex DEF Keeper, TypeOK
            <7> QED
              BY <1>0, <7>1
          <6> QED
            BY <1>0, <6>1, <6>2, <6>3
        <5> QED
          BY <5>3, <5>4
      <4>2. CASE k # w
        <5>1. Held(k)' = Held(k)
          BY <2>1, <4>1, <4>2
        <5>2. Live(p, k)'
          BY <1>1, <2>1, <2>4, <3>1, <5>1, LiveStays
        <5> QED
          BY <4>1, <5>2
      <4>3. CASE k = w
        <5>1. w \in ToSet(given'[m])
          BY <2>2
        <5>2. m = p.info => Len(given'[m]) > 1
          BY <2>2, <3>1, <3>3
        <5>3. Live(p, w)'
          BY <5>1, <5>2 DEF Live
        <5> QED
          BY <4>1, <4>3, <5>3
      <4> QED
        BY <4>2, <4>3
    <3> QED
      BY <3>2, <3>3
  <2> QED
    BY <1>2, <2>1, <2>5
<1>10. CASE InfosRest
  BY <1>0, <1>3, <1>10, HeldStays DEF InfosRest
<1> QED
  BY <1>0, <1>4, <1>5, <1>6, <1>7, <1>8, <1>9, <1>10, StepMoves DEF EndsInCall, EndsInTask
-----------------------------------------------------------------------------
(* The theorems                                                            *)

\* The invariant holds initially.
LEMMA InitIInv == Init => IInv
<1> SUFFICES ASSUME Init
             PROVE  IInv
  OBVIOUS
<1>1. /\ place = [i \in Info |-> "none"] /\ fields = [i \in Info |-> NoFields]
      /\ gets = [i \in Info |-> 0] /\ queue = [s \in Stream |-> <<>>]
      /\ stream = [s \in Stream |-> "open"] /\ stopped = {}
      /\ fate = [m \in Pulls |-> "held"] /\ pointer = {}
      /\ taken = [m \in Message |-> <<>>] /\ given = [m \in Message |-> <<>>] /\ abort = None
  BY DEF Init
<1>2. /\ Pulls \subseteq Message /\ Message \subseteq Info /\ WriteInfo \subseteq Info
      /\ Message \cap WriteInfo = {} /\ Unset # Moved /\ Unset \notin Mapping
      /\ MaxGets \in Nat /\ <<>> \in Seq(WriteInfo) /\ ToSet(<<>>) = {}
  BY Apart, Parts, EmptyElements DEF Info
<1>3. \A i \in Info : fields[i] = NoFields /\ Held(i) = {}
  BY <1>1, Nothing
<1>4. KindInv
  BY <1>1, Nothing DEF KindInv
<1>5. TypeOK
  BY <1>1, <1>2, <1>4, ContentsAreFields DEF TypeOK, KindInv
<1>6. \A m \in Message : taken[m] = <<>> /\ given[m] = <<>>
  BY <1>1
<1>7. PlaceInv
  BY <1>1, <1>2, <1>3, <1>6 DEF PlaceInv
<1>8. FreshInv
  BY <1>1, <1>3 DEF FreshInv
<1>9. QueueInv
  BY <1>1, <1>2 DEF QueueInv, IsInjective
<1>10. StreamInv
  BY <1>1 DEF StreamInv
<1>11. ReadCallbackInv
  BY <1>1, <1>2, <1>3, Nothing DEF ReadCallbackInv
<1>12. WriteCallbackInv
  BY <1>2, <1>3, Nothing DEF WriteCallbackInv
<1>13. BookInv
  BY <1>1, <1>2 DEF BookInv
<1>14. SharedInv
  BY <1>1, <1>2 DEF SharedInv
<1>15. PointerInv /\ MemoryInv
  BY <1>1, <1>2, <1>3, Nothing DEF PointerInv, MemoryInv
<1>16. OneOwner
  BY <1>1, <1>2, <1>3 DEF OneOwner
<1>17. AnsweredByTheBook
  BY <1>1, <1>2 DEF AnsweredByTheBook
<1>18. MappingShowsMemory
  BY <1>2, <1>3, Nothing DEF MappingShowsMemory
<1>19. AbortsAreDeserved /\ PointersLive
  BY <1>1 DEF AbortsAreDeserved, PointersLive
<1> QED
  BY <1>4, <1>5, <1>7, <1>8, <1>9, <1>10, <1>11, <1>12, <1>13, <1>14, <1>15, <1>16, <1>17,
     <1>18, <1>19 DEF IInv

\* Every step keeps it.
LEMMA StepIInv == IInv /\ [Next]_vars => IInv'
<1> SUFFICES ASSUME IInv, [Next]_vars
             PROVE  IInv'
  OBVIOUS
<1>1. /\ TypeOK /\ KindInv /\ PlaceInv /\ FreshInv /\ QueueInv /\ StreamInv
      /\ ReadCallbackInv /\ WriteCallbackInv /\ BookInv /\ SharedInv /\ MemoryInv
      /\ PointerInv
      /\ OneOwner /\ AnsweredByTheBook /\ MappingShowsMemory /\ AbortsAreDeserved
      /\ PointersLive
  BY DEF IInv
<1>2. TypeOK' /\ KindInv' /\ PlaceInv' /\ FreshInv' /\ QueueInv'
  BY <1>1, StepType, KindStepInv, PlaceStepInv, FreshStepInv, QueueStepInv
<1>3. StreamInv' /\ ReadCallbackInv' /\ WriteCallbackInv' /\ BookInv'
  BY <1>1, StreamStepInv, ReadCallbackStepInv, WriteCallbackStepInv, BookStepInv
<1>4. SharedInv' /\ MemoryInv' /\ PointerInv' /\ OneOwner' /\ MappingShowsMemory'
  BY <1>1, SharedStepInv, MemoryStepInv, PointerStepInv, OwnerStepInv, MappingStepInv
<1>5. AnsweredByTheBook'
  BY <1>1, <1>2, <1>3, <1>4, AnswerStepInv
<1>6. AbortsAreDeserved' /\ PointersLive'
  BY <1>1, AbortStepInv, LiveStepInv
<1> QED
  BY <1>2, <1>3, <1>4, <1>5, <1>6 DEF IInv

\* The inductive invariant: who owns what in the process, what the tasks still
\* hold, and what the application did to come there.
THEOREM Invariant == Spec => []IInv
<1>1. Init => IInv
  BY InitIInv
<1>2. IInv /\ [Next]_vars => IInv'
  BY StepIInv
<1> QED
  BY <1>1, <1>2, PTL DEF Spec

\* The fields of an info only ever hold what the code can put into them, and the
\* other variables have their types.
THEOREM TypeCorrect == Spec => []TypeOK
<1>1. IInv => TypeOK
  BY DEF IInv
<1> QED
  BY <1>1, Invariant, PTL

\* Whatever the application calls, a callback, a buffer and a mapping have one
\* owner, and a callback that was run or dropped has none.
THEOREM SingleOwner == Spec => []OneOwner
<1>1. IInv => OneOwner
  BY DEF IInv
<1> QED
  BY <1>1, Invariant, PTL

\* A pull that is answered the way the interface asks for gets its answer on its
\* own stream, if that is whole: no other call can take the callback away.
THEOREM BookIsAnswered == Spec => []AnsweredByTheBook
<1>1. IInv => AnsweredByTheBook
  BY DEF IInv
<1> QED
  BY <1>1, Invariant, PTL

\* A callback that is dropped was let go of by the application.
LEMMA DroppedIsLetGo ==
    ASSUME IInv, NEW m \in Pulls, fate[m] = "dropped"
    PROVE  LetGo(m)
<1>1. /\ m \in Message /\ m \in Info /\ m \notin {Unset, Moved} /\ m.sync \in BOOLEAN
      /\ taken[m] \in Seq(WriteInfo) /\ place[m] \in {"app", "removed"}
  BY Apart, Parts DEF Info, IInv, TypeOK, PlaceInv, FreshInv
<1>2. \A i \in Info : m \notin Held(i)
  BY DEF IInv, OneOwner
<1>3. CASE taken[m] = <<>>
  <2>1. place[m] = "app" => m \in {fields[m].callback, fields[m].callbacksync}
    BY <1>1, <1>3 DEF IInv, ReadCallbackInv
  <2>2. place[m] # "app"
    BY <1>1, <1>2, <2>1 DEF Held
  <2> QED
    BY <1>1, <1>3, <2>2 DEF LetGo
<1>4. CASE taken[m] # <<>>
  <2>1. PICK w \in WriteInfo : w \in ToSet(taken[m])
    <3>1. Head(taken[m]) \in ToSet(taken[m])
      BY <1>1, <1>4, TailElements
    <3> QED
      BY <1>1, <1>4, <3>1
  <2>2. CASE ByTheBook(m, w)
    <3>1. w \in Info /\ place[w] \in {"none", "app", "task", "done", "refused", "removed"}
      BY DEF Info, IInv, TypeOK
    <3>2. place[w] # "none"
      BY <1>1, <2>1 DEF IInv, PlaceInv
    <3>3. place[w] # "app"
      <4>1. place[w] = "app" => Used(w) = m
        BY <2>2 DEF IInv, BookInv
      <4>2. Used(w) = m => m \in Held(w)
        BY <1>1 DEF Used, Held
      <4> QED
        BY <1>2, <3>1, <4>1, <4>2
    <3>4. place[w] \notin {"task", "done"}
      BY <2>2 DEF IInv, AnsweredByTheBook
    <3> QED
      BY <2>1, <3>1, <3>2, <3>3, <3>4 DEF LetGo
  <2>3. CASE ~ByTheBook(m, w)
    BY <2>1, <2>3 DEF LetGo
  <2> QED
    BY <2>2, <2>3
<1> QED
  BY <1>3, <1>4

\* A stream whose peer does not go by itself breaks only for a pull of its own
\* that the application let go of, or for shared memory it sent twice.
THEOREM BreaksDeserved == Spec => []BreaksAreDeserved
<1>1. IInv => BreaksAreDeserved
  <2> SUFFICES ASSUME IInv, NEW s \in Stream
               PROVE  LET lost == \E m \in Pulls : m.stream = s /\ LetGo(m)
                      IN  /\ stream[s] = "error"   => lost
                          /\ stream[s] = "refused" => SentMoved(s)
                          /\ stream[s] = "reset"   => lost \/ SentMoved(s)
    BY DEF BreaksAreDeserved
  <2>1. /\ stream[s] = "error"   => Lost(s)
        /\ stream[s] = "refused" => SentMoved(s)
        /\ stream[s] = "reset"   => Lost(s) \/ SentMoved(s)
    BY DEF IInv, StreamInv
  <2>2. Lost(s) => \E m \in Pulls : m.stream = s /\ LetGo(m)
    BY DroppedIsLetGo DEF Lost
  <2> QED
    BY <2>1, <2>2
<1> QED
  BY <1>1, Invariant, PTL

\* The process ends itself only for a second use of a callback, for shared memory
\* that is not there, for an append stream that does not exist, and for one after
\* the stop.
THEOREM AbortsDeserved == Spec => []AbortsAreDeserved
<1>1. IInv => AbortsAreDeserved
  BY DEF IInv
<1> QED
  BY <1>1, Invariant, PTL

\* What the application sees through a mapping is what the info sends.
THEOREM MappingIsSent == Spec => []MappingShowsMemory
<1>1. IInv => MappingShowsMemory
  BY DEF IInv
<1> QED
  BY <1>1, Invariant, PTL

\* A pointer from a getter is good as long as the interface says.
THEOREM PointersStay == Spec => []PointersLive
<1>1. IInv => PointersLive
  BY DEF IInv
<1> QED
  BY <1>1, Invariant, PTL
=============================================================================
