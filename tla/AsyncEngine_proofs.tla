-------------------------- MODULE AsyncEngine_proofs --------------------------
(***************************************************************************)
(* What the asynchronous engine keeps to its clients, for every number of  *)
(* them, with ids of their own or not: streams in order and without gaps,  *)
(* nobody forgotten by the engine or by the tracker, and the service that  *)
(* RequestService promises.                                                *)
(***************************************************************************)
EXTENDS AsyncEngine, Folding_proofs

-----------------------------------------------------------------------------
(* The fold behind ProcessOutputs. *)

First(s) == CHOOSE c \in s : TRUE

OutputsBody(g, S, t, items) ==
    [s \in SUBSET S |-> IF s = {} THEN t
                        ELSE ProcessOutput(g[s \ {First(s)}], IdOf[First(s)], items[First(s)])]

\* The loop over the outputs of a step is defined, for finitely many of them.
LEMMA OutputsDefined ==
    ASSUME NEW S, IsFiniteSet(S), NEW t, NEW items, NEW U, NEW R,
           R \subseteq (SUBSET S) \X U, <<{}, t>> \in R,
           \A s \in SUBSET S : \A c \in s : \A u \in U :
             <<s \ {c}, u>> \in R => <<s, ProcessOutput(u, IdOf[c], items[c])>> \in R
    PROVE  \E g : g = OutputsBody(g, S, t, items)
<1> DEFINE pick == [s \in SUBSET S |-> First(s)]
           F == [p \in (SUBSET S) \X U |->
                   ProcessOutput(p[2], IdOf[First(p[1])], items[First(p[1])])]
<1>1. Picks(pick, S) /\ \A s \in SUBSET S : pick[s] = First(s)
  BY DEF Picks, First
<1>2. \A s \in SUBSET S : \A u \in U :
        F[<<s, u>>] = ProcessOutput(u, IdOf[First(s)], items[First(s)])
  <2> HIDE DEF F
  <2> SUFFICES ASSUME NEW s \in SUBSET S, NEW u \in U
               PROVE  F[<<s, u>>] = ProcessOutput(u, IdOf[First(s)], items[First(s)])
    OBVIOUS
  <2>1. <<s, u>> \in (SUBSET S) \X U
    OBVIOUS
  <2> QED BY <2>1 DEF F
<1> HIDE DEF pick, F
<1>3. PICK g : g = FoldBody(g, S, t, pick, F)
  BY <1>1, FoldDefined
<1>4. \A s \in SUBSET S : <<s, g[s]>> \in R
  <2>1. \A s \in SUBSET S :
          FoldBody(g, S, t, pick, F)[s] = IF s = {} THEN t ELSE F[<<s, g[s \ {pick[s]}]>>]
    BY DEF FoldBody
  <2>2. g[{}] = t /\ \A s \in SUBSET S : s # {} => g[s] = F[<<s, g[s \ {pick[s]}]>>]
    BY <1>3, <2>1
  <2>3. \A s \in SUBSET S : s # {} /\ <<s \ {pick[s]}, g[s \ {pick[s]}]>> \in R
                               => <<s, g[s]>> \in R
    <3> SUFFICES ASSUME NEW s \in SUBSET S, s # {},
                        <<s \ {First(s)}, g[s \ {First(s)}]>> \in R
                 PROVE  <<s, g[s]>> \in R
      BY <1>1
    <3>1. g[s \ {First(s)}] \in U /\ First(s) \in s
      BY DEF First
    <3>2. g[s] = F[<<s, g[s \ {First(s)}]>>]
      BY <1>1, <2>2
    <3> QED BY <1>2, <3>1, <3>2
  <2> QED BY <1>1, <2>2, <2>3, FoldKeeps
<1>5. \A s \in SUBSET S : s # {} =>
        F[<<s, g[s \ {pick[s]}]>>]
          = ProcessOutput(g[s \ {First(s)}], IdOf[First(s)], items[First(s)])
  <2> SUFFICES ASSUME NEW s \in SUBSET S, s # {}
               PROVE  F[<<s, g[s \ {First(s)}]>>]
                        = ProcessOutput(g[s \ {First(s)}], IdOf[First(s)], items[First(s)])
    BY <1>1
  <2>1. s \ {First(s)} \in SUBSET S
    OBVIOUS
  <2>2. g[s \ {First(s)}] \in U
    BY <1>4, <2>1
  <2> QED BY <1>2, <2>2
<1>6. FoldBody(g, S, t, pick, F) = OutputsBody(g, S, t, items)
  <2> DEFINE G(s) == F[<<s, g[s \ {pick[s]}]>>]
             H(s) == ProcessOutput(g[s \ {First(s)}], IdOf[First(s)], items[First(s)])
  <2>1. \A s \in SUBSET S : s # {} => G(s) = H(s)
    BY <1>5
  <2> HIDE DEF G, H
  <2>2. [s \in SUBSET S |-> IF s = {} THEN t ELSE G(s)]
          = [s \in SUBSET S |-> IF s = {} THEN t ELSE H(s)]
    BY <2>1
  <2> QED BY <2>2 DEF FoldBody, OutputsBody, G, H
<1> QED BY <1>3, <1>6

\* What holds before the first output and is kept by each holds after all.
LEMMA OutputsKeep ==
    ASSUME NEW S, IsFiniteSet(S), NEW t, NEW items, NEW U, NEW R,
           R \subseteq (SUBSET S) \X U, <<{}, t>> \in R,
           \A s \in SUBSET S : \A c \in s : \A u \in U :
             <<s \ {c}, u>> \in R => <<s, ProcessOutput(u, IdOf[c], items[c])>> \in R
    PROVE  <<S, ProcessOutputs(t, S, items)>> \in R
<1> DEFINE pick == [s \in SUBSET S |-> First(s)]
           iter == CHOOSE g : g = OutputsBody(g, S, t, items)
<1>1. Picks(pick, S) /\ \A s \in SUBSET S : pick[s] = First(s)
  BY DEF Picks, First
<1>2. iter = OutputsBody(iter, S, t, items)
  BY OutputsDefined
<1>3. ProcessOutputs(t, S, items) = iter[S]
  BY DEF ProcessOutputs, FoldSet, MapThenFoldSet, OutputsBody, First
<1> HIDE DEF iter, pick
<1>4. \A s \in SUBSET S : OutputsBody(iter, S, t, items)[s] =
        IF s = {} THEN t
        ELSE ProcessOutput(iter[s \ {First(s)}], IdOf[First(s)], items[First(s)])
  BY DEF OutputsBody
<1>5. iter[{}] = t
  BY <1>2, <1>4
<1>6. \A s \in SUBSET S : s # {} /\ <<s \ {pick[s]}, iter[s \ {pick[s]}]>> \in R
                            => <<s, iter[s]>> \in R
  <2> SUFFICES ASSUME NEW s \in SUBSET S, s # {},
                      <<s \ {First(s)}, iter[s \ {First(s)}]>> \in R
               PROVE  <<s, iter[s]>> \in R
    BY <1>1
  <2>1. First(s) \in s /\ iter[s \ {First(s)}] \in U
    BY DEF First
  <2>2. iter[s] = ProcessOutput(iter[s \ {First(s)}], IdOf[First(s)], items[First(s)])
    BY <1>2, <1>4
  <2> QED BY <2>1, <2>2
<1>7. \A s \in SUBSET S : <<s, iter[s]>> \in R
  BY <1>1, <1>5, <1>6, FoldKeeps
<1> QED BY <1>3, <1>7

-----------------------------------------------------------------------------
(* The values [queue, closed, tracker], and what the tracker's operations do *)
(* to each client.                                                           *)

Kinds == {"output", "last", "exception", "stop"}
Items == [kind : Kinds, number : 0 .. MaxOutputs]

\* Streams are registered under the id of their client.
StreamMaps == {f \in UNION {[D -> Clients] : D \in SUBSET Ids} :
                 \A id \in DOMAIN f : IdOf[f[id]] = id}

Trackers == [streams : StreamMaps, new : Seq(Clients), finished : SUBSET Ids, event : BOOLEAN]
Values == [queue : [Clients -> Seq(Items)], closed : [Clients -> BOOLEAN], tracker : Trackers]

\* What it is to be a table of streams.
LEMMA StreamMapsAre ==
    ASSUME NEW f
    PROVE  f \in StreamMaps <=> /\ f \in [DOMAIN f -> Clients]
                                /\ DOMAIN f \subseteq Ids
                                /\ \A id \in DOMAIN f : IdOf[f[id]] = id
  BY DEF StreamMaps

\* A client's id is an id.
LEMMA IdsAre == \A c \in Clients : IdOf[c] \in Ids
  BY AsyncAssumption DEF Ids, Range

\* The items of a stream and their numbers.
LEMMA ItemsAre ==
    /\ Stop \in Items /\ Exception \in Items
    /\ \A n \in 0 .. MaxOutputs, last \in BOOLEAN : Output(n, last) \in Items
    /\ Stop.kind = "stop" /\ Stop.number = 0
    /\ Exception.kind = "exception" /\ Exception.number = 0
    /\ \A n, last : /\ Output(n, last).number = n
                    /\ Output(n, last).kind = IF last THEN "last" ELSE "output"
  BY AsyncAssumption DEF Stop, Exception, Output, Items, Kinds

\* The stream of a registered id is a client's with that id.
LEMMA StreamOfRegistered ==
    ASSUME NEW t \in Values, NEW id, Registered(t, id)
    PROVE  StreamOf(t, id) \in Clients /\ IdOf[StreamOf(t, id)] = id /\ id \in Ids
<1>1. t.tracker.streams \in StreamMaps
  BY DEF Values, Trackers
<1> QED BY <1>1, StreamMapsAre DEF Registered, StreamOf

\* The stream of a client with an id of its own.
LEMMA AloneStream ==
    ASSUME NEW t \in Values, NEW c \in Alone, NEW id, Registered(t, id)
    PROVE  StreamOf(t, id) = c <=> id = IdOf[c]
  BY StreamOfRegistered DEF Alone

\* An item goes to one open stream and changes nothing else.
LEMMA PutEffect ==
    ASSUME NEW t \in Values, NEW c \in Clients, NEW item \in Items
    PROVE  /\ Put(t, c, item) \in Values
           /\ Put(t, c, item).tracker = t.tracker
           /\ Put(t, c, item).closed = t.closed
           /\ \A d \in Clients : Put(t, c, item).queue[d] =
                IF d = c /\ ~t.closed[c] THEN Append(t.queue[d], item) ELSE t.queue[d]
<1>1. Append(t.queue[c], item) \in Seq(Items)
  BY DEF Values
<1>2. CASE t.closed[c]
  BY <1>2 DEF Put
<1>3. CASE ~t.closed[c]
  <2>1. Put(t, c, item) = [t EXCEPT !.queue = [@ EXCEPT ![c] = Append(t.queue[c], item)]]
    BY <1>3 DEF Put, Values
  <2>2. [t.queue EXCEPT ![c] = Append(t.queue[c], item)] \in [Clients -> Seq(Items)]
    BY <1>1 DEF Values
  <2>3. Put(t, c, item) \in Values
    BY <2>1, <2>2 DEF Values
  <2> QED BY <1>3, <2>1, <2>3 DEF Values
<1> QED BY <1>2, <1>3

\* finish() puts the sentinel at the end and closes the stream.
LEMMA FinishEffect ==
    ASSUME NEW t \in Values, NEW c \in Clients
    PROVE  /\ Finish(t, c) \in Values
           /\ Finish(t, c).tracker = t.tracker
           /\ \A d \in Clients : Finish(t, c).queue[d] =
                IF d = c THEN Append(t.queue[d], Stop) ELSE t.queue[d]
           /\ \A d \in Clients : Finish(t, c).closed[d] <=> t.closed[d] \/ d = c
<1>1. Append(t.queue[c], Stop) \in Seq(Items)
  BY ItemsAre DEF Values
<1>2. Finish(t, c) = [t EXCEPT !.queue = [@ EXCEPT ![c] = Append(t.queue[c], Stop)],
                               !.closed = [@ EXCEPT ![c] = TRUE]]
  BY DEF Finish, Values
<1>3. /\ [t.queue EXCEPT ![c] = Append(t.queue[c], Stop)] \in [Clients -> Seq(Items)]
      /\ [t.closed EXCEPT ![c] = TRUE] \in [Clients -> BOOLEAN]
  BY <1>1 DEF Values
<1>4. Finish(t, c) \in Values
  BY <1>2, <1>3 DEF Values
<1> QED BY <1>2, <1>4 DEF Values

\* An id that is aborted.
Ended(r, id) == [r EXCEPT !.finished = @ \cup {id}]

\* abort_request ends the entry and closes the stream, if there is one.
LEMMA AbortEffect ==
    ASSUME NEW t \in Values, NEW id \in Ids
    PROVE  /\ AbortRequest(t, id) \in Values
           /\ AbortRequest(t, id).tracker = Ended(t.tracker, id)
           /\ \A d \in Clients : LET open == Registered(t, id) /\ StreamOf(t, id) = d
                                 IN  /\ AbortRequest(t, id).queue[d] =
                                          IF open /\ ~t.closed[d] THEN Append(t.queue[d], Stop)
                                                                  ELSE t.queue[d]
                                     /\ AbortRequest(t, id).closed[d] <=> t.closed[d] \/ open
<1> DEFINE u == [t EXCEPT !.tracker.finished = @ \cup {id}]
<1>1. /\ u \in Values /\ u.tracker = Ended(t.tracker, id)
      /\ u.queue = t.queue /\ u.closed = t.closed
      /\ u.tracker.streams = t.tracker.streams
  BY DEF Values, Trackers, Ended
<1>2. AbortRequest(t, id) = IF ~Registered(u, id) \/ u.closed[StreamOf(u, id)]
                            THEN u ELSE Finish(u, StreamOf(u, id))
  BY DEF AbortRequest
<1> HIDE DEF u
<1>3. (Registered(u, id) <=> Registered(t, id)) /\ StreamOf(u, id) = StreamOf(t, id)
  BY <1>1 DEF Registered, StreamOf
<1>4. CASE ~Registered(t, id)
  BY <1>1, <1>2, <1>3, <1>4 DEF Values
<1>5. CASE Registered(t, id) /\ t.closed[StreamOf(t, id)]
  BY <1>1, <1>2, <1>3, <1>5 DEF Values
<1>6. CASE Registered(t, id) /\ ~t.closed[StreamOf(t, id)]
  <2>1. StreamOf(t, id) \in Clients
    BY <1>6, StreamOfRegistered
  <2>2. AbortRequest(t, id) = Finish(u, StreamOf(t, id))
    BY <1>1, <1>2, <1>3, <1>6
  <2>3. /\ AbortRequest(t, id) \in Values
        /\ AbortRequest(t, id).tracker = Ended(t.tracker, id)
        /\ \A d \in Clients : /\ AbortRequest(t, id).queue[d] =
                                   IF d = StreamOf(t, id) THEN Append(t.queue[d], Stop)
                                                          ELSE t.queue[d]
                              /\ AbortRequest(t, id).closed[d] <=>
                                   t.closed[d] \/ d = StreamOf(t, id)
    BY <1>1, <2>1, <2>2, FinishEffect
  <2> QED BY <1>6, <2>3
<1> QED BY <1>4, <1>5, <1>6

\* A queue when an output, or an exception, was put.
Told(q, item) ==
    IF item.kind = "output" THEN Append(q, item) ELSE Append(Append(q, item), Stop)

\* process_request_output: the stream gets the item, and the last one ends it.
LEMMA OutputEffect ==
    ASSUME NEW t \in Values, NEW id, Registered(t, id), NEW item \in Items
    PROVE  /\ ProcessOutput(t, id, item) \in Values
           /\ ProcessOutput(t, id, item).tracker =
                IF item.kind = "output" THEN t.tracker ELSE Ended(t.tracker, id)
           /\ \A d \in Clients :
                /\ ProcessOutput(t, id, item).queue[d] =
                     IF d = StreamOf(t, id) /\ ~t.closed[d] THEN Told(t.queue[d], item)
                                                            ELSE t.queue[d]
                /\ ProcessOutput(t, id, item).closed[d] <=>
                     t.closed[d] \/ (d = StreamOf(t, id) /\ item.kind # "output")
<1>1. PICK c : c = StreamOf(t, id)
  OBVIOUS
<1>2. c \in Clients /\ id \in Ids
  BY <1>1, StreamOfRegistered
<1>3. PICK u : u = Put(t, c, item)
  OBVIOUS
<1>4. /\ u \in Values /\ u.tracker = t.tracker /\ u.closed = t.closed
      /\ \A d \in Clients : u.queue[d] =
           IF d = c /\ ~t.closed[c] THEN Append(t.queue[d], item) ELSE t.queue[d]
  BY <1>2, <1>3, PutEffect
<1>5. ProcessOutput(t, id, item) = IF item.kind = "output" THEN u ELSE AbortRequest(u, id)
  BY <1>1, <1>3 DEF ProcessOutput
<1>6. CASE item.kind = "output"
  BY <1>1, <1>4, <1>5, <1>6 DEF Told
<1>7. CASE item.kind # "output"
  <2>1. Registered(u, id) /\ StreamOf(u, id) = c
    BY <1>1, <1>4 DEF Registered, StreamOf
  <2>2. /\ ProcessOutput(t, id, item) \in Values
        /\ ProcessOutput(t, id, item).tracker = Ended(t.tracker, id)
        /\ \A d \in Clients : /\ ProcessOutput(t, id, item).queue[d] =
                                   IF c = d /\ ~t.closed[d] THEN Append(u.queue[d], Stop)
                                                            ELSE u.queue[d]
                              /\ ProcessOutput(t, id, item).closed[d] <=> t.closed[d] \/ c = d
    BY <1>2, <1>4, <1>5, <1>7, <2>1, AbortEffect
  <2> QED BY <1>1, <1>4, <1>7, <2>2 DEF Told
<1> QED BY <1>6, <1>7

\* The requests of s that end with these outputs.
EndedIn(s, items) == {IdOf[c] : c \in {d \in s : items[d].kind # "output"}}

\* What the outputs of the clients of s do: exactly the clients of s are told, as
\* far as ids tell them apart.
Tells(t, u, s, items) ==
    /\ u.tracker = [t.tracker EXCEPT !.finished = @ \cup EndedIn(s, items)]
    /\ \A c \in Clients :
         /\ (\A d \in s : StreamOf(t, IdOf[d]) # c) =>
              u.queue[c] = t.queue[c] /\ (u.closed[c] <=> t.closed[c])
         /\ c \in s \cap Alone =>
              /\ u.queue[c] = IF t.closed[c] THEN t.queue[c] ELSE Told(t.queue[c], items[c])
              /\ u.closed[c] <=> t.closed[c] \/ items[c].kind # "output"

\* After the loop over the outputs each of their streams has its own and no other
\* changed.
LEMMA OutputsTell ==
    ASSUME NEW t \in Values, NEW S \in SUBSET Clients, NEW items,
           \A c \in S : items[c] \in Items /\ Registered(t, IdOf[c])
    PROVE  /\ ProcessOutputs(t, S, items) \in Values
           /\ Tells(t, ProcessOutputs(t, S, items), S, items)
<1> DEFINE R == {p \in (SUBSET S) \X Values : Tells(t, p[2], p[1], items)}
<1>1. R \subseteq (SUBSET S) \X Values
  OBVIOUS
<1>2. <<{}, t>> \in R
  <2>1. t.tracker = [t.tracker EXCEPT !.finished = @ \cup EndedIn({}, items)]
    BY DEF Values, Trackers, EndedIn
  <2>2. Tells(t, t, {}, items)
    BY <2>1 DEF Tells
  <2> QED BY <2>2
<1>3. ASSUME NEW s \in SUBSET S, NEW c \in s, NEW u \in Values, <<s \ {c}, u>> \in R,
             NEW v, v = ProcessOutput(u, IdOf[c], items[c])
      PROVE  <<s, v>> \in R
  <2>1. Tells(t, u, s \ {c}, items)
    BY <1>3
  <2> HIDE DEF R
  <2>2. u.tracker = [t.tracker EXCEPT !.finished = @ \cup EndedIn(s \ {c}, items)]
    BY <2>1 DEF Tells
  <2>3. u.tracker.streams = t.tracker.streams
    BY <2>2 DEF Values, Trackers
  <2>4. \A id : Registered(u, id) <=> Registered(t, id)
    BY <2>3 DEF Registered
  <2>5. \A id : StreamOf(u, id) = StreamOf(t, id)
    BY <2>3 DEF StreamOf
  <2>6. items[c] \in Items /\ Registered(u, IdOf[c]) /\ Registered(t, IdOf[c]) /\ c \in Clients
    BY <2>4
  <2>7. /\ v \in Values
        /\ v.tracker = IF items[c].kind = "output" THEN u.tracker ELSE Ended(u.tracker, IdOf[c])
        /\ \A d \in Clients :
             /\ v.queue[d] = IF d = StreamOf(t, IdOf[c]) /\ ~u.closed[d]
                             THEN Told(u.queue[d], items[c]) ELSE u.queue[d]
             /\ v.closed[d] <=>
                  u.closed[d] \/ (d = StreamOf(t, IdOf[c]) /\ items[c].kind # "output")
    BY <1>3, <2>5, <2>6, OutputEffect
  <2>8. v.tracker = [t.tracker EXCEPT !.finished = @ \cup EndedIn(s, items)]
    <3>1. EndedIn(s, items) = IF items[c].kind = "output" THEN EndedIn(s \ {c}, items)
                              ELSE EndedIn(s \ {c}, items) \cup {IdOf[c]}
      BY DEF EndedIn
    <3>2. CASE items[c].kind = "output"
      BY <2>2, <2>7, <3>1, <3>2
    <3>3. CASE items[c].kind # "output"
      <4>1. v.tracker = [t.tracker EXCEPT
                           !.finished = @ \cup EndedIn(s \ {c}, items) \cup {IdOf[c]}]
        BY <2>2, <2>7, <3>3 DEF Ended, Values, Trackers
      <4>2. EndedIn(s, items) = EndedIn(s \ {c}, items) \cup {IdOf[c]}
        BY <3>1, <3>3
      <4>3. t.tracker.finished \cup EndedIn(s \ {c}, items) \cup {IdOf[c]}
              = t.tracker.finished \cup EndedIn(s, items)
        BY <4>2
      <4> QED BY <4>1, <4>3
    <3> QED BY <3>2, <3>3
  <2>9. ASSUME NEW d \in Clients, \A e \in s : StreamOf(t, IdOf[e]) # d
        PROVE  v.queue[d] = t.queue[d] /\ (v.closed[d] <=> t.closed[d])
    BY <2>1, <2>7, <2>9 DEF Tells
  <2>10. ASSUME NEW d \in s \cap Alone
         PROVE  /\ v.queue[d] = IF t.closed[d] THEN t.queue[d] ELSE Told(t.queue[d], items[d])
                /\ v.closed[d] <=> t.closed[d] \/ items[d].kind # "output"
    <3>1. d \in Clients /\ \A e \in s : StreamOf(t, IdOf[e]) = d <=> e = d
      BY AloneStream DEF Alone
    <3>2. CASE d = c
      <4>1. u.queue[d] = t.queue[d] /\ (u.closed[d] <=> t.closed[d])
        BY <2>1, <3>1, <3>2 DEF Tells
      <4> QED BY <2>7, <3>1, <3>2, <4>1
    <3>3. CASE d # c
      <4>1. d \in (s \ {c}) \cap Alone /\ StreamOf(t, IdOf[c]) # d
        BY <3>1, <3>3
      <4> QED BY <2>1, <2>7, <3>1, <4>1 DEF Tells
    <3> QED BY <3>2, <3>3
  <2>11. Tells(t, v, s, items)
    BY <2>8, <2>9, <2>10 DEF Tells
  <2> QED BY <2>7, <2>11 DEF R
<1>4. IsFiniteSet(S)
  BY AsyncAssumption, FS_Subset
<1> HIDE DEF R
<1>5. <<S, ProcessOutputs(t, S, items)>> \in R
  <2>1. \A s \in SUBSET S : \A c \in s : \A u \in Values :
          <<s \ {c}, u>> \in R => <<s, ProcessOutput(u, IdOf[c], items[c])>> \in R
    BY <1>3
  <2> QED BY <1>1, <1>2, <1>4, <2>1, OutputsKeep
<1> QED BY <1>5 DEF R

-----------------------------------------------------------------------------
(* get_new_and_finished_requests. *)

\* A greatest number is one of them.
LEMMA GreatestOf ==
    ASSUME NEW n \in Nat, NEW S \in SUBSET (1 .. n), S # {}
    PROVE  Max(S) \in S
BY Extremes DEF Max

\* New requests that are not aborted yet.
LEMMA AdmittedAre ==
    ASSUME NEW t \in Values
    PROVE  /\ ToSet(t.tracker.new) \subseteq Clients
           /\ Admitted(t) = {c \in ToSet(t.tracker.new) : IdOf[c] \notin t.tracker.finished}
           /\ Range(t.tracker.streams) \subseteq Clients
           /\ t.tracker.streams \in StreamMaps
<1>1. t.tracker.new \in Seq(Clients) /\ t.tracker.streams \in StreamMaps
  BY DEF Values, Trackers
<1>2. ToSet(t.tracker.new) \subseteq Clients
  BY <1>1 DEF ToSet
<1>3. Range(t.tracker.streams) \subseteq Clients
  BY <1>1, StreamMapsAre DEF Range
<1> QED BY <1>1, <1>2, <1>3 DEF Admitted

\* The table after the new requests have been registered.
LEMMA RegisterIs ==
    ASSUME NEW t \in Values, NEW kept \in SUBSET DOMAIN t.tracker.streams
    PROVE  /\ Register(t, kept) \in StreamMaps
           /\ DOMAIN Register(t, kept) = kept \cup {IdOf[c] : c \in Admitted(t)}
           /\ Range(Register(t, kept)) \subseteq Range(t.tracker.streams) \cup ToSet(t.tracker.new)
<1> DEFINE new == t.tracker.new
           ids == {IdOf[c] : c \in Admitted(t)}
           At(id) == {i \in DOMAIN new : IdOf[new[i]] = id}
           latest(id) == new[Max(At(id))]
           f == Register(t, kept)
<1>1. new \in Seq(Clients) /\ \A c \in Admitted(t) : \E i \in DOMAIN new : c = new[i]
  BY DEF Values, Trackers, Admitted, ToSet
<1>2. \A id \in ids : latest(id) \in ToSet(new) /\ latest(id) \in Clients /\ IdOf[latest(id)] = id
  <2> SUFFICES ASSUME NEW id \in ids
               PROVE  latest(id) \in ToSet(new) /\ latest(id) \in Clients /\ IdOf[latest(id)] = id
    OBVIOUS
  <2>1. At(id) # {}
    BY <1>1
  <2>2. At(id) \in SUBSET (1 .. Len(new)) /\ Len(new) \in Nat
    BY <1>1
  <2>3. PICK m : m = Max(At(id))
    OBVIOUS
  <2>4. m \in At(id)
    BY <2>1, <2>2, <2>3, GreatestOf
  <2>5. m \in DOMAIN new /\ IdOf[new[m]] = id /\ latest(id) = new[m]
    BY <2>3, <2>4
  <2> QED BY <1>1, <2>5 DEF ToSet
<1>3. f = [id \in kept \cup ids |-> IF id \in ids THEN latest(id) ELSE StreamOf(t, id)]
  BY DEF Register
<1>4. \A id \in kept : /\ StreamOf(t, id) \in Clients /\ IdOf[StreamOf(t, id)] = id /\ id \in Ids
                       /\ StreamOf(t, id) \in Range(t.tracker.streams)
  BY StreamOfRegistered DEF Registered, Range, StreamOf
<1>5. ids \subseteq Ids
  BY AdmittedAre, IdsAre
<1> HIDE DEF new, ids, latest, f
<1>6. DOMAIN f = kept \cup ids
  BY <1>3
<1>7. \A id \in DOMAIN f : /\ f[id] \in Clients /\ IdOf[f[id]] = id
                           /\ f[id] \in Range(t.tracker.streams) \cup ToSet(new)
  BY <1>2, <1>3, <1>4
<1>8. f \in [DOMAIN f -> Clients]
  BY <1>3, <1>6, <1>7
<1>9. f \in StreamMaps
  BY <1>4, <1>5, <1>6, <1>7, <1>8, StreamMapsAre
<1>10. Range(f) \subseteq Range(t.tracker.streams) \cup ToSet(new)
  <2> HIDE DEF new
  <2>1. \A x \in Range(f) : \E id \in DOMAIN f : x = f[id]
    BY DEF Range
  <2> QED BY <1>7, <2>1
<1> QED BY <1>6, <1>9, <1>10 DEF f, new, ids

\* get_new_and_finished_requests empties both queues and registers what is admitted.
LEMMA DrainEffect ==
    ASSUME NEW t \in Values
    PROVE  /\ Drain(t) \in Values
           /\ Drain(t).tracker.new = <<>>
           /\ Drain(t).tracker.finished = {}
           /\ DOMAIN Drain(t).tracker.streams =
                (DOMAIN t.tracker.streams \ t.tracker.finished) \cup {IdOf[c] : c \in Admitted(t)}
           /\ Range(Drain(t).tracker.streams)
                \subseteq Range(t.tracker.streams) \cup ToSet(t.tracker.new)
           /\ \A c \in Clients :
                LET rejected == c \in ToSet(t.tracker.new) /\ IdOf[c] \in t.tracker.finished
                IN  /\ Drain(t).queue[c] = IF rejected THEN Append(t.queue[c], Stop)
                                                       ELSE t.queue[c]
                    /\ Drain(t).closed[c] <=> t.closed[c] \/ rejected
<1> DEFINE kept == DOMAIN t.tracker.streams \ t.tracker.finished
           rejected == ToSet(t.tracker.new) \ Admitted(t)
           Queue == [c \in Clients |-> IF c \in rejected THEN Append(t.queue[c], Stop)
                                                         ELSE t.queue[c]]
           Closed == [c \in Clients |-> t.closed[c] \/ c \in rejected]
           Tracker == [t.tracker EXCEPT !.streams = Register(t, kept), !.new = <<>>,
                                        !.finished = {}]
<1>1. Drain(t) = [queue |-> Queue, closed |-> Closed, tracker |-> Tracker]
  BY DEF Drain
<1>2. \A c : c \in rejected <=> c \in ToSet(t.tracker.new) /\ IdOf[c] \in t.tracker.finished
  BY AdmittedAre
<1>3. /\ Register(t, kept) \in StreamMaps
      /\ DOMAIN Register(t, kept) = kept \cup {IdOf[c] : c \in Admitted(t)}
      /\ Range(Register(t, kept)) \subseteq Range(t.tracker.streams) \cup ToSet(t.tracker.new)
  BY RegisterIs
<1>4. /\ Tracker \in Trackers /\ Tracker.new = <<>> /\ Tracker.finished = {}
      /\ Tracker.streams = Register(t, kept)
  <2> HIDE DEF kept
  <2>1. t.tracker \in Trackers
    BY DEF Values
  <2>2. {} \in SUBSET Ids /\ <<>> \in Seq(Clients)
    OBVIOUS
  <2>3. PICK f : f = Register(t, kept)
    OBVIOUS
  <2>4. [t.tracker EXCEPT !.streams = f, !.new = <<>>, !.finished = {}] \in Trackers
    BY <1>3, <2>1, <2>2, <2>3 DEF Trackers
  <2>5. /\ Tracker \in Trackers
        /\ Tracker.streams = f /\ Tracker.new = <<>> /\ Tracker.finished = {}
    BY <2>1, <2>3, <2>4 DEF Trackers
  <2> QED BY <2>3, <2>5
<1>5. Queue \in [Clients -> Seq(Items)]
  <2> HIDE DEF rejected
  <2>1. \A c \in Clients : t.queue[c] \in Seq(Items) /\ Append(t.queue[c], Stop) \in Seq(Items)
    BY ItemsAre DEF Values
  <2> QED BY <2>1
<1>6. Closed \in [Clients -> BOOLEAN]
  BY DEF Values
<1> HIDE DEF Queue, Closed, Tracker, rejected, kept
<1>7. Drain(t) \in Values
  BY <1>1, <1>4, <1>5, <1>6 DEF Values
<1>8. Drain(t).queue = Queue /\ Drain(t).closed = Closed /\ Drain(t).tracker = Tracker
  BY <1>1
<1>9. ASSUME NEW c \in Clients
      PROVE  /\ Queue[c] = IF c \in rejected THEN Append(t.queue[c], Stop) ELSE t.queue[c]
             /\ Closed[c] <=> t.closed[c] \/ c \in rejected
  BY DEF Queue, Closed
<1>10. ASSUME NEW c \in Clients
       PROVE  /\ Drain(t).queue[c] =
                   IF c \in ToSet(t.tracker.new) /\ IdOf[c] \in t.tracker.finished
                   THEN Append(t.queue[c], Stop) ELSE t.queue[c]
              /\ Drain(t).closed[c] <=>
                   t.closed[c] \/ (c \in ToSet(t.tracker.new) /\ IdOf[c] \in t.tracker.finished)
  BY <1>2, <1>8, <1>9
<1>11. /\ Drain(t).tracker.new = <<>>
       /\ Drain(t).tracker.finished = {}
       /\ Drain(t).tracker.streams = Register(t, kept)
  BY <1>4, <1>8
<1>12. DOMAIN Drain(t).tracker.streams =
         (DOMAIN t.tracker.streams \ t.tracker.finished) \cup {IdOf[c] : c \in Admitted(t)}
  BY <1>3, <1>11 DEF kept
<1> QED BY <1>3, <1>7, <1>10, <1>11, <1>12

-----------------------------------------------------------------------------
(* A client's queue: outputs one after the other, then what closed it. *)

QueueForm(q, number, shut, wholly, wanted) ==
    LET n == Len(q)
    IN  /\ \A i \in 1 .. n :
             q[i].number = IF q[i].kind \in {"output", "last"} THEN number + i ELSE 0
        /\ ~shut => ~wholly /\ \A i \in 1 .. n : q[i].kind = "output"
        /\ shut => /\ n > 0 /\ q[n].kind = "stop"
                   /\ \A i \in 1 .. (n - 1) : /\ q[i].kind # "stop"
                                              /\ q[i].kind # "output" => i = n - 1
                   /\ wholly => n = 1
                   /\ wanted \/ wholly \/ (n > 1 /\ q[n - 1].kind # "output")

\* A new stream is empty.
LEMMA QueueOpens ==
    ASSUME NEW wanted
    PROVE  QueueForm(<<>>, 0, FALSE, FALSE, wanted)
  BY DEF QueueForm

\* A queue stays in form when its end is asked for.
LEMMA QueueWanted ==
    ASSUME NEW q, NEW number, NEW shut, NEW wholly, NEW wanted,
           QueueForm(q, number, shut, wholly, wanted)
    PROVE  QueueForm(q, number, shut, wholly, TRUE)
  BY DEF QueueForm

\* What may be put into an open queue.
Follows(item, n) ==
    IF item.kind \in {"output", "last"} THEN item.number = n ELSE item = Exception

\* A queue stays in form when the next output is put into it.
LEMMA QueueTold ==
    ASSUME NEW q \in Seq(Items), NEW number \in Nat, NEW wanted,
           QueueForm(q, number, FALSE, FALSE, wanted),
           NEW item \in Items, Follows(item, number + Len(q) + 1)
    PROVE  /\ QueueForm(Told(q, item), number, item.kind # "output", FALSE, wanted)
           /\ item.kind = "output" => Len(Told(q, item)) = Len(q) + 1
<1>1. PICK n \in Nat : n = Len(q)
  OBVIOUS
<1>2. \A i \in 1 .. n : q[i].kind = "output" /\ q[i].number = number + i
  BY <1>1 DEF QueueForm
<1>3. PICK r : r = Append(q, item)
  OBVIOUS
<1>4. /\ r \in Seq(Items) /\ Len(r) = n + 1 /\ r[n + 1] = item
      /\ \A i \in 1 .. n : r[i] = q[i]
  BY <1>1, <1>3
<1>5. CASE item.kind = "output"
  <2>1. Told(q, item) = r
    BY <1>3, <1>5 DEF Told
  <2>2. \A i \in 1 .. (n + 1) : r[i].kind = "output" /\ r[i].number = number + i
    BY <1>1, <1>2, <1>4, <1>5 DEF Follows
  <2>3. QueueForm(r, number, FALSE, FALSE, wanted)
    BY <1>4, <2>2 DEF QueueForm
  <2>4. (item.kind # "output") = FALSE
    BY <1>5
  <2> QED BY <1>1, <1>4, <2>1, <2>3, <2>4
<1>6. CASE item.kind # "output"
  <2>1. PICK s : s = Append(r, Stop)
    OBVIOUS
  <2>2. Told(q, item) = s
    BY <1>3, <1>6, <2>1 DEF Told
  <2>3. /\ s \in Seq(Items) /\ Len(s) = n + 2 /\ s[n + 2] = Stop /\ s[n + 1] = item
        /\ \A i \in 1 .. n : s[i] = q[i]
    BY <1>4, <2>1, ItemsAre
  <2>4. item.number = IF item.kind = "last" THEN number + (n + 1) ELSE 0
    BY <1>1, <1>6, ItemsAre DEF Follows
  <2>5. item.kind \in {"last", "exception"}
    BY <1>6, ItemsAre DEF Follows
  <2>6. \A i \in 1 .. (n + 2) :
          s[i].number = IF s[i].kind \in {"output", "last"} THEN number + i ELSE 0
    <3> SUFFICES ASSUME NEW i \in 1 .. (n + 2)
                 PROVE  s[i].number = IF s[i].kind \in {"output", "last"} THEN number + i ELSE 0
      OBVIOUS
    <3>1. CASE i \in 1 .. n
      BY <1>2, <2>3, <3>1
    <3>2. CASE i = n + 1
      BY <2>3, <2>4, <2>5, <3>2
    <3>3. CASE i = n + 2
      BY <2>3, <3>3, ItemsAre
    <3> QED BY <3>1, <3>2, <3>3
  <2>7. \A i \in 1 .. (n + 1) : s[i].kind # "stop" /\ (s[i].kind # "output" => i = n + 1)
    <3> SUFFICES ASSUME NEW i \in 1 .. (n + 1)
                 PROVE  s[i].kind # "stop" /\ (s[i].kind # "output" => i = n + 1)
      OBVIOUS
    <3>1. CASE i \in 1 .. n
      BY <1>2, <2>3, <3>1
    <3>2. CASE i = n + 1
      BY <2>3, <2>5, <3>2
    <3> QED BY <3>1, <3>2
  <2>8. QueueForm(s, number, TRUE, FALSE, wanted)
    BY <1>6, <2>3, <2>6, <2>7, ItemsAre DEF QueueForm
  <2>9. (item.kind # "output") = TRUE
    BY <1>6
  <2> QED BY <1>6, <2>2, <2>8, <2>9
<1> QED BY <1>5, <1>6

\* A queue stays in form when the sentinel ends it.
LEMMA QueueStopped ==
    ASSUME NEW q \in Seq(Items), NEW number \in Nat, NEW wanted,
           QueueForm(q, number, FALSE, FALSE, wanted)
    PROVE  QueueForm(Append(q, Stop), number, TRUE, FALSE, TRUE)
<1>1. PICK n \in Nat : n = Len(q)
  OBVIOUS
<1>2. \A i \in 1 .. n : q[i].kind = "output" /\ q[i].number = number + i
  BY <1>1 DEF QueueForm
<1>3. PICK r : r = Append(q, Stop)
  OBVIOUS
<1>4. /\ r \in Seq(Items) /\ Len(r) = n + 1 /\ r[n + 1] = Stop
      /\ \A i \in 1 .. n : r[i] = q[i]
  BY <1>1, <1>3, ItemsAre
<1>5. \A i \in 1 .. (n + 1) :
        r[i].number = IF r[i].kind \in {"output", "last"} THEN number + i ELSE 0
  BY <1>2, <1>4, ItemsAre
<1>6. \A i \in 1 .. n : r[i].kind = "output"
  BY <1>2, <1>4
<1>7. QueueForm(r, number, TRUE, FALSE, TRUE)
  BY <1>4, <1>5, <1>6, ItemsAre DEF QueueForm
<1> QED BY <1>3, <1>7

\* The first item of a queue in form is the next output.
LEMMA QueueRead ==
    ASSUME NEW q \in Seq(Items), q # <<>>, NEW number \in Nat, NEW shut \in BOOLEAN,
           NEW wholly \in BOOLEAN, NEW wanted \in BOOLEAN,
           QueueForm(q, number, shut, wholly, wanted), Head(q).kind \in {"output", "last"}
    PROVE  /\ Head(q).number = number + 1
           /\ ~wholly
           /\ QueueForm(Tail(q), number + 1, shut, Head(q).kind = "last", wanted)
           /\ Len(Tail(q)) + 1 = Len(q)
<1>1. PICK n \in Nat : n = Len(q) /\ n > 0
  OBVIOUS
<1>2. PICK r : r = Tail(q)
  OBVIOUS
<1>3. /\ Head(q) = q[1]
      /\ Len(r) = n - 1 /\ \A i \in 1 .. (n - 1) : r[i] = q[i + 1]
  BY <1>1, <1>2
<1>4. Head(q).number = number + 1
  BY <1>1, <1>3 DEF QueueForm
<1>5. shut => n > 1
  BY <1>1, <1>3 DEF QueueForm
<1>6. ~wholly
  BY <1>1, <1>5 DEF QueueForm
<1>7. \A i \in 1 .. (n - 1) :
        r[i].number = IF r[i].kind \in {"output", "last"} THEN (number + 1) + i ELSE 0
  <2>1. \A i \in 1 .. (n - 1) : i + 1 \in 1 .. n /\ number + (i + 1) = (number + 1) + i
    BY <1>1
  <2> QED BY <1>1, <1>3, <2>1 DEF QueueForm
<1>8. ~shut => Head(q).kind # "last" /\ \A i \in 1 .. (n - 1) : r[i].kind = "output"
  <2>1. \A i \in 1 .. (n - 1) : i + 1 \in 1 .. n
    BY <1>1
  <2> QED BY <1>1, <1>3, <2>1 DEF QueueForm
<1>9. ASSUME shut
      PROVE  /\ n - 1 > 0 /\ r[n - 1].kind = "stop"
             /\ \A i \in 1 .. ((n - 1) - 1) : /\ r[i].kind # "stop"
                                              /\ r[i].kind # "output" => i = (n - 1) - 1
             /\ Head(q).kind = "last" => n - 1 = 1
             /\ \/ wanted \/ Head(q).kind = "last"
                \/ n - 1 > 1 /\ r[(n - 1) - 1].kind # "output"
  <2>1. /\ q[n].kind = "stop"
        /\ \A i \in 1 .. (n - 1) : q[i].kind # "stop" /\ (q[i].kind # "output" => i = n - 1)
        /\ wanted \/ q[n - 1].kind # "output"
    BY <1>1, <1>6, <1>9 DEF QueueForm
  <2>2. n - 1 > 0 /\ r[n - 1] = q[n]
    BY <1>1, <1>3, <1>5, <1>9
  <2>3. \A i \in 1 .. ((n - 1) - 1) : r[i] = q[i + 1] /\ i + 1 \in 1 .. (n - 1)
    BY <1>1, <1>3
  <2>4. Head(q).kind = "last" => n - 1 = 1
    BY <1>1, <1>3, <1>5, <1>9, <2>1
  <2>5. \/ wanted \/ Head(q).kind = "last"
        \/ n - 1 > 1 /\ r[(n - 1) - 1].kind # "output"
    <3>1. CASE n = 2
      BY <1>3, <2>1, <3>1
    <3>2. CASE n > 2
      BY <1>3, <2>1, <3>2
    <3> QED BY <1>1, <1>5, <1>9, <3>1, <3>2
  <2> QED BY <1>1, <2>1, <2>2, <2>3, <2>4, <2>5
<1>10. QueueForm(r, number + 1, shut, Head(q).kind = "last", wanted)
  BY <1>1, <1>3, <1>7, <1>8, <1>9 DEF QueueForm
<1> QED BY <1>1, <1>2, <1>3, <1>4, <1>6, <1>10

\* A queue in form ends when the request was done or its end was wanted.
LEMMA QueueEnd ==
    ASSUME NEW q \in Seq(Items), q # <<>>, NEW number \in Nat, NEW shut \in BOOLEAN,
           NEW wholly \in BOOLEAN, NEW wanted \in BOOLEAN,
           QueueForm(q, number, shut, wholly, wanted), Head(q).kind = "stop"
    PROVE  shut /\ (wholly \/ wanted)
<1>1. PICK n \in Nat : n = Len(q) /\ n > 0 /\ Head(q) = q[1]
  OBVIOUS
<1>2. shut
  BY <1>1 DEF QueueForm
<1>3. n = 1
  <2>1. \A i \in 1 .. (n - 1) : q[i].kind # "stop"
    BY <1>1, <1>2 DEF QueueForm
  <2> QED BY <1>1, <2>1
<1> QED BY <1>1, <1>2, <1>3 DEF QueueForm

-----------------------------------------------------------------------------
(* The inductive invariant. *)

ClientPlaces == {"out", "encoding", "streaming", "ended", "failed", "refused",
                 "gone", "left"}
LoopPlaces == {"none", "turn", "blocked", "ready", "executing", "ended"}

StateTypes ==
    /\ client \in [Clients -> ClientPlaces]
    /\ got \in [Clients -> 0 .. MaxOutputs]
    /\ whole \in [Clients -> BOOLEAN]
    /\ asked \in [Clients -> BOOLEAN]
    /\ State \in Values
    /\ groups \subseteq Clients /\ scheduled \subseteq groups
    /\ made \in [Clients -> 0 .. MaxOutputs]
    /\ loop \in LoopPlaces
    /\ progress \in BOOLEAN /\ callback \in BOOLEAN /\ errored \in BOOLEAN
    /\ loops \in Nat

\* The background task: until there is a second one, a failure has ended it.
LoopFacts ==
    /\ loops = 0 => /\ loop = "none" /\ groups = {} /\ ~errored /\ ~callback
                    /\ \A c \in Clients : client[c] = "out"
    /\ scheduled # {} => loop = "executing"
    /\ loops = 1 /\ (callback \/ errored) => loop = "ended"

New == ToSet(tracker.new)
Streams == Range(tracker.streams)
Known(c) == IdOf[c] \in DOMAIN tracker.streams

\* A client that did not reach the tracker, and a stream nobody has written to.
Outside(c) == client[c] \in {"out", "encoding", "refused"}
Unread(c) == queue[c] = <<>> /\ ~closed[c] /\ made[c] = 0 /\ got[c] = 0 /\ ~whole[c]

\* A client reaches the tracker, then its streams and the engine, with a new stream.
Entry(c) ==
    /\ Outside(c) \/ c \in New => Unread(c) /\ c \notin Streams \cup groups
    /\ Outside(c) => c \notin New
    /\ c \in groups => made[c] < MaxOutputs

\* The tracker is to forget exactly the requests that somebody gave up, or asked to
\* abort, or that are at their end; a client that only left did neither.
FinishedFacts(c) ==
    /\ Outside(c) => ~asked[c]
    /\ client[c] = "left" => c \notin New
    /\ IdOf[c] \in tracker.finished => /\ ~Outside(c)
                                       /\ client[c] = "streaming" /\ c \in New => asked[c]
                                       /\ Known(c) => closed[c]
    /\ c \in New \/ Known(c) =>
         (client[c] \notin {"streaming", "left"} \/ closed[c] \/ asked[c] =>
            IdOf[c] \in tracker.finished)

StreamFacts(c) ==
    client[c] = "streaming" =>
      /\ QueueForm(queue[c], got[c], closed[c], whole[c], asked[c])
      /\ ~closed[c] /\ (c \in New \/ Known(c)) /\ loop # "ended" =>
           got[c] + Len(queue[c]) = made[c]
      /\ ~closed[c] /\ loops = 1 => c \in New \/ Known(c)

EngineFacts(c) ==
    loops = 1 /\ c \in groups => Known(c) /\ (errored /\ ~callback => closed[c])

Good(c) == FinishedFacts(c) /\ StreamFacts(c) /\ EngineFacts(c)

IInv ==
    /\ StateTypes
    /\ LoopFacts
    /\ \A c \in Clients : Entry(c)
    /\ \A c \in Alone : Good(c)

\* The parts of the state that the tracker's operators take.
LEMMA StateIs ==
    /\ State.queue = queue /\ State.closed = closed /\ State.tracker = tracker
    /\ \A id : Registered(State, id) <=> id \in DOMAIN tracker.streams
    /\ \A id : StreamOf(State, id) = tracker.streams[id]
  BY DEF State, Registered, StreamOf

\* Their types.
LEMMA StateTyped ==
    (State \in Values) <=> /\ queue \in [Clients -> Seq(Items)]
                           /\ closed \in [Clients -> BOOLEAN]
                           /\ tracker \in Trackers
  BY DEF State, Values

\* Their types in the next state.
LEMMA StateTypedNext ==
    (State' \in Values) <=> /\ queue' \in [Clients -> Seq(Items)]
                            /\ closed' \in [Clients -> BOOLEAN]
                            /\ tracker' \in Trackers
  BY DEF State, Values

\* Clients with an id of their own are clients.
LEMMA AloneIs == Alone \subseteq Clients
  BY DEF Alone

\* For a client with an id of its own the tracker knows its id, or its stream.
LEMMA AloneKnown ==
    ASSUME State \in Values, NEW c \in Alone
    PROVE  Known(c) <=> c \in Streams
<1>1. tracker.streams \in StreamMaps
  BY StateTyped DEF Trackers
<1>2. ASSUME NEW id \in DOMAIN tracker.streams
      PROVE  tracker.streams[id] = c <=> id = IdOf[c]
  BY <1>1, <1>2, StreamMapsAre DEF Alone
<1> QED BY <1>2 DEF Known, Streams, Range

\* The state becomes what an operator of the tracker returns.
LEMMA BecomeEffect ==
    ASSUME NEW t \in Values, Become(t)
    PROVE  /\ State' \in Values
           /\ tracker' = t.tracker
           /\ closed' = t.closed
           /\ \A c \in Clients : queue'[c] = IF client'[c] = "streaming" THEN t.queue[c] ELSE <<>>
<1>1. \A c \in Clients : t.queue[c] \in Seq(Items) /\ <<>> \in Seq(Items)
  BY DEF Values
<1>2. queue' \in [Clients -> Seq(Items)]
  BY <1>1 DEF Become
<1>3. State' = [queue |-> queue', closed |-> closed', tracker |-> tracker']
  BY DEF State
<1>4. State' \in Values
  BY <1>2, <1>3 DEF Become, Values
<1> QED BY <1>4 DEF Become

\* The invariant holds at the start.
LEMMA InitInv == Init => IInv
<1> SUFFICES ASSUME Init PROVE IInv
  OBVIOUS
<1>1. <<>> \in StreamMaps /\ DOMAIN (<<>>) = {}
  <2>1. <<>> \in Seq(Clients) /\ Len(<<>>) = 0
    OBVIOUS
  <2>2. <<>> \in [1 .. 0 -> Clients] /\ 1 .. 0 = {}
    BY <2>1
  <2>3. DOMAIN (<<>>) = {}
    OBVIOUS
  <2> QED BY <2>2, <2>3, StreamMapsAre
<1>2. NewTracker \in Trackers
  BY <1>1 DEF NewTracker, Trackers
<1>3. State \in Values
  BY <1>2, StateTyped DEF Init
<1>4. New = {} /\ Streams = {} /\ tracker.finished = {} /\ \A c : ~Known(c)
  BY <1>1 DEF Init, NewTracker, New, Streams, Known, ToSet, Range
<1>5. StateTypes
  <2>1. 0 \in 0 .. MaxOutputs
    BY AsyncAssumption
  <2>2. /\ got \in [Clients -> 0 .. MaxOutputs] /\ made \in [Clients -> 0 .. MaxOutputs]
        /\ whole \in [Clients -> BOOLEAN] /\ asked \in [Clients -> BOOLEAN]
        /\ client \in [Clients -> ClientPlaces]
    BY <2>1 DEF Init, ClientPlaces
  <2>3. /\ groups \subseteq Clients /\ scheduled \subseteq groups
        /\ loop \in LoopPlaces
        /\ progress \in BOOLEAN /\ callback \in BOOLEAN /\ errored \in BOOLEAN
        /\ loops \in Nat
    BY DEF Init, LoopPlaces
  <2> QED BY <1>3, <2>2, <2>3 DEF StateTypes
<1>6. LoopFacts
  BY DEF Init, LoopFacts
<1>7. ASSUME NEW c \in Clients
      PROVE  Entry(c)
  BY <1>4 DEF Init, Entry, Outside, Unread
<1>8. ASSUME NEW c \in Alone
      PROVE  Good(c)
  <2>1. c \in Clients
    BY AloneIs
  <2> QED BY <1>4, <2>1 DEF Init, Good, FinishedFacts, StreamFacts, EngineFacts
<1> QED BY <1>5, <1>6, <1>7, <1>8 DEF IInv

\* A step that leaves what concerns a client as it is.
Calm ==
    /\ loops' = loops
    /\ loop' # "ended" => loop # "ended"
    /\ errored' /\ ~callback' => errored /\ ~callback

SameFor(c) ==
    /\ client'[c] = client[c] /\ got'[c] = got[c] /\ whole'[c] = whole[c]
    /\ asked'[c] = asked[c] /\ made'[c] = made[c] /\ (closed'[c] <=> closed[c])
    /\ client[c] = "streaming" => queue'[c] = queue[c]
    /\ c \in New' <=> c \in New
    /\ Known(c)' <=> Known(c)
    /\ IdOf[c] \in tracker'.finished <=> IdOf[c] \in tracker.finished
    /\ c \in groups' => c \in groups

\* A client to whom nothing happens stays well.
LEMMA GoodStays ==
    ASSUME NEW c \in Alone, Good(c), SameFor(c), Calm
    PROVE  Good(c)'
<1>1. FinishedFacts(c)'
  BY DEF SameFor, Good, FinishedFacts, Outside
<1>2. StreamFacts(c)'
  BY DEF SameFor, Calm, Good, StreamFacts, QueueForm
<1>3. EngineFacts(c)'
  BY DEF SameFor, Calm, Good, EngineFacts
<1> QED BY <1>1, <1>2, <1>3 DEF Good

\* The entry of a client stays when the tracker's sets only shrink around it.
LEMMA EntryStays ==
    ASSUME NEW c \in Clients, Entry(c),
           Outside(c)' => Outside(c), c \in New' => c \in New,
           c \in Streams' => c \in Streams, c \in groups' => c \in groups,
           Outside(c) \/ c \in New => Unread(c)', c \in groups' => made'[c] = made[c]
    PROVE  Entry(c)'
  BY DEF Entry

\* The sets of the tracker that do not change.
LEMMA TrackerStays ==
    ASSUME tracker'.streams = tracker.streams, tracker'.new = tracker.new
    PROVE  /\ New' = New /\ Streams' = Streams
           /\ \A c : Known(c)' <=> Known(c)
  BY DEF New, Streams, Known

-----------------------------------------------------------------------------
(* The clients' steps keep the invariant. *)

\* generate() keeps the invariant.
LEMMA BeginRequestInv ==
    ASSUME IInv, NEW c \in Clients, BeginRequest(c)
    PROVE  IInv'
<1>1. /\ client' = [client EXCEPT ![c] = client'[c]]
      /\ client'[c] \in {"encoding", "refused"} /\ client[c] = "out"
      /\ UNCHANGED <<got, whole, asked, queue, closed, groups, made, scheduled, errored, callback>>
  BY DEF BeginRequest, engineVars, loopVars, IInv, StateTypes
<1>2. /\ client' \in [Clients -> ClientPlaces] /\ State \in Values
      /\ \A d \in Clients : Outside(d)' <=> Outside(d)
      /\ \A d \in Clients : client'[d] = "streaming" <=> client[d] = "streaming"
  BY <1>1 DEF IInv, StateTypes, ClientPlaces, Outside
<1>3. CASE IsRunning \/ errored
  <2>1. UNCHANGED <<tracker, loop, progress, loops>>
    BY <1>3 DEF BeginRequest, loopVars
  <2>2. /\ New' = New /\ Streams' = Streams /\ \A d : Known(d)' <=> Known(d)
    BY <2>1, TrackerStays
  <2>3. StateTypes'
    BY <1>1, <1>2, <2>1, StateTyped, StateTypedNext DEF IInv, StateTypes
  <2>4. LoopFacts'
    BY <1>1, <1>3, <2>1 DEF IInv, LoopFacts, IsRunning
  <2>5. ASSUME NEW d \in Clients
        PROVE  Entry(d)'
    BY <1>1, <1>2, <2>2 DEF IInv, Entry, Unread
  <2>6. ASSUME NEW d \in Alone
        PROVE  Good(d)'
    <3>1. d \in Clients /\ Good(d)
      BY AloneIs DEF IInv
    <3>2. FinishedFacts(d)' /\ EngineFacts(d)'
      BY <1>1, <1>2, <2>1, <2>2, <3>1 DEF Good, FinishedFacts, EngineFacts
    <3>3. StreamFacts(d)'
      BY <1>1, <1>2, <2>1, <2>2, <3>1 DEF Good, StreamFacts
    <3> QED BY <3>2, <3>3 DEF Good
  <2> QED BY <2>3, <2>4, <2>5, <2>6 DEF IInv
<1>4. CASE ~(IsRunning \/ errored)
  <2>1. /\ tracker' = NewTracker /\ loop' = "turn" /\ progress' = FALSE /\ loops' = loops + 1
    BY <1>4 DEF BeginRequest
  <2>2. NewTracker \in Trackers
    <3>1. NewTracker.streams \in StreamMaps
      <4>1. <<>> \in Seq(Clients) /\ Len(<<>>) = 0
        OBVIOUS
      <4>2. <<>> \in [1 .. 0 -> Clients] /\ 1 .. 0 = {} /\ DOMAIN (<<>>) = {}
        BY <4>1
      <4> QED BY <4>2, StreamMapsAre DEF NewTracker
    <3> QED BY <3>1 DEF NewTracker, Trackers
  <2>3. /\ New' = {} /\ Streams' = {} /\ tracker'.finished = {} /\ \A d : ~Known(d)'
    BY <2>1 DEF NewTracker, New, Streams, Known, ToSet, Range
  <2>4. StateTypes'
    <3>1. State' \in Values
      BY <1>1, <1>2, <2>1, <2>2, StateTyped, StateTypedNext
    <3>2. loop' \in LoopPlaces /\ progress' \in BOOLEAN /\ loops' \in Nat
      <4>1. loops \in Nat
        BY DEF IInv, StateTypes
      <4>2. loops' \in Nat
        BY <2>1, <4>1
      <4>3. loop' \in LoopPlaces
        BY <2>1 DEF LoopPlaces
      <4>4. progress' \in BOOLEAN
        BY <2>1
      <4> QED BY <4>2, <4>3, <4>4
    <3>3. /\ got' \in [Clients -> 0 .. MaxOutputs] /\ made' \in [Clients -> 0 .. MaxOutputs]
          /\ whole' \in [Clients -> BOOLEAN] /\ asked' \in [Clients -> BOOLEAN]
          /\ groups' \subseteq Clients /\ scheduled' \subseteq groups'
          /\ callback' \in BOOLEAN /\ errored' \in BOOLEAN
      BY <1>1 DEF IInv, StateTypes
    <3> QED BY <1>2, <3>1, <3>2, <3>3 DEF StateTypes
  <2>5. LoopFacts'
    BY <1>1, <1>4, <2>1 DEF IInv, StateTypes, LoopFacts, IsRunning
  <2>6. ASSUME NEW d \in Clients
        PROVE  Entry(d)'
    BY <1>1, <1>2, <2>3 DEF IInv, Entry, Unread
  <2>7. ASSUME NEW d \in Alone
        PROVE  Good(d)'
    <3>1. d \in Clients /\ Good(d)
      BY AloneIs DEF IInv
    <3>2. loops' = 1 => client[d] = "out" /\ groups' = {}
      BY <1>1, <2>1, <3>1 DEF IInv, StateTypes, LoopFacts
    <3>3. FinishedFacts(d)'
      BY <1>1, <1>2, <2>3, <3>1 DEF Good, FinishedFacts
    <3>4. StreamFacts(d)'
      BY <1>1, <1>2, <2>3, <3>1, <3>2 DEF Good, StreamFacts
    <3>5. EngineFacts(d)'
      BY <3>2 DEF EngineFacts
    <3> QED BY <3>3, <3>4, <3>5 DEF Good
  <2> QED BY <2>4, <2>5, <2>6, <2>7 DEF IInv
<1> QED BY <1>3, <1>4

\* add_request keeps the invariant.
LEMMA AddRequestInv ==
    ASSUME IInv, NEW c \in Clients, AddRequest(c)
    PROVE  IInv'
<1>1. /\ client[c] = "encoding"
      /\ UNCHANGED <<got, whole, asked, queue, closed, groups, made, scheduled>>
      /\ UNCHANGED <<loop, progress, callback, errored, loops>>
  BY DEF AddRequest, engineVars, loopVars
<1>2. State \in Values /\ loops # 0 /\ tracker \in Trackers /\ Calm
  <2>1. State \in Values
    BY DEF IInv, StateTypes
  <2> QED BY <1>1, <2>1, StateTyped DEF IInv, LoopFacts, Calm
<1>3. LoopFacts'
  BY <1>1, <1>2 DEF IInv, LoopFacts
<1>4. CASE Registered(State, IdOf[c])
  <2>1. client' = [client EXCEPT ![c] = "refused"] /\ tracker' = tracker
    BY <1>4 DEF AddRequest
  <2>2. /\ client' \in [Clients -> ClientPlaces]
        /\ \A d \in Clients : Outside(d)' <=> Outside(d)
        /\ \A d \in Clients : client'[d] = "streaming" <=> client[d] = "streaming"
    BY <1>1, <2>1 DEF IInv, StateTypes, ClientPlaces, Outside
  <2>3. /\ New' = New /\ Streams' = Streams /\ \A d : Known(d)' <=> Known(d)
    BY <2>1, TrackerStays
  <2>4. StateTypes'
    BY <1>1, <1>2, <2>1, <2>2, StateTyped, StateTypedNext DEF IInv, StateTypes
  <2>5. ASSUME NEW d \in Clients
        PROVE  Entry(d)'
    BY <1>1, <2>2, <2>3 DEF IInv, Entry, Unread
  <2>6. ASSUME NEW d \in Alone
        PROVE  Good(d)'
    <3>1. d \in Clients /\ Good(d)
      BY AloneIs DEF IInv
    <3>2. FinishedFacts(d)' /\ EngineFacts(d)'
      BY <1>1, <2>1, <2>2, <2>3, <3>1 DEF Good, FinishedFacts, EngineFacts
    <3>3. StreamFacts(d)'
      BY <1>1, <2>1, <2>2, <2>3, <3>1 DEF Good, StreamFacts
    <3> QED BY <3>2, <3>3 DEF Good
  <2> QED BY <1>3, <2>4, <2>5, <2>6 DEF IInv
<1>5. CASE ~Registered(State, IdOf[c])
  <2>1. /\ client' = [client EXCEPT ![c] = "streaming"]
        /\ tracker' = [tracker EXCEPT !.new = Append(@, c), !.event = TRUE]
    BY <1>5 DEF AddRequest
  <2>2. /\ client' \in [Clients -> ClientPlaces] /\ client'[c] = "streaming"
        /\ \A d \in Clients \ {c} : client'[d] = client[d]
    BY <2>1 DEF IInv, StateTypes, ClientPlaces
  <2>3. /\ tracker.new \in Seq(Clients) /\ tracker' \in Trackers
        /\ tracker'.new = Append(tracker.new, c)
        /\ tracker'.streams = tracker.streams /\ tracker'.finished = tracker.finished
    <3>1. tracker.new \in Seq(Clients) /\ Append(tracker.new, c) \in Seq(Clients)
      BY <1>2 DEF Trackers
    <3>2. PICK s \in Seq(Clients) : s = Append(tracker.new, c)
      BY <3>1
    <3>3. tracker' = [tracker EXCEPT !.new = s, !.event = TRUE]
      BY <2>1, <3>2
    <3> QED BY <1>2, <3>1, <3>2, <3>3 DEF Trackers
  <2>4. New' = New \cup {c}
    <3>1. Len(Append(tracker.new, c)) = Len(tracker.new) + 1
      BY <2>3
    <3>2. \A i \in 1 .. Len(tracker.new) : Append(tracker.new, c)[i] = tracker.new[i]
      BY <2>3
    <3>3. Append(tracker.new, c)[Len(tracker.new) + 1] = c
      BY <2>3
    <3>4. 1 .. (Len(tracker.new) + 1) = (1 .. Len(tracker.new)) \cup {Len(tracker.new) + 1}
      BY <2>3
    <3>5. DOMAIN tracker.new = 1 .. Len(tracker.new)
      BY <2>3
    <3>6. DOMAIN Append(tracker.new, c) = (1 .. Len(tracker.new)) \cup {Len(tracker.new) + 1}
      BY <2>3, <3>1, <3>4
    <3> QED BY <2>3, <3>2, <3>3, <3>5, <3>6 DEF New, ToSet
  <2>5. Streams' = Streams /\ \A d : Known(d)' <=> Known(d)
    BY <2>3 DEF Streams, Known
  <2>6. StateTypes'
    BY <1>1, <1>2, <2>2, <2>3, StateTyped, StateTypedNext DEF IInv, StateTypes
  <2>7. Entry(c) /\ Outside(c)
    BY <1>1 DEF IInv, Outside
  <2>8. Entry(c)'
    BY <1>1, <2>2, <2>5, <2>7 DEF Entry, Unread, Outside
  <2>9. ASSUME NEW d \in Clients \ {c}
        PROVE  Entry(d)'
    BY <1>1, <2>2, <2>4, <2>5 DEF IInv, Entry, Unread, Outside
  <2>10. ASSUME NEW d \in Alone \ {c}
         PROVE  Good(d)'
    <3>1. d \in Clients /\ Good(d)
      BY AloneIs DEF IInv
    <3>2. SameFor(d)
      BY <1>1, <2>2, <2>3, <2>4, <2>5, <3>1 DEF SameFor
    <3> QED BY <1>2, <3>1, <3>2, GoodStays
  <2>11. ASSUME c \in Alone
         PROVE  Good(c)'
    <3>1. Unread(c) /\ Good(c)
      BY <2>7, <2>11 DEF Entry, IInv
    <3>2. FinishedFacts(c)'
      BY <1>1, <2>2, <2>3, <2>7, <3>1 DEF Good, FinishedFacts, Unread
    <3>3. StreamFacts(c)'
      <4>1. QueueForm(queue[c], got[c], closed[c], whole[c], asked[c])'
        BY <1>1, <3>1 DEF Unread, QueueForm
      <4>2. c \in New' /\ got'[c] + Len(queue'[c]) = made'[c]
        BY <1>1, <2>4, <3>1 DEF Unread
      <4> QED BY <4>1, <4>2 DEF StreamFacts
    <3>4. EngineFacts(c)'
      BY <1>1, <2>5, <3>1 DEF Good, EngineFacts
    <3> QED BY <3>2, <3>3, <3>4 DEF Good
  <2> QED BY <1>3, <2>6, <2>8, <2>9, <2>10, <2>11 DEF IInv
<1> QED BY <1>4, <1>5

\* Reading a stream keeps the invariant.
LEMMA ReceiveInv ==
    ASSUME IInv, NEW c \in Clients, Receive(c)
    PROVE  IInv'
<1>1. /\ client[c] = "streaming" /\ queue[c] # <<>>
      /\ Head(queue[c]).kind \in {"output", "last", "stop"}
      /\ queue' = [queue EXCEPT ![c] = Tail(@)]
      /\ UNCHANGED <<asked, closed, tracker, groups, made, scheduled>>
      /\ UNCHANGED <<loop, progress, callback, errored, loops>>
  BY DEF Receive, engineVars, loopVars
<1>2. /\ State \in Values /\ queue \in [Clients -> Seq(Items)]
      /\ got[c] \in Nat /\ closed[c] \in BOOLEAN /\ whole[c] \in BOOLEAN /\ asked[c] \in BOOLEAN
  BY StateTyped DEF IInv, StateTypes
<1>3. queue[c] \in Seq(Items) /\ Head(queue[c]) \in Items /\ Tail(queue[c]) \in Seq(Items)
  BY <1>1, <1>2
<1>4. /\ queue' \in [Clients -> Seq(Items)] /\ queue'[c] = Tail(queue[c])
      /\ \A d \in Clients \ {c} : queue'[d] = queue[d]
  BY <1>1, <1>2, <1>3
<1>5. State' \in Values
  BY <1>1, <1>2, <1>4, StateTyped, StateTypedNext
<1>6. /\ \A d \in Clients \ {c} : client'[d] = client[d] /\ got'[d] = got[d] /\ whole'[d] = whole[d]
      /\ client' \in [Clients -> ClientPlaces] /\ got' \in [Clients -> 0 .. MaxOutputs]
      /\ whole' \in [Clients -> BOOLEAN]
  <2>1. CASE Head(queue[c]).kind = "stop"
    BY <2>1 DEF Receive, IInv, StateTypes, ClientPlaces
  <2>2. CASE Head(queue[c]).kind # "stop"
    <3>1. /\ got' = [got EXCEPT ![c] = Head(queue[c]).number]
          /\ whole' = [whole EXCEPT ![c] = (Head(queue[c]).kind = "last")]
          /\ client' = client
      BY <2>2 DEF Receive
    <3>2. Head(queue[c]).number \in 0 .. MaxOutputs
      BY <1>3 DEF Items
    <3> QED BY <3>1, <3>2 DEF IInv, StateTypes
  <2> QED BY <2>1, <2>2
<1>7. StateTypes'
  BY <1>1, <1>5, <1>6 DEF IInv, StateTypes
<1>8. loops # 0 /\ Calm /\ LoopFacts'
  BY <1>1 DEF IInv, LoopFacts, Calm
<1>9. New' = New /\ Streams' = Streams /\ \A d : Known(d)' <=> Known(d)
  BY <1>1, TrackerStays
<1>10. ASSUME NEW d \in Clients \ {c}
       PROVE  Entry(d)'
  BY <1>1, <1>4, <1>6, <1>9 DEF IInv, Entry, Unread, Outside
<1>11. c \notin New /\ ~Outside(c) /\ ~Outside(c)'
  BY <1>1 DEF IInv, Entry, Unread, Outside, Receive, StateTypes
<1>12. Entry(c)'
  BY <1>1, <1>9, <1>11 DEF IInv, Entry
<1>13. ASSUME NEW d \in Alone \ {c}
       PROVE  Good(d)'
  <2>1. d \in Clients \ {c} /\ Good(d)
    BY AloneIs DEF IInv
  <2>2. SameFor(d)
    BY <1>1, <1>4, <1>6, <1>9, <2>1 DEF SameFor
  <2> QED BY <1>8, <2>1, <2>2, GoodStays
<1>14. ASSUME c \in Alone
       PROVE  Good(c)'
  <2>1. Good(c)
    BY <1>14 DEF IInv
  <2>2. QueueForm(queue[c], got[c], closed[c], whole[c], asked[c])
    BY <1>1, <2>1 DEF Good, StreamFacts
  <2>3. EngineFacts(c)'
    BY <1>1, <1>9, <2>1 DEF Good, EngineFacts
  <2>4. CASE Head(queue[c]).kind = "stop"
    <3>1. client'[c] = "ended"
      BY <2>4 DEF Receive, IInv, StateTypes
    <3>2. closed[c]
      BY <1>1, <1>2, <1>3, <2>2, <2>4, QueueEnd
    <3>3. FinishedFacts(c)'
      BY <1>1, <1>9, <1>11, <2>1, <3>1, <3>2 DEF Good, FinishedFacts
    <3> QED BY <2>3, <3>1, <3>3 DEF Good, StreamFacts
  <2>5. CASE Head(queue[c]).kind # "stop"
    <3>1. /\ got'[c] = Head(queue[c]).number /\ client'[c] = "streaming"
          /\ whole'[c] = (Head(queue[c]).kind = "last")
      BY <1>1, <2>5 DEF Receive, IInv, StateTypes
    <3>2. /\ Head(queue[c]).number = got[c] + 1
          /\ QueueForm(Tail(queue[c]), got[c] + 1, closed[c], Head(queue[c]).kind = "last", asked[c])
          /\ Len(Tail(queue[c])) + 1 = Len(queue[c])
      BY <1>1, <1>2, <1>3, <2>2, <2>5, QueueRead
    <3>3. QueueForm(queue'[c], got'[c], closed'[c], whole'[c], asked'[c])
      BY <1>1, <1>4, <3>1, <3>2
    <3>4. got'[c] + Len(queue'[c]) = got[c] + Len(queue[c])
      <4>1. Len(Tail(queue[c])) \in Nat
        BY <1>3
      <4>2. PICK n \in Nat : n = Len(Tail(queue[c]))
        BY <4>1
      <4>3. Len(queue[c]) = n + 1 /\ Len(queue'[c]) = n /\ got'[c] = got[c] + 1
        BY <1>4, <3>1, <3>2, <4>2
      <4>4. PICK g \in Nat : g = got[c]
        BY <1>2
      <4>5. (g + 1) + n = g + (n + 1)
        OBVIOUS
      <4> QED BY <4>3, <4>4, <4>5
    <3>5. StreamFacts(c)'
      BY <1>1, <1>9, <2>1, <3>1, <3>3, <3>4 DEF Good, StreamFacts
    <3>6. FinishedFacts(c)'
      BY <1>1, <1>9, <1>11, <2>1, <3>1 DEF Good, FinishedFacts
    <3> QED BY <2>3, <3>5, <3>6 DEF Good
  <2> QED BY <2>4, <2>5
<1> QED BY <1>7, <1>8, <1>10, <1>12, <1>13, <1>14 DEF IInv

\* An abort of the request of client c, which it, or somebody else, asks for.
LEMMA AbortedState ==
    ASSUME IInv, NEW c \in Clients, NEW t \in Values,
           t.tracker = tracker, t.closed = closed, \A d \in Clients \ {c} : t.queue[d] = queue[d],
           Become(AbortRequest(t, IdOf[c]))
    PROVE  /\ State' \in Values
           /\ New' = New /\ Streams' = Streams /\ \A d : Known(d)' <=> Known(d)
           /\ tracker'.finished = tracker.finished \cup {IdOf[c]}
           /\ \A d \in Clients \ Streams : /\ closed'[d] <=> closed[d]
                                           /\ queue'[d] = IF client'[d] = "streaming"
                                                          THEN t.queue[d] ELSE <<>>
           /\ \A d \in Alone \ {c} : /\ closed'[d] <=> closed[d]
                                     /\ client'[d] = "streaming" => queue'[d] = queue[d]
                                     /\ IdOf[d] # IdOf[c]
           /\ c \in Alone =>
                /\ closed'[c] <=> closed[c] \/ Known(c)
                /\ client'[c] = "streaming" =>
                     queue'[c] = IF Known(c) /\ ~closed[c] THEN Append(t.queue[c], Stop)
                                                           ELSE t.queue[c]
<1>1. IdOf[c] \in Ids
  BY IdsAre
<1>2. PICK u : u = AbortRequest(t, IdOf[c])
  OBVIOUS
<1>3. /\ u \in Values /\ u.tracker = Ended(tracker, IdOf[c])
      /\ \A d \in Clients : LET open == Registered(t, IdOf[c]) /\ StreamOf(t, IdOf[c]) = d
                            IN  /\ u.queue[d] = IF open /\ ~closed[d] THEN Append(t.queue[d], Stop)
                                                                      ELSE t.queue[d]
                                /\ u.closed[d] <=> closed[d] \/ open
  BY <1>1, <1>2, AbortEffect
<1>4. /\ State' \in Values /\ tracker' = u.tracker /\ closed' = u.closed
      /\ \A d \in Clients : queue'[d] = IF client'[d] = "streaming" THEN u.queue[d] ELSE <<>>
  BY <1>2, <1>3, BecomeEffect
<1>5. /\ tracker'.streams = tracker.streams /\ tracker'.new = tracker.new
      /\ tracker'.finished = tracker.finished \cup {IdOf[c]}
  BY <1>3, <1>4 DEF Ended, Values, Trackers
<1>6. New' = New /\ Streams' = Streams /\ \A d : Known(d)' <=> Known(d)
  BY <1>5, TrackerStays
<1>7. ASSUME NEW d \in Clients \ Streams
      PROVE  /\ closed'[d] <=> closed[d]
             /\ queue'[d] = IF client'[d] = "streaming" THEN t.queue[d] ELSE <<>>
  <2>1. ~(Registered(t, IdOf[c]) /\ StreamOf(t, IdOf[c]) = d)
    BY DEF Registered, StreamOf, Streams, Range
  <2> QED BY <1>3, <1>4, <2>1
<1>8. ASSUME NEW d \in Alone \ {c}
      PROVE  /\ closed'[d] <=> closed[d]
             /\ client'[d] = "streaming" => queue'[d] = queue[d]
             /\ IdOf[d] # IdOf[c]
  <2>1. d \in Clients \ {c} /\ IdOf[d] # IdOf[c]
    BY DEF Alone
  <2>2. ~(Registered(t, IdOf[c]) /\ StreamOf(t, IdOf[c]) = d)
    BY <2>1, AloneStream
  <2> QED BY <1>3, <1>4, <2>1, <2>2
<1>9. ASSUME c \in Alone
      PROVE  /\ closed'[c] <=> closed[c] \/ Known(c)
             /\ client'[c] = "streaming" =>
                  queue'[c] = IF Known(c) /\ ~closed[c] THEN Append(t.queue[c], Stop)
                                                        ELSE t.queue[c]
  <2>1. (Registered(t, IdOf[c]) /\ StreamOf(t, IdOf[c]) = c) <=> Known(c)
    <3>1. Registered(t, IdOf[c]) <=> Known(c)
      BY DEF Registered, Known
    <3> QED BY <1>9, <3>1, AloneStream
  <2> QED BY <1>3, <1>4, <2>1
<1> QED BY <1>4, <1>5, <1>6, <1>7, <1>8, <1>9

\* Aborting one request, by its client or after it, keeps the invariant.
LEMMA AbortingInv ==
    ASSUME IInv, NEW c \in Clients, client[c] \in {"streaming", "left"}, NEW t \in Values,
           t.tracker = tracker, t.closed = closed, \A d \in Clients \ {c} : t.queue[d] = queue[d],
           Become(AbortRequest(t, IdOf[c])),
           client' \in [Clients -> ClientPlaces], asked' \in [Clients -> BOOLEAN],
           \A d \in Clients \ {c} : client'[d] = client[d] /\ asked'[d] = asked[d],
           \/ client'[c] \in {"failed", "gone"}
           \/ client'[c] = client[c] /\ asked'[c] /\ t.queue[c] = queue[c],
           UNCHANGED <<got, whole, engineVars, loopVars>>
    PROVE  IInv'
<1>1. /\ UNCHANGED <<got, whole, groups, made, scheduled>>
      /\ UNCHANGED <<loop, progress, callback, errored, loops>>
  BY DEF engineVars, loopVars
<1>2. /\ State' \in Values
      /\ New' = New /\ Streams' = Streams /\ \A d : Known(d)' <=> Known(d)
      /\ tracker'.finished = tracker.finished \cup {IdOf[c]}
      /\ \A d \in Clients \ Streams : /\ closed'[d] <=> closed[d]
                                      /\ queue'[d] = IF client'[d] = "streaming"
                                                     THEN t.queue[d] ELSE <<>>
      /\ \A d \in Alone \ {c} : /\ closed'[d] <=> closed[d]
                                /\ client'[d] = "streaming" => queue'[d] = queue[d]
                                /\ IdOf[d] # IdOf[c]
      /\ c \in Alone =>
           /\ closed'[c] <=> closed[c] \/ Known(c)
           /\ client'[c] = "streaming" =>
                queue'[c] = IF Known(c) /\ ~closed[c] THEN Append(t.queue[c], Stop)
                                                      ELSE t.queue[c]
  BY AbortedState
<1>3. StateTypes'
  BY <1>1, <1>2 DEF IInv, StateTypes
<1>4. loops # 0 /\ Calm /\ LoopFacts'
  BY <1>1 DEF IInv, LoopFacts, Calm
<1>5. ASSUME NEW d \in Clients
      PROVE  Entry(d)'
  <2>1. Outside(d)' <=> Outside(d)
    BY DEF Outside
  <2>2. ASSUME Outside(d) \/ d \in New
        PROVE  Unread(d)'
    <3>1. Unread(d) /\ d \notin Streams
      BY <2>2 DEF IInv, Entry
    <3>2. closed'[d] <=> closed[d]
      BY <1>2, <3>1
    <3>3. queue'[d] = <<>>
      <4>1. CASE d = c
        BY <1>2, <3>1, <4>1 DEF Unread
      <4>2. CASE d # c
        BY <1>2, <3>1, <4>2 DEF Unread
      <4> QED BY <4>1, <4>2
    <3> QED BY <1>1, <3>1, <3>2, <3>3 DEF Unread
  <2> QED BY <1>1, <1>2, <2>1, <2>2 DEF IInv, Entry
<1>6. ASSUME NEW d \in Alone \ {c}
      PROVE  Good(d)'
  <2>1. d \in Clients \ {c} /\ Good(d)
    BY AloneIs DEF IInv
  <2>2. SameFor(d)
    BY <1>1, <1>2, <2>1 DEF SameFor
  <2> QED BY <1>4, <2>1, <2>2, GoodStays
<1>7. ASSUME c \in Alone
      PROVE  Good(c)'
  <2>1. Good(c) /\ IdOf[c] \in tracker'.finished /\ (closed'[c] <=> closed[c] \/ Known(c))
    BY <1>2, <1>7 DEF IInv
  <2>2. FinishedFacts(c)'
    BY <1>2, <2>1 DEF Good, FinishedFacts, Outside
  <2>3. EngineFacts(c)'
    BY <1>1, <1>2, <2>1 DEF Good, EngineFacts
  <2>4. StreamFacts(c)'
    <3>1. SUFFICES ASSUME client'[c] = "streaming" PROVE StreamFacts(c)'
      BY DEF StreamFacts
    <3>2. asked'[c] /\ t.queue[c] = queue[c] /\ client[c] = "streaming"
      BY <3>1
    <3>3. QueueForm(queue[c], got[c], closed[c], whole[c], asked[c])
      BY <2>1, <3>2 DEF Good, StreamFacts
    <3>4. CASE Known(c) /\ ~closed[c]
      <4>1. queue'[c] = Append(queue[c], Stop) /\ closed'[c]
        BY <1>2, <1>7, <3>1, <3>2, <3>4
      <4>2. ~whole[c]
        BY <3>3, <3>4 DEF QueueForm
      <4>3. QueueForm(queue[c], got[c], FALSE, FALSE, asked[c])
        BY <3>3, <3>4, <4>2 DEF QueueForm
      <4>4. queue[c] \in Seq(Items) /\ got[c] \in Nat
        BY StateTyped DEF IInv, StateTypes
      <4>5. QueueForm(Append(queue[c], Stop), got[c], TRUE, FALSE, TRUE)
        BY <4>3, <4>4, QueueStopped
      <4>6. /\ queue'[c] = Append(queue[c], Stop) /\ got'[c] = got[c]
            /\ closed'[c] = TRUE /\ whole'[c] = FALSE /\ asked'[c] = TRUE
        <5>1. whole[c] \in BOOLEAN /\ closed'[c] \in BOOLEAN /\ asked'[c] \in BOOLEAN
          BY <1>3 DEF IInv, StateTypes, State, Values
        <5> QED BY <1>1, <3>2, <4>1, <4>2, <5>1
      <4>7. QueueForm(queue'[c], got'[c], closed'[c], whole'[c], asked'[c])
        BY <4>5, <4>6
      <4> QED BY <4>1, <4>7 DEF StreamFacts
    <3>5. CASE ~(Known(c) /\ ~closed[c])
      <4>1. queue'[c] = queue[c] /\ (closed'[c] <=> closed[c])
        BY <1>2, <1>7, <3>1, <3>2, <3>5
      <4>2. QueueForm(queue'[c], got'[c], closed'[c], whole'[c], asked'[c])
        BY <1>1, <3>2, <3>3, <4>1 DEF QueueForm
      <4> QED BY <1>1, <1>2, <2>1, <4>1, <4>2 DEF Good, StreamFacts
    <3> QED BY <3>4, <3>5
  <2> QED BY <2>2, <2>3, <2>4 DEF Good
<1> QED BY <1>3, <1>4, <1>5, <1>6, <1>7 DEF IInv

\* Reading an exception keeps the invariant.
LEMMA ReceiveExceptionInv ==
    ASSUME IInv, NEW c \in Clients, ReceiveException(c)
    PROVE  IInv'
<1>1. PICK t : t = [State EXCEPT !.queue[c] = Tail(@)]
  OBVIOUS
<1>2. /\ queue \in [Clients -> Seq(Items)] /\ queue[c] # <<>> /\ State \in Values
      /\ client[c] = "streaming" /\ client' = [client EXCEPT ![c] = "failed"]
      /\ Become(AbortRequest(t, IdOf[c]))
      /\ UNCHANGED <<got, whole, asked, engineVars, loopVars>>
  BY <1>1, StateTyped DEF ReceiveException, IInv, StateTypes
<1>3. Tail(queue[c]) \in Seq(Items)
  <2>1. queue[c] \in Seq(Items) /\ queue[c] # <<>>
    BY <1>2
  <2> QED BY <2>1
<1>4. t = [State EXCEPT !.queue = [queue EXCEPT ![c] = Tail(queue[c])]]
  BY <1>1, StateIs
<1>5. [queue EXCEPT ![c] = Tail(queue[c])] \in [Clients -> Seq(Items)]
  BY <1>2, <1>3
<1>6. t \in Values /\ t.tracker = tracker /\ t.closed = closed
      /\ \A d \in Clients \ {c} : t.queue[d] = queue[d]
  BY <1>2, <1>4, <1>5 DEF Values, State
<1>7. /\ client' \in [Clients -> ClientPlaces] /\ asked' \in [Clients -> BOOLEAN]
      /\ \A d \in Clients \ {c} : client'[d] = client[d] /\ asked'[d] = asked[d]
      /\ client'[c] = "failed"
  BY <1>2 DEF IInv, StateTypes, ClientPlaces
<1> QED BY <1>2, <1>6, <1>7, AbortingInv

\* abort() keeps the invariant.
LEMMA AbortInv ==
    ASSUME IInv, NEW c \in Clients, Abort(c)
    PROVE  IInv'
<1>1. /\ client[c] \in {"streaming", "left"} /\ asked' = [asked EXCEPT ![c] = TRUE]
      /\ Become(AbortRequest(State, IdOf[c]))
      /\ UNCHANGED <<client, got, whole, engineVars, loopVars>>
  BY DEF Abort
<1>2. State \in Values /\ State.tracker = tracker /\ State.closed = closed /\ State.queue = queue
  BY StateIs DEF IInv, StateTypes
<1>3. /\ client' \in [Clients -> ClientPlaces] /\ asked' \in [Clients -> BOOLEAN]
      /\ \A d \in Clients \ {c} : client'[d] = client[d] /\ asked'[d] = asked[d]
      /\ client'[c] = client[c] /\ asked'[c]
  BY <1>1 DEF IInv, StateTypes
<1> QED BY <1>1, <1>2, <1>3, AbortingInv

\* A client that leaves between two outputs keeps the invariant: nothing but its place
\* and its unread stream change.
LEMMA LeaveInv ==
    ASSUME IInv, NEW c \in Clients, Leave(c)
    PROVE  IInv'
<1>1. /\ client[c] = "streaming" /\ client' = [client EXCEPT ![c] = "left"] /\ Become(State)
      /\ got[c] > 0
      /\ UNCHANGED <<got, whole, asked, groups, made, scheduled>>
      /\ UNCHANGED <<loop, progress, callback, errored, loops>>
  BY DEF Leave, engineVars, loopVars
<1>2. /\ client' \in [Clients -> ClientPlaces] /\ client'[c] = "left"
      /\ \A d \in Clients \ {c} : client'[d] = client[d]
  BY <1>1 DEF IInv, StateTypes, ClientPlaces
<1>3. State \in Values
  BY DEF IInv, StateTypes
<1>4. /\ State' \in Values /\ tracker' = tracker /\ closed' = closed
      /\ \A d \in Clients : queue'[d] = IF client'[d] = "streaming" THEN queue[d] ELSE <<>>
  BY <1>1, <1>3, BecomeEffect, StateIs
<1>5. New' = New /\ Streams' = Streams /\ \A d : Known(d)' <=> Known(d)
  BY <1>4, TrackerStays
<1>6. StateTypes'
  BY <1>1, <1>2, <1>4 DEF IInv, StateTypes
<1>7. Calm /\ LoopFacts'
  BY <1>1 DEF IInv, LoopFacts, Calm
<1>8. ASSUME NEW d \in Clients
      PROVE  Entry(d)'
  <2>1. Outside(d)' <=> Outside(d)
    BY <1>1, <1>2 DEF Outside
  <2>2. Unread(d) => Unread(d)'
    BY <1>1, <1>4 DEF Unread
  <2> QED BY <1>1, <1>5, <2>1, <2>2 DEF IInv, Entry
<1>9. ASSUME NEW d \in Alone \ {c}
      PROVE  Good(d)'
  <2>1. d \in Clients \ {c} /\ Good(d)
    BY AloneIs DEF IInv
  <2>2. SameFor(d)
    BY <1>1, <1>2, <1>4, <1>5, <2>1 DEF SameFor
  <2> QED BY <1>7, <2>1, <2>2, GoodStays
<1>10. ASSUME c \in Alone
       PROVE  Good(c)'
  <2>1. Good(c)
    BY <1>10 DEF IInv
  <2>2. FinishedFacts(c)'
    <3>1. c \notin New
      BY <1>1 DEF IInv, Entry, Unread
    <3> QED BY <1>1, <1>2, <1>4, <1>5, <2>1, <3>1 DEF Good, FinishedFacts, Outside
  <2>3. EngineFacts(c)'
    BY <1>1, <1>4, <1>5, <2>1 DEF Good, EngineFacts
  <2> QED BY <1>2, <2>2, <2>3 DEF Good, StreamFacts
<1> QED BY <1>6, <1>7, <1>8, <1>9, <1>10 DEF IInv

\* A client that goes away keeps the invariant.
LEMMA CancelInv ==
    ASSUME IInv, NEW c \in Clients, Cancel(c)
    PROVE  IInv'
<1>1. /\ client[c] \in {"encoding", "streaming"} /\ client' = [client EXCEPT ![c] = "gone"]
      /\ UNCHANGED <<got, whole, asked, engineVars, loopVars>>
  BY DEF Cancel
<1>2. State \in Values /\ State.tracker = tracker /\ State.closed = closed /\ State.queue = queue
  BY StateIs DEF IInv, StateTypes
<1>3. /\ client' \in [Clients -> ClientPlaces] /\ asked' \in [Clients -> BOOLEAN]
      /\ \A d \in Clients \ {c} : client'[d] = client[d] /\ asked'[d] = asked[d]
      /\ client'[c] = "gone"
  BY <1>1 DEF IInv, StateTypes, ClientPlaces
<1>4. CASE client[c] = "streaming"
  <2>1. Become(AbortRequest(State, IdOf[c]))
    BY <1>4 DEF Cancel
  <2> QED BY <1>1, <1>2, <1>3, <1>4, <2>1, AbortingInv
<1>5. CASE client[c] # "streaming"
  <2>1. UNCHANGED <<queue, closed, tracker>> /\ client[c] = "encoding"
    BY <1>1, <1>5 DEF Cancel
  <2>2. /\ UNCHANGED <<groups, made, scheduled>>
        /\ UNCHANGED <<loop, progress, callback, errored, loops>>
    BY <1>1 DEF engineVars, loopVars
  <2>3. New' = New /\ Streams' = Streams /\ \A d : Known(d)' <=> Known(d)
    BY <2>1, TrackerStays
  <2>4. StateTypes'
    BY <1>1, <1>2, <1>3, <2>1, <2>2, StateTyped, StateTypedNext DEF IInv, StateTypes
  <2>5. Calm /\ LoopFacts'
    BY <2>1, <2>2 DEF IInv, LoopFacts, Calm
  <2>6. ASSUME NEW d \in Clients
        PROVE  Entry(d)'
    <3>1. Outside(d)' => Outside(d)
      BY <1>3 DEF Outside
    <3> QED BY <1>1, <2>1, <2>2, <2>3, <3>1 DEF IInv, Entry, Unread
  <2>7. ASSUME NEW d \in Alone \ {c}
        PROVE  Good(d)'
    <3>1. d \in Clients \ {c} /\ Good(d)
      BY AloneIs DEF IInv
    <3>2. SameFor(d)
      BY <1>1, <1>3, <2>1, <2>2, <2>3, <3>1 DEF SameFor
    <3> QED BY <2>5, <3>1, <3>2, GoodStays
  <2>8. ASSUME c \in Alone
        PROVE  Good(c)'
    <3>1. Good(c) /\ Outside(c) /\ c \notin New /\ ~Known(c) /\ c \notin groups
      BY <1>2, <2>1, <2>8, AloneKnown DEF IInv, Entry, Outside
    <3> QED BY <1>1, <1>3, <2>1, <2>2, <2>3, <3>1
            DEF Good, FinishedFacts, StreamFacts, EngineFacts
  <2> QED BY <2>4, <2>5, <2>6, <2>7, <2>8 DEF IInv
<1> QED BY <1>4, <1>5

-----------------------------------------------------------------------------
(* The steps of the background loop keep it. *)

\* A turn of the loop that touches no client.
LEMMA LoopTurnInv ==
    ASSUME IInv, UNCHANGED <<clientVars, queue, closed, groups, made, loops, errored>>,
           loop \in {"turn", "blocked", "executing"},
           /\ loop' \in {"ready", "blocked"}
           /\ UNCHANGED <<progress, callback, scheduled>> /\ loop # "executing"
           \/ /\ loop' = "ended" /\ callback' = TRUE /\ scheduled' = {}
              /\ UNCHANGED progress,
           tracker' \in {tracker, [tracker EXCEPT !.event = FALSE]}
    PROVE  IInv'
<1>1. UNCHANGED <<client, got, whole, asked>>
  BY DEF clientVars
<1>2. State \in Values /\ tracker \in Trackers
  BY StateTyped DEF IInv, StateTypes
<1>3. /\ tracker' \in Trackers /\ tracker'.streams = tracker.streams
      /\ tracker'.new = tracker.new /\ tracker'.finished = tracker.finished
  BY <1>2 DEF Trackers
<1>4. /\ New' = New /\ Streams' = Streams /\ \A d : Known(d)' <=> Known(d)
  BY <1>3, TrackerStays
<1>5. StateTypes'
  <2>1. State' \in Values
    BY <1>2, <1>3, StateTyped, StateTypedNext
  <2>2. scheduled' \subseteq groups' /\ loop' \in LoopPlaces /\ callback' \in BOOLEAN
    BY DEF IInv, StateTypes, LoopPlaces
  <2> QED BY <1>1, <2>1, <2>2 DEF IInv, StateTypes
<1>6. LoopFacts'
  BY <1>1 DEF IInv, LoopFacts
<1>7. ASSUME NEW d \in Clients
      PROVE  Entry(d)'
  BY <1>1, <1>4 DEF IInv, Entry, Unread, Outside
<1>8. ASSUME NEW d \in Alone
      PROVE  Good(d)'
  <2>1. d \in Clients /\ Good(d)
    BY AloneIs DEF IInv
  <2>2. SameFor(d)
    BY <1>1, <1>3, <1>4, <2>1 DEF SameFor
  <2>3. Calm
    BY DEF Calm
  <2> QED BY <2>1, <2>2, <2>3, GoodStays
<1> QED BY <1>5, <1>6, <1>7, <1>8 DEF IInv

\* The loop's next turn keeps the invariant.
LEMMA NextTurnInv == ASSUME IInv, NextTurn PROVE IInv'
<1>1. /\ UNCHANGED <<clientVars, queue, closed, groups, made, loops, errored>>
      /\ UNCHANGED <<progress, callback, scheduled>>
      /\ loop = "turn" /\ loop' \in {"ready", "blocked"}
      /\ tracker' \in {tracker, [tracker EXCEPT !.event = FALSE]}
  BY DEF NextTurn, engineVars
<1> QED BY <1>1, LoopTurnInv

\* Waking the loop keeps the invariant.
LEMMA WakeInv == ASSUME IInv, Wake PROVE IInv'
<1>1. /\ UNCHANGED <<clientVars, queue, closed, groups, made, loops, errored>>
      /\ UNCHANGED <<progress, callback, scheduled>>
      /\ loop = "blocked" /\ loop' = "ready"
      /\ tracker' \in {tracker, [tracker EXCEPT !.event = FALSE]}
  BY DEF Wake, engineVars
<1> QED BY <1>1, LoopTurnInv

\* A step that fails keeps the invariant.
LEMMA StepFailsInv == ASSUME IInv, NEW why, StepFails(why) PROVE IInv'
<1>1. /\ UNCHANGED <<client, got, whole, asked, queue, closed, tracker, groups, made, progress>>
      /\ UNCHANGED loops
      /\ loop = "executing" /\ loop' = "ended" /\ callback' = TRUE /\ scheduled' = {}
      /\ errored' = (errored \/ why = "timeout")
  BY DEF StepFails, clientVars
<1>2. State \in Values /\ loops # 0
  BY <1>1 DEF IInv, StateTypes, LoopFacts
<1>3. /\ New' = New /\ Streams' = Streams /\ \A d : Known(d)' <=> Known(d)
  BY <1>1, TrackerStays
<1>4. StateTypes'
  <2>1. State' \in Values
    BY <1>1, <1>2, StateTyped, StateTypedNext
  <2>2. scheduled' \subseteq groups' /\ loop' \in LoopPlaces /\ callback' \in BOOLEAN
    BY <1>1 DEF LoopPlaces
  <2>3. errored' \in BOOLEAN
    BY <1>1
  <2> QED BY <1>1, <2>1, <2>2, <2>3 DEF IInv, StateTypes
<1>5. LoopFacts'
  BY <1>1, <1>2 DEF IInv, LoopFacts
<1>6. ASSUME NEW d \in Clients
      PROVE  Entry(d)'
  BY <1>1, <1>3 DEF IInv, Entry, Unread, Outside
<1>7. ASSUME NEW d \in Alone
      PROVE  Good(d)'
  <2>1. d \in Clients /\ Good(d)
    BY AloneIs DEF IInv
  <2>2. SameFor(d)
    BY <1>1, <1>3, <2>1 DEF SameFor
  <2>3. Calm
    BY <1>1 DEF Calm
  <2> QED BY <2>1, <2>2, <2>3, GoodStays
<1> QED BY <1>4, <1>5, <1>6, <1>7 DEF IInv

\* The callback of the background task keeps the invariant.
LEMMA ErrorCallbackInv == ASSUME IInv, ErrorCallback PROVE IInv'
<1>1. /\ UNCHANGED <<client, got, whole, asked, groups, made, scheduled, loop, progress, loops>>
      /\ callback = TRUE /\ callback' = FALSE /\ errored' = TRUE
      /\ Become(PropagateException(State))
  BY DEF ErrorCallback, clientVars, engineVars, IInv, StateTypes
<1>2. State \in Values /\ tracker \in Trackers /\ tracker.streams \in StreamMaps /\ loops # 0
  BY <1>1, StateTyped DEF IInv, StateTypes, LoopFacts, Trackers
<1>3. PICK items : items = [c \in Clients |-> Exception]
  OBVIOUS
<1>4. PICK u : u = ProcessOutputs(State, Streams, items)
  OBVIOUS
<1>5. Become(u)
  BY <1>1, <1>3, <1>4, StateIs DEF PropagateException, Streams
<1>6. Streams \in SUBSET Clients
  BY <1>2, StreamMapsAre DEF Streams, Range
<1>7. \A c \in Streams : items[c] \in Items /\ Registered(State, IdOf[c])
  <2>1. \A c \in Streams : Registered(State, IdOf[c])
    BY <1>2, StreamMapsAre, StateIs DEF Streams, Range
  <2> QED BY <1>3, <1>6, <2>1, ItemsAre
<1>8. u \in Values /\ Tells(State, u, Streams, items)
  BY <1>2, <1>4, <1>6, <1>7, OutputsTell
<1>9. /\ State' \in Values /\ tracker' = u.tracker /\ closed' = u.closed
      /\ \A c \in Clients : queue'[c] = IF client'[c] = "streaming" THEN u.queue[c] ELSE <<>>
  BY <1>5, <1>8, BecomeEffect
<1>10. \A c \in Clients : items[c] = Exception /\ items[c].kind = "exception"
  BY <1>3, ItemsAre
<1>11. /\ tracker'.streams = tracker.streams /\ tracker'.new = tracker.new
       /\ tracker'.finished = tracker.finished \cup EndedIn(Streams, items)
  BY <1>2, <1>8, <1>9, StateIs DEF Tells, Trackers
<1>12. /\ New' = New /\ Streams' = Streams /\ \A d : Known(d)' <=> Known(d)
  BY <1>11, TrackerStays
<1>13. ASSUME NEW d \in Clients \ Streams
       PROVE  /\ closed'[d] <=> closed[d]
              /\ queue'[d] = IF client[d] = "streaming" THEN queue[d] ELSE <<>>
  <2>1. \A c \in Streams : StreamOf(State, IdOf[c]) # d
    BY <1>7, StateIs DEF Streams, Range
  <2> QED BY <1>1, <1>8, <1>9, <2>1, StateIs DEF Tells
<1>14. StateTypes'
  BY <1>1, <1>9 DEF IInv, StateTypes
<1>15. LoopFacts'
  BY <1>1, <1>2 DEF IInv, LoopFacts
<1>16. ASSUME NEW d \in Clients
       PROVE  Entry(d)'
  <2>1. Outside(d)' <=> Outside(d)
    BY <1>1 DEF Outside
  <2>2. ASSUME Outside(d) \/ d \in New
        PROVE  Unread(d)'
    <3>1. Unread(d) /\ d \notin Streams
      BY <2>2 DEF IInv, Entry
    <3> QED BY <1>1, <1>13, <3>1 DEF Unread
  <2> QED BY <1>1, <1>12, <2>1, <2>2 DEF IInv, Entry
<1>17. ASSUME NEW d \in Alone
       PROVE  Good(d)'
  <2>1. /\ d \in Clients /\ Good(d) /\ (Known(d) <=> d \in Streams)
        /\ queue[d] \in Seq(Items) /\ got[d] \in Nat
    BY <1>2, AloneIs, AloneKnown, StateTyped DEF IInv, StateTypes
  <2>2. IdOf[d] \in EndedIn(Streams, items) <=> Known(d)
    <3>1. Known(d) => IdOf[d] \in EndedIn(Streams, items)
      BY <1>10, <2>1 DEF EndedIn
    <3>2. ASSUME IdOf[d] \in EndedIn(Streams, items)
          PROVE  Known(d)
      <4>1. PICK c \in Streams : IdOf[c] = IdOf[d]
        BY <3>2 DEF EndedIn
      <4> QED BY <1>7, <4>1, StateIs DEF Known
    <3> QED BY <3>1, <3>2
  <2>3. CASE ~Known(d)
    <3>1. SameFor(d)
      BY <1>1, <1>11, <1>12, <1>13, <2>1, <2>2, <2>3 DEF SameFor
    <3>2. FinishedFacts(d)' /\ StreamFacts(d)'
      <4>1. FinishedFacts(d)'
        BY <2>1, <3>1 DEF SameFor, Good, FinishedFacts, Outside
      <4>2. ASSUME client[d] = "streaming"
            PROVE  QueueForm(queue'[d], got'[d], closed'[d], whole'[d], asked'[d])
        <5>1. QueueForm(queue[d], got[d], closed[d], whole[d], asked[d])
          BY <2>1, <4>2 DEF Good, StreamFacts
        <5> QED BY <3>1, <4>2, <5>1 DEF SameFor, QueueForm
      <4>3. StreamFacts(d)'
        BY <1>1, <2>1, <3>1, <4>2 DEF SameFor, Good, StreamFacts
      <4> QED BY <4>1, <4>3
    <3>3. EngineFacts(d)'
      BY <1>1, <1>12, <2>1, <2>3 DEF Good, EngineFacts
    <3> QED BY <3>2, <3>3 DEF Good
  <2>4. CASE Known(d)
    <3>1. /\ closed'[d]
          /\ client[d] = "streaming" =>
               queue'[d] = IF closed[d] THEN queue[d] ELSE Told(queue[d], Exception)
      BY <1>1, <1>8, <1>9, <1>10, <2>1, <2>4, StateIs DEF Tells
    <3>2. IdOf[d] \in tracker'.finished
      BY <1>11, <2>2, <2>4
    <3>3. d \notin New /\ ~Outside(d)
      BY <2>1, <2>4 DEF IInv, Entry
    <3>4. FinishedFacts(d)'
      BY <1>1, <1>12, <3>1, <3>2, <3>3 DEF FinishedFacts, Outside
    <3>5. EngineFacts(d)'
      BY <1>12, <2>4, <3>1 DEF EngineFacts
    <3>6. ASSUME client[d] = "streaming"
          PROVE  QueueForm(queue'[d], got'[d], closed'[d], whole'[d], asked'[d])
      <4>1. QueueForm(queue[d], got[d], closed[d], whole[d], asked[d])
        BY <2>1, <3>6 DEF Good, StreamFacts
      <4>2. CASE closed[d]
        BY <1>1, <3>1, <3>6, <4>1, <4>2 DEF QueueForm
      <4>3. CASE ~closed[d]
        <5>1. ~whole[d] /\ QueueForm(queue[d], got[d], FALSE, FALSE, asked[d])
          BY <4>1, <4>3 DEF QueueForm
        <5>2. Follows(Exception, got[d] + Len(queue[d]) + 1) /\ Exception \in Items
          BY ItemsAre DEF Follows
        <5>3. QueueForm(Told(queue[d], Exception), got[d], Exception.kind # "output", FALSE, asked[d])
          BY <2>1, <5>1, <5>2, QueueTold
        <5> QED BY <1>1, <3>1, <3>6, <4>3, <5>1, <5>3, ItemsAre DEF QueueForm
      <4> QED BY <4>2, <4>3
    <3>7. StreamFacts(d)'
      BY <1>1, <3>1, <3>6 DEF StreamFacts
    <3> QED BY <3>4, <3>5, <3>7 DEF Good
  <2> QED BY <2>3, <2>4
<1> QED BY <1>14, <1>15, <1>16, <1>17 DEF IInv

\* engine_step up to the execution: what it does to the tracker and the engine.
LEMMA StepBeginEffect ==
    ASSUME IInv, StepBegin
    PROVE  \E invalid \in SUBSET Admitted(State) :
             /\ Become(ProcessOutputs(Drain(State), invalid, [c \in Clients |-> Exception]))
             /\ groups' \subseteq groups \cup (Admitted(State) \ invalid)
             /\ \A d \in Alone \cap groups' : d \in groups => IdOf[d] \notin tracker.finished
<1>1. PICK invalid \in SUBSET Admitted(State) :
        /\ Become(ProcessOutputs(Drain(State), invalid, [c \in Clients |-> Exception]))
        /\ LET held == groups \cup (Admitted(State) \ invalid)
               There(id) == {c \in held : IdOf[c] = id}
               some == {id \in tracker.finished : There(id) # {}}
           IN  \E victim \in [some -> held] :
                 /\ \A id \in some : victim[id] \in There(id)
                 /\ groups' = held \ Range(victim)
  BY DEF StepBegin
<1> DEFINE held == groups \cup (Admitted(State) \ invalid)
           There(id) == {c \in held : IdOf[c] = id}
           some == {id \in tracker.finished : There(id) # {}}
<1>2. PICK victim \in [some -> held] : /\ \A id \in some : victim[id] \in There(id)
                                       /\ groups' = held \ Range(victim)
  BY <1>1
<1>3. ASSUME NEW d \in Alone \cap groups', d \in groups, IdOf[d] \in tracker.finished
      PROVE  FALSE
  <2>1. d \in There(IdOf[d])
    BY <1>3
  <2>2. IdOf[d] \in some
    BY <1>3, <2>1
  <2>3. victim[IdOf[d]] \in held /\ IdOf[victim[IdOf[d]]] = IdOf[d]
    BY <1>2, <2>2
  <2>4. held \subseteq Clients
    <3>1. State \in Values /\ groups \subseteq Clients
      BY DEF IInv, StateTypes
    <3> QED BY <3>1, AdmittedAre
  <2>5. victim[IdOf[d]] = d
    BY <2>3, <2>4 DEF Alone
  <2>6. d \in Range(victim)
    BY <2>2, <2>5 DEF Range
  <2> QED BY <1>2, <1>3, <2>6
<1>4. groups' \subseteq held
  BY <1>2
<1> QED BY <1>1, <1>3, <1>4

\* The first half of engine_step keeps the invariant.
LEMMA StepBeginInv == ASSUME IInv, StepBegin PROVE IInv'
<1>1. /\ UNCHANGED <<client, got, whole, asked, made, progress, callback, errored, loops>>
      /\ loop = "ready" /\ loop' = "executing"
  BY DEF StepBegin, clientVars
<1>2. scheduled' \subseteq groups'
  BY DEF StepBegin
<1>3. PICK invalid \in SUBSET Admitted(State) :
        /\ Become(ProcessOutputs(Drain(State), invalid, [c \in Clients |-> Exception]))
        /\ groups' \subseteq groups \cup (Admitted(State) \ invalid)
        /\ \A d \in Alone \cap groups' : d \in groups => IdOf[d] \notin tracker.finished
  BY StepBeginEffect
<1>4. State \in Values /\ loops # 0
  BY <1>1 DEF IInv, StateTypes, LoopFacts
<1>5. PICK A : A = Admitted(State)
  OBVIOUS
<1>6. A = {c \in New : IdOf[c] \notin tracker.finished} /\ New \subseteq Clients
  BY <1>4, <1>5, AdmittedAre, StateIs DEF New
<1>7. PICK t : t = Drain(State)
  OBVIOUS
<1>8. /\ t \in Values /\ t.tracker.new = <<>> /\ t.tracker.finished = {}
      /\ DOMAIN t.tracker.streams =
           (DOMAIN tracker.streams \ tracker.finished) \cup {IdOf[c] : c \in A}
      /\ Range(t.tracker.streams) \subseteq Streams \cup New
      /\ \A c \in Clients : LET rejected == c \in New /\ IdOf[c] \in tracker.finished
                            IN  /\ t.queue[c] = IF rejected THEN Append(queue[c], Stop) ELSE queue[c]
                                /\ t.closed[c] <=> closed[c] \/ rejected
  BY <1>4, <1>5, <1>7, DrainEffect, StateIs DEF New, Streams
<1>9. PICK items : items = [c \in Clients |-> Exception]
  OBVIOUS
<1>10. \A c \in Clients : items[c] = Exception /\ items[c].kind = "exception"
  BY <1>9, ItemsAre
<1>11. PICK u : u = ProcessOutputs(t, invalid, items)
  OBVIOUS
<1>12. invalid \subseteq A /\ A \subseteq New /\ invalid \in SUBSET Clients
  BY <1>5, <1>6
<1>13. \A c \in invalid : items[c] \in Items /\ Registered(t, IdOf[c])
  BY <1>8, <1>10, <1>12, ItemsAre DEF Registered
<1>14. u \in Values /\ Tells(t, u, invalid, items)
  BY <1>8, <1>11, <1>12, <1>13, OutputsTell
<1>15. /\ State' \in Values /\ tracker' = u.tracker /\ closed' = u.closed
       /\ \A c \in Clients : queue'[c] = IF client'[c] = "streaming" THEN u.queue[c] ELSE <<>>
  BY <1>3, <1>7, <1>9, <1>11, <1>14, BecomeEffect
<1>16. /\ tracker'.streams = t.tracker.streams /\ tracker'.new = <<>>
       /\ tracker'.finished = EndedIn(invalid, items)
  BY <1>8, <1>14, <1>15 DEF Tells, Values, Trackers
<1>17. New' = {} /\ Streams' \subseteq Streams \cup New
  BY <1>8, <1>16 DEF New, Streams, ToSet
<1>18. groups' \subseteq groups \cup (A \ invalid)
  BY <1>3, <1>5
<1>19. StateTypes'
  <2>1. groups' \subseteq Clients
    BY <1>6, <1>18 DEF IInv, StateTypes
  <2> QED BY <1>1, <1>2, <1>15, <2>1 DEF IInv, StateTypes, LoopPlaces
<1>20. LoopFacts'
  BY <1>1, <1>4 DEF IInv, LoopFacts
<1>21. ASSUME NEW d \in Clients
       PROVE  Entry(d)'
  <2>1. Outside(d)' <=> Outside(d)
    BY <1>1 DEF Outside
  <2>2. ASSUME Outside(d)
        PROVE  Unread(d)' /\ d \notin Streams' \cup groups'
    <3>1. Unread(d) /\ d \notin Streams \cup New \cup groups
      BY <2>2 DEF IInv, Entry
    <3>2. \A c \in invalid : StreamOf(t, IdOf[c]) # d
      BY <1>8, <1>13, <3>1 DEF Registered, StreamOf, Range
    <3>3. u.queue[d] = queue[d] /\ (u.closed[d] <=> closed[d])
      BY <1>8, <1>14, <3>1, <3>2 DEF Tells
    <3> QED BY <1>1, <1>12, <1>15, <1>17, <1>18, <3>1, <3>3 DEF Unread
  <2>3. d \in groups' => made'[d] < MaxOutputs
    <3>1. d \in New => made[d] = 0 /\ 0 < MaxOutputs
      BY AsyncAssumption DEF IInv, Entry, Unread
    <3> QED BY <1>1, <1>12, <1>18, <3>1 DEF IInv, Entry
  <2> QED BY <1>17, <2>1, <2>2, <2>3 DEF Entry
<1>22. ASSUME NEW d \in Alone
       PROVE  Good(d)'
  <2>1. /\ d \in Clients /\ Good(d) /\ (Known(d) <=> d \in Streams)
        /\ queue[d] \in Seq(Items) /\ got[d] \in Nat
    BY <1>4, AloneIs, AloneKnown, StateTyped DEF IInv, StateTypes
  <2>2. \A c \in Clients : IdOf[c] = IdOf[d] => c = d
    BY DEF Alone
  <2>3. Known(d)' <=> (Known(d) /\ IdOf[d] \notin tracker.finished) \/ d \in A
    BY <1>6, <1>8, <1>12, <1>16, <2>1, <2>2 DEF Known
  <2>4. IdOf[d] \in tracker'.finished <=> d \in invalid
    BY <1>10, <1>12, <1>16, <2>1, <2>2 DEF EndedIn
  <2>5. d \in New => Unread(d) /\ ~Outside(d) /\ d \notin groups /\ ~Known(d)
    BY <2>1 DEF IInv, Entry
  <2>6. /\ d \in groups' => d \in A \ invalid \/ (d \in groups /\ IdOf[d] \notin tracker.finished)
    BY <1>3, <1>18
  <2>7. CASE d \in invalid
    <3>1. /\ d \in New /\ IdOf[d] \notin tracker.finished /\ Known(d)' /\ d \notin groups'
          /\ IdOf[d] \in tracker'.finished
      BY <1>6, <1>12, <2>3, <2>4, <2>5, <2>6, <2>7
    <3>2. t.queue[d] = <<>> /\ ~t.closed[d] /\ client[d] = "streaming" /\ ~whole[d] /\ got[d] = 0
      BY <1>8, <2>1, <2>5, <3>1 DEF Unread, Good, FinishedFacts
    <3>3. closed'[d] /\ queue'[d] = Told(<<>>, Exception)
      BY <1>1, <1>10, <1>14, <1>15, <2>1, <2>7, <3>2 DEF Tells
    <3>4. FinishedFacts(d)' /\ EngineFacts(d)'
      BY <1>1, <1>17, <2>5, <3>1, <3>2, <3>3 DEF FinishedFacts, EngineFacts, Outside
    <3>5. QueueForm(Told(<<>>, Exception), 0, Exception.kind # "output", FALSE, asked[d])
      <4>1. <<>> \in Seq(Items) /\ Follows(Exception, 0 + Len(<<>>) + 1) /\ Exception \in Items
        BY ItemsAre DEF Follows
      <4> QED BY <4>1, QueueOpens, QueueTold
    <3>6. StreamFacts(d)'
      <4>1. QueueForm(queue'[d], got'[d], closed'[d], whole'[d], asked'[d])
        BY <1>1, <3>2, <3>3, <3>5, ItemsAre DEF QueueForm
      <4> QED BY <3>3, <4>1 DEF StreamFacts
    <3> QED BY <3>4, <3>6 DEF Good
  <2>8. CASE d \notin invalid
    <3>1. /\ closed'[d] <=> t.closed[d]
          /\ queue'[d] = IF client[d] = "streaming" THEN t.queue[d] ELSE <<>>
      <4>1. \A c \in invalid : StreamOf(t, IdOf[c]) # d
        BY <1>8, <1>12, <1>13, <2>2, <2>8, AloneStream
      <4> QED BY <1>1, <1>14, <1>15, <2>1, <4>1 DEF Tells
    <3>2. IdOf[d] \notin tracker'.finished
      BY <2>4, <2>8
    <3>3. CASE d \in New /\ IdOf[d] \in tracker.finished
      <4>1. ~Known(d)' /\ d \notin groups'
        BY <1>6, <2>3, <2>5, <2>6, <3>3
      <4>2. FinishedFacts(d)' /\ EngineFacts(d)'
        BY <1>1, <1>17, <2>1, <2>5, <3>2, <3>3, <4>1 DEF Good, FinishedFacts, EngineFacts, Outside
      <4>3. StreamFacts(d)'
        <5>1. SUFFICES ASSUME client'[d] = "streaming" PROVE StreamFacts(d)'
          BY DEF StreamFacts
        <5>2. asked[d] /\ closed'[d] /\ queue'[d] = Append(<<>>, Stop)
          BY <1>1, <1>8, <2>1, <2>5, <3>1, <3>3, <5>1 DEF Good, FinishedFacts, Unread
        <5>3. QueueForm(Append(<<>>, Stop), 0, TRUE, FALSE, TRUE)
          <6>1. <<>> \in Seq(Items)
            OBVIOUS
          <6> QED BY <6>1, QueueOpens, QueueStopped
        <5>4. QueueForm(queue'[d], got'[d], closed'[d], whole'[d], asked'[d])
          BY <1>1, <2>5, <3>3, <5>2, <5>3 DEF QueueForm, Unread
        <5> QED BY <5>2, <5>4 DEF StreamFacts
      <4> QED BY <4>2, <4>3 DEF Good
    <3>4. CASE ~(d \in New /\ IdOf[d] \in tracker.finished)
      <4>1. /\ closed'[d] <=> closed[d]
            /\ client[d] = "streaming" => queue'[d] = queue[d]
        BY <1>8, <2>1, <3>1, <3>4
      <4>2. IdOf[d] \notin tracker.finished /\ (d \in New \/ Known(d)) <=> Known(d)'
        BY <1>6, <2>3, <3>4
      <4>3. FinishedFacts(d)'
        BY <1>1, <1>17, <2>1, <3>2, <4>1, <4>2 DEF Good, FinishedFacts, Outside
      <4>4. EngineFacts(d)'
        <5>1. loops = 1 => ~errored
          BY <1>1 DEF IInv, LoopFacts
        <5>2. loops = 1 /\ d \in groups' => Known(d)'
          BY <2>1, <2>3, <2>6 DEF Good, EngineFacts
        <5> QED BY <1>1, <5>1, <5>2 DEF EngineFacts
      <4>5. StreamFacts(d)'
        <5>1. SUFFICES ASSUME client[d] = "streaming" PROVE StreamFacts(d)'
          BY <1>1 DEF StreamFacts
        <5>2. QueueForm(queue'[d], got'[d], closed'[d], whole'[d], asked'[d])
          <6>1. QueueForm(queue[d], got[d], closed[d], whole[d], asked[d])
            BY <2>1, <5>1 DEF Good, StreamFacts
          <6> QED BY <1>1, <4>1, <5>1, <6>1 DEF QueueForm
        <5>3. ~closed[d] /\ (d \in New \/ Known(d)) => Known(d)'
          <6>1. IdOf[d] \in tracker.finished /\ Known(d) => closed[d]
            BY <2>1 DEF Good, FinishedFacts
          <6> QED BY <3>4, <4>2, <6>1
        <5>4. ~closed[d] /\ Known(d)' => got[d] + Len(queue[d]) = made[d]
          BY <1>1, <2>1, <4>2, <5>1 DEF Good, StreamFacts
        <5>5. ~closed[d] /\ loops = 1 => d \in New \/ Known(d)
          BY <2>1, <5>1 DEF Good, StreamFacts
        <5> QED BY <1>1, <1>17, <4>1, <5>1, <5>2, <5>3, <5>4, <5>5 DEF StreamFacts
      <4> QED BY <4>3, <4>4, <4>5 DEF Good
    <3> QED BY <3>3, <3>4
  <2> QED BY <2>7, <2>8
<1> QED BY <1>19, <1>20, <1>21, <1>22 DEF IInv

\* The second half of engine_step keeps the invariant.
LEMMA StepEndInv == ASSUME IInv, StepEnd PROVE IInv'
<1>1. /\ UNCHANGED <<client, got, whole, asked, errored, loops>>
      /\ loop = "executing" /\ scheduled' = {} /\ progress' \in BOOLEAN
      /\ made' = [c \in Clients |-> IF c \in scheduled THEN made[c] + 1 ELSE made[c]]
  BY DEF StepEnd, clientVars
<1>2. PICK known : known = {c \in scheduled : Registered(State, IdOf[c])}
  OBVIOUS
<1>3. PICK last \in SUBSET scheduled :
        LET out == [c \in Clients |-> Output(made[c] + 1, c \in last)]
        IN  /\ \A c \in scheduled : made[c] + 1 = MaxOutputs => c \in last
            /\ \E told \in IF known = scheduled THEN {known} ELSE SUBSET known :
                 Become(ProcessOutputs(State, told, out))
            /\ loop' = IF known = scheduled THEN "turn" ELSE "ended"
            /\ callback' = (known # scheduled)
            /\ groups' = groups \ last
  BY <1>2 DEF StepEnd
<1>4. PICK items : items = [c \in Clients |-> Output(made[c] + 1, c \in last)]
  OBVIOUS
<1>5. PICK told \in IF known = scheduled THEN {known} ELSE SUBSET known :
        Become(ProcessOutputs(State, told, items))
  BY <1>3, <1>4
<1>6. told \subseteq known /\ (known = scheduled => told = scheduled)
  BY <1>5
<1>7. /\ State \in Values /\ loops # 0
      /\ scheduled \subseteq groups /\ groups \subseteq Clients
      /\ \A c \in Clients : made[c] \in Nat /\ made[c] <= MaxOutputs
      /\ \A c \in groups : made[c] < MaxOutputs
      /\ MaxOutputs \in Nat
  BY <1>1, AsyncAssumption DEF IInv, StateTypes, LoopFacts, Entry
<1>8. \A c \in Clients : /\ items[c].number = made[c] + 1
                         /\ items[c].kind = IF c \in last THEN "last" ELSE "output"
  BY <1>4, ItemsAre
<1>9. \A c \in told : items[c] \in Items /\ Registered(State, IdOf[c])
  <2>1. \A c \in told : c \in Clients /\ made[c] + 1 \in 0 .. MaxOutputs /\ Registered(State, IdOf[c])
    BY <1>2, <1>6, <1>7
  <2>2. \A c \in told : (c \in last) \in BOOLEAN
    OBVIOUS
  <2> QED BY <1>4, <2>1, <2>2, ItemsAre
<1>10. told \in SUBSET Clients
  BY <1>2, <1>6, <1>7
<1>11. PICK u : u = ProcessOutputs(State, told, items)
  OBVIOUS
<1>12. u \in Values /\ Tells(State, u, told, items)
  BY <1>7, <1>9, <1>10, <1>11, OutputsTell
<1>13. /\ State' \in Values /\ tracker' = u.tracker /\ closed' = u.closed
       /\ \A c \in Clients : queue'[c] = IF client'[c] = "streaming" THEN u.queue[c] ELSE <<>>
  BY <1>5, <1>11, <1>12, BecomeEffect
<1>14. tracker \in Trackers
  BY <1>7, StateTyped
<1>15. /\ tracker'.streams = tracker.streams /\ tracker'.new = tracker.new
       /\ tracker'.finished = tracker.finished \cup EndedIn(told, items)
  BY <1>12, <1>13, <1>14, StateIs DEF Tells, Trackers
<1>16. /\ New' = New /\ Streams' = Streams /\ \A d : Known(d)' <=> Known(d)
  BY <1>15, TrackerStays
<1>17. /\ loop' = IF known = scheduled THEN "turn" ELSE "ended"
       /\ callback' <=> known # scheduled
       /\ callback' \in BOOLEAN
       /\ groups' = groups \ last
       /\ \A c \in scheduled : made[c] + 1 = MaxOutputs => c \in last
  BY <1>3
<1>18. StateTypes'
  <2>1. \A c \in Clients : c \in scheduled => made[c] + 1 <= MaxOutputs
    BY <1>7
  <2>2. made' \in [Clients -> 0 .. MaxOutputs]
    BY <1>1, <1>7, <2>1
  <2>3. groups' \subseteq Clients /\ scheduled' \subseteq groups'
    BY <1>1, <1>7, <1>17
  <2>4. loop' \in LoopPlaces
    BY <1>17 DEF LoopPlaces
  <2> QED BY <1>1, <1>13, <1>17, <2>2, <2>3, <2>4 DEF IInv, StateTypes
<1>19. LoopFacts'
  BY <1>1, <1>7, <1>17 DEF IInv, LoopFacts
<1>20. ASSUME NEW d \in Clients
       PROVE  Entry(d)'
  <2>1. Outside(d)' <=> Outside(d)
    BY <1>1 DEF Outside
  <2>2. ASSUME Outside(d) \/ d \in New
        PROVE  Unread(d)'
    <3>1. Unread(d) /\ d \notin Streams \cup groups
      BY <2>2 DEF IInv, Entry
    <3>2. \A c \in told : StreamOf(State, IdOf[c]) # d
      BY <1>9, <3>1, StateIs DEF Streams, Range
    <3>3. u.queue[d] = queue[d] /\ (u.closed[d] <=> closed[d])
      BY <1>12, <3>2, StateIs DEF Tells
    <3>4. made'[d] = made[d]
      BY <1>1, <1>7, <3>1
    <3> QED BY <1>1, <1>13, <3>1, <3>3, <3>4 DEF Unread
  <2>3. d \in groups' => made'[d] < MaxOutputs
    BY <1>1, <1>7, <1>17
  <2> QED BY <1>16, <1>17, <2>1, <2>2, <2>3 DEF IInv, Entry
<1>21. ASSUME NEW d \in Alone
       PROVE  Good(d)'
  <2>1. /\ d \in Clients /\ Good(d) /\ (Known(d) <=> d \in Streams)
        /\ queue[d] \in Seq(Items) /\ got[d] \in Nat
    BY <1>7, AloneIs, AloneKnown, StateTyped DEF IInv, StateTypes
  <2>2. IdOf[d] \in EndedIn(told, items) <=> d \in told \cap last
    <3>1. \A c \in Clients : IdOf[c] = IdOf[d] => c = d
      BY DEF Alone
    <3>2. \A c \in told : c \in Clients /\ (items[c].kind # "output" <=> c \in last)
      BY <1>8, <1>10
    <3> QED BY <3>1, <3>2 DEF EndedIn
  <2>3. EngineFacts(d)'
    <3>1. loops = 1 => ~errored
      BY <1>1 DEF IInv, LoopFacts
    <3> QED BY <1>1, <1>16, <1>17, <2>1, <3>1 DEF Good, EngineFacts
  <2>4. CASE d \in told
    <3>1. /\ d \in scheduled /\ Known(d) /\ items[d] \in Items
          /\ made'[d] = made[d] + 1
      BY <1>1, <1>2, <1>6, <1>9, <2>1, <2>4, StateIs DEF Known
    <3>2. /\ client[d] = "streaming" =>
               queue'[d] = IF closed[d] THEN queue[d] ELSE Told(queue[d], items[d])
          /\ closed'[d] <=> closed[d] \/ d \in last
      BY <1>1, <1>8, <1>12, <1>13, <2>1, <2>4, StateIs DEF Tells
    <3>3. IdOf[d] \in tracker'.finished <=> IdOf[d] \in tracker.finished \/ d \in last
      BY <1>15, <2>2, <2>4
    <3>4. d \notin New /\ ~Outside(d)
      BY <2>1, <3>1 DEF IInv, Entry
    <3>5. FinishedFacts(d)'
      BY <1>1, <1>16, <2>1, <3>2, <3>3, <3>4 DEF Good, FinishedFacts, Outside
    <3>6. ASSUME client[d] = "streaming", ~closed[d]
          PROVE  /\ QueueForm(queue'[d], got'[d], closed'[d], whole'[d], asked'[d])
                 /\ ~closed'[d] => got'[d] + Len(queue'[d]) = made'[d]
      <4>1. /\ QueueForm(queue[d], got[d], closed[d], whole[d], asked[d])
            /\ got[d] + Len(queue[d]) = made[d]
        BY <1>1, <2>1, <3>1, <3>6 DEF Good, StreamFacts
      <4>2. ~whole[d] /\ QueueForm(queue[d], got[d], FALSE, FALSE, asked[d])
        BY <3>6, <4>1 DEF QueueForm
      <4>3. Follows(items[d], got[d] + Len(queue[d]) + 1)
        BY <1>8, <2>1, <4>1 DEF Follows
      <4>4. /\ QueueForm(Told(queue[d], items[d]), got[d], items[d].kind # "output", FALSE, asked[d])
            /\ items[d].kind = "output" => Len(Told(queue[d], items[d])) = Len(queue[d]) + 1
        BY <2>1, <3>1, <4>2, <4>3, QueueTold
      <4>5. queue'[d] = Told(queue[d], items[d]) /\ (closed'[d] <=> d \in last)
        BY <3>2, <3>6
      <4>6. items[d].kind # "output" <=> d \in last
        BY <1>8, <2>1
      <4>7. QueueForm(queue'[d], got'[d], closed'[d], whole'[d], asked'[d])
        BY <1>1, <4>2, <4>4, <4>5, <4>6 DEF QueueForm
      <4>8. ASSUME ~closed'[d]
            PROVE  got'[d] + Len(queue'[d]) = made'[d]
        <5>1. Len(queue'[d]) = Len(queue[d]) + 1
          BY <4>4, <4>5, <4>6, <4>8
        <5>2. Len(queue[d]) \in Nat
          BY <2>1
        <5>3. PICK n \in Nat : n = Len(queue[d])
          BY <5>2
        <5>4. PICK g \in Nat : g = got[d]
          BY <2>1
        <5>5. g + (n + 1) = (g + n) + 1
          OBVIOUS
        <5> QED BY <1>1, <3>1, <4>1, <5>1, <5>3, <5>4, <5>5
      <4> QED BY <4>7, <4>8
    <3>7. ASSUME client[d] = "streaming", closed[d]
          PROVE  QueueForm(queue'[d], got'[d], closed'[d], whole'[d], asked'[d])
      <4>1. QueueForm(queue[d], got[d], closed[d], whole[d], asked[d])
        BY <2>1, <3>7 DEF Good, StreamFacts
      <4> QED BY <1>1, <3>2, <3>7, <4>1 DEF QueueForm
    <3>8. StreamFacts(d)'
      BY <1>1, <1>16, <3>1, <3>2, <3>6, <3>7 DEF StreamFacts
    <3> QED BY <2>3, <3>5, <3>8 DEF Good
  <2>5. CASE d \notin told
    <3>1. /\ closed'[d] <=> closed[d]
          /\ client[d] = "streaming" => queue'[d] = queue[d]
      <4>1. \A c \in told : StreamOf(State, IdOf[c]) # d
        <5>1. \A c \in told : c \in Clients /\ IdOf[c] # IdOf[d]
          BY <1>10, <2>5 DEF Alone
        <5> QED BY <1>7, <1>9, <5>1, AloneStream
      <4> QED BY <1>1, <1>12, <1>13, <2>1, <4>1, StateIs DEF Tells
    <3>2. IdOf[d] \in tracker'.finished <=> IdOf[d] \in tracker.finished
      BY <1>15, <2>2, <2>5
    <3>3. FinishedFacts(d)'
      BY <1>1, <1>16, <2>1, <3>1, <3>2 DEF Good, FinishedFacts, Outside
    <3>4. StreamFacts(d)'
      <4>1. SUFFICES ASSUME client[d] = "streaming" PROVE StreamFacts(d)'
        BY <1>1 DEF StreamFacts
      <4>2. QueueForm(queue'[d], got'[d], closed'[d], whole'[d], asked'[d])
        <5>1. QueueForm(queue[d], got[d], closed[d], whole[d], asked[d])
          BY <2>1, <4>1 DEF Good, StreamFacts
        <5> QED BY <1>1, <3>1, <4>1, <5>1 DEF QueueForm
      <4>3. loop' # "ended" => made'[d] = made[d]
        BY <1>1, <1>6, <1>17, <2>1, <2>5
      <4>4. ~closed[d] /\ (d \in New \/ Known(d)) => got[d] + Len(queue[d]) = made[d]
        BY <1>1, <2>1, <4>1 DEF Good, StreamFacts
      <4>5. ~closed[d] /\ loops = 1 => d \in New \/ Known(d)
        BY <2>1, <4>1 DEF Good, StreamFacts
      <4> QED BY <1>1, <1>16, <3>1, <4>1, <4>2, <4>3, <4>4, <4>5 DEF StreamFacts
    <3> QED BY <2>3, <3>3, <3>4 DEF Good
  <2> QED BY <2>4, <2>5
<1> QED BY <1>18, <1>19, <1>20, <1>21 DEF IInv

-----------------------------------------------------------------------------
(* The invariant of every behaviour, and the properties it implies. *)

\* Every step keeps the invariant.
LEMMA StepInv == IInv /\ [Next]_vars => IInv'
<1> SUFFICES ASSUME IInv, [Next]_vars PROVE IInv'
  OBVIOUS
<1>1. CASE UNCHANGED vars
  <2>1. IInv' <=> IInv
    BY <1>1 DEF vars, IInv, StateTypes, LoopFacts, Entry, Good, FinishedFacts, StreamFacts,
                EngineFacts, Unread, Outside, New, Streams, Known, State
  <2> QED BY <2>1
<1> QED BY <1>1, BeginRequestInv, AddRequestInv, ReceiveInv, ReceiveExceptionInv, CancelInv,
           LeaveInv, AbortInv, NextTurnInv, WakeInv, StepBeginInv, StepEndInv, StepFailsInv,
           ErrorCallbackInv
        DEF Next

\* The invariant is one.
LEMMA Reached == Spec => []IInv
  BY InitInv, StepInv, PTL DEF Spec

\* The state of the asynchronous engine keeps its types, with any number of clients
\* and any ids, two requests with one id included.
THEOREM TypesKept == Spec => []TypeOK
<1>1. IInv => TypeOK
  <2> SUFFICES ASSUME IInv PROVE TypeOK
    OBVIOUS
  <2>1. State \in Values /\ closed \in [Clients -> BOOLEAN] /\ tracker \in Trackers
    BY StateTyped DEF IInv, StateTypes
  <2>2. /\ DOMAIN tracker.streams \subseteq Ids /\ Range(tracker.streams) \subseteq Clients
        /\ Range(tracker.new) \subseteq Clients
        /\ tracker.finished \subseteq Ids
    BY <2>1, StreamMapsAre DEF Trackers, Range
  <2> QED BY <2>1, <2>2 DEF IInv, StateTypes, TypeOK, ClientPlaces, LoopPlaces
<1> QED BY <1>1, Reached, PTL

\* A client with an id of its own gets every output that the engine makes of its
\* request, in order: what AsyncStream, the tracker and process_request_output do
\* together, whatever other clients do.
THEOREM OutputsArrive == Spec => []NoOutputLost
<1>1. IInv => NoOutputLost
  <2> SUFFICES ASSUME IInv, loops = 1, IsRunning, NEW c \in Alone, client[c] = "streaming"
               PROVE  /\ \A i \in DOMAIN queue[c] :
                           queue[c][i].number > 0 => queue[c][i].number = got[c] + i
                      /\ ~closed[c] => got[c] + Len(queue[c]) = made[c]
    BY DEF NoOutputLost
  <2>1. StreamFacts(c) /\ queue[c] \in Seq(Items)
    BY AloneIs, StateTyped DEF IInv, Good, StateTypes
  <2>2. DOMAIN queue[c] = 1 .. Len(queue[c])
    BY <2>1
  <2>3. \A i \in DOMAIN queue[c] :
          queue[c][i].number > 0 => queue[c][i].number = got[c] + i
    BY <2>1, <2>2 DEF StreamFacts, QueueForm
  <2>4. ~closed[c] => got[c] + Len(queue[c]) = made[c]
    BY <2>1 DEF StreamFacts, IsRunning
  <2> QED BY <2>3, <2>4
<1> QED BY <1>1, Reached, PTL

\* What the engine holds is known to the tracker, and is about to be aborted as soon
\* as its stream was closed, its abort was asked for, or its client was cancelled or
\* failed: only a client that leaves between two outputs, and that nobody aborts,
\* lets its group run on.
THEOREM NothingIsLeft == Spec => []NoZombies
<1>1. IInv => NoZombies
  <2> SUFFICES ASSUME IInv, loops = 1, NEW c \in groups \cap Alone
               PROVE  /\ Registered(State, IdOf[c])
                      /\ closed[c] \/ asked[c] => IdOf[c] \in tracker.finished
                      /\ client[c] \notin {"streaming", "left"} => IdOf[c] \in tracker.finished
    BY DEF NoZombies
  <2>1. Good(c)
    BY DEF IInv
  <2> QED BY <2>1, StateIs DEF Good, EngineFacts, FinishedFacts, Known
<1> QED BY <1>1, Reached, PTL

\* After a failure of the background task, and its callback, the stream of every
\* request that the engine holds is closed.
THEOREM FailureIsTold == Spec => []HeldAreTold
<1>1. IInv => HeldAreTold
  BY DEF IInv, Good, EngineFacts, HeldAreTold
<1> QED BY <1>1, Reached, PTL

-----------------------------------------------------------------------------
(* The service. *)

ServiceState ==
    [c \in Alone |-> CASE client[c] = "encoding" -> "out"
                       [] client[c] = "streaming" -> "open"
                       [] client[c] = "left" -> "gone"
                       [] OTHER -> client[c]]
ServiceGot == [c \in Alone |-> got[c]]
ServiceWhole == [c \in Alone |-> whole[c]]
ServiceAsked == [c \in Alone |-> asked[c]]

ServiceNext == \E c \in Alone : Service!Answer(c) \/ Service!Deliver(c) \/ Service!AskAbort(c)
ServiceVars == <<ServiceState, ServiceGot, ServiceWhole, ServiceAsked>>

\* What one client's place becomes shows in the service's.
Shown(place) ==
    CASE place = "encoding" -> "out" [] place = "streaming" -> "open"
      [] place = "left" -> "gone" [] OTHER -> place

\* What the service shows of a client with an id of its own.
LEMMA ServiceIs ==
    /\ \A c \in Alone : /\ ServiceState[c] = Shown(client[c]) /\ ServiceGot[c] = got[c]
                        /\ ServiceWhole[c] = whole[c] /\ ServiceAsked[c] = asked[c]
    /\ \A c \in Alone : /\ ServiceState'[c] = Shown(client'[c]) /\ ServiceGot'[c] = got'[c]
                        /\ ServiceWhole'[c] = whole'[c] /\ ServiceAsked'[c] = asked'[c]
  BY DEF ServiceState, ServiceGot, ServiceWhole, ServiceAsked, Shown

\* The actions of the service, spelled out over the mapped variables.
LEMMA ServiceDefs ==
    /\ Service!service = ServiceVars
    /\ \A c : Service!Answer(c) <=>
         /\ \/ ServiceState[c] \in {"out"} /\ ServiceState' = [ServiceState EXCEPT ![c] = "open"]
            \/ ServiceState[c] \in {"out"} /\ ServiceState' = [ServiceState EXCEPT ![c] = "refused"]
            \/ ServiceState[c] \in {"open"} /\ ServiceState' = [ServiceState EXCEPT ![c] = "failed"]
            \/ ServiceState[c] \in {"out", "open"} /\ ServiceState' = [ServiceState EXCEPT ![c] = "gone"]
            \/ /\ ServiceWhole[c] \/ ServiceAsked[c]
               /\ ServiceState[c] \in {"open"} /\ ServiceState' = [ServiceState EXCEPT ![c] = "ended"]
         /\ UNCHANGED <<ServiceGot, ServiceWhole, ServiceAsked>>
    /\ \A c : Service!Deliver(c) <=>
         /\ ServiceState[c] = "open" /\ ~ServiceWhole[c]
         /\ ServiceGot' = [ServiceGot EXCEPT ![c] = @ + 1]
         /\ ServiceWhole' \in {ServiceWhole, [ServiceWhole EXCEPT ![c] = TRUE]}
         /\ UNCHANGED <<ServiceState, ServiceAsked>>
    /\ \A c : Service!AskAbort(c) <=>
         /\ ServiceAsked' = [ServiceAsked EXCEPT ![c] = TRUE]
         /\ UNCHANGED <<ServiceState, ServiceGot, ServiceWhole>>
  BY DEF Service!service, Service!Answer, Service!Move, Service!Deliver, Service!AskAbort,
         ServiceVars, ServiceState, ServiceGot, ServiceWhole, ServiceAsked

\* One client's place changes, and nothing that the service shows of others.
LEMMA PlaceShown ==
    ASSUME NEW c, \A d \in Alone \ {c} : client'[d] = client[d]
    PROVE  /\ c \in Alone => ServiceState' = [ServiceState EXCEPT ![c] = Shown(client'[c])]
           /\ c \notin Alone => ServiceState' = ServiceState
  BY DEF ServiceState, Shown

\* What does not change here does not change there.
LEMMA SameShown ==
    /\ got' = got => ServiceGot' = ServiceGot
    /\ whole' = whole => ServiceWhole' = ServiceWhole
    /\ asked' = asked => ServiceAsked' = ServiceAsked
    /\ client' = client => ServiceState' = ServiceState
  BY DEF ServiceState, ServiceGot, ServiceWhole, ServiceAsked

\* A client goes from one place to another, as the service allows.
LEMMA PlaceStep ==
    ASSUME NEW c \in Clients, \A d \in Clients \ {c} : client'[d] = client[d],
           UNCHANGED <<got, whole, asked>>,
           \/ Shown(client'[c]) = Shown(client[c])
           \/ Shown(client[c]) = "out" /\ Shown(client'[c]) \in {"open", "refused", "gone"}
           \/ Shown(client[c]) = "open" /\ Shown(client'[c]) \in {"failed", "gone"}
           \/ /\ c \in Alone => whole[c] \/ asked[c]
              /\ Shown(client[c]) = "open" /\ Shown(client'[c]) = "ended"
    PROVE  ServiceNext \/ UNCHANGED ServiceVars
<1>1. UNCHANGED <<ServiceGot, ServiceWhole, ServiceAsked>>
  BY SameShown
<1>2. \A d \in Alone \ {c} : client'[d] = client[d]
  BY AloneIs
<1>3. CASE c \notin Alone
  <2>1. ServiceState' = ServiceState
    BY <1>2, <1>3, PlaceShown
  <2> QED BY <1>1, <2>1 DEF ServiceVars
<1>4. CASE c \in Alone
  <2>1. PICK new : new = Shown(client'[c])
    OBVIOUS
  <2>2. ServiceState' = [ServiceState EXCEPT ![c] = new]
    BY <1>2, <1>4, <2>1, PlaceShown
  <2>3. ServiceState[c] = Shown(client[c]) /\ ServiceWhole[c] = whole[c] /\ ServiceAsked[c] = asked[c]
    BY <1>4, ServiceIs
  <2>4. CASE new = Shown(client[c])
    <3>1. ServiceState' = ServiceState
      BY <1>4, <2>2, <2>3, <2>4 DEF ServiceState
    <3> QED BY <1>1, <3>1 DEF ServiceVars
  <2>5. CASE new # Shown(client[c])
    <3>1. Service!Answer(c)
      BY <1>1, <1>4, <2>1, <2>2, <2>3, <2>5, ServiceDefs
    <3> QED BY <1>4, <3>1 DEF ServiceNext
  <2> QED BY <2>4, <2>5
<1> QED BY <1>3, <1>4

\* Calls of a client are steps of the service.
LEMMA ClientsService ==
    ASSUME IInv, NEW c \in Clients,
           BeginRequest(c) \/ AddRequest(c) \/ ReceiveException(c) \/ Cancel(c) \/ Leave(c)
    PROVE  ServiceNext \/ UNCHANGED ServiceVars
<1>1. client \in [Clients -> ClientPlaces]
  BY DEF IInv, StateTypes
<1>2. UNCHANGED <<got, whole, asked>>
  BY DEF BeginRequest, AddRequest, ReceiveException, Cancel, Leave
<1>3. PICK new : client' = [client EXCEPT ![c] = new]
  BY DEF BeginRequest, AddRequest, ReceiveException, Cancel, Leave
<1>4. client'[c] = new /\ \A d \in Clients \ {c} : client'[d] = client[d]
  BY <1>1, <1>3
<1>5. CASE BeginRequest(c)
  <2>1. client[c] = "out" /\ client'[c] \in {"encoding", "refused"}
    BY <1>1, <1>5 DEF BeginRequest
  <2> QED BY <1>2, <1>4, <2>1, PlaceStep DEF Shown
<1>6. CASE AddRequest(c)
  <2>1. client[c] = "encoding" /\ client'[c] \in {"refused", "streaming"}
    BY <1>1, <1>6 DEF AddRequest
  <2> QED BY <1>2, <1>4, <2>1, PlaceStep DEF Shown
<1>7. CASE ReceiveException(c)
  <2>1. client[c] = "streaming" /\ client'[c] = "failed"
    BY <1>1, <1>7 DEF ReceiveException
  <2> QED BY <1>2, <1>4, <2>1, PlaceStep DEF Shown
<1>8. CASE Cancel(c)
  <2>1. client[c] \in {"encoding", "streaming"} /\ client'[c] = "gone"
    BY <1>1, <1>8 DEF Cancel
  <2> QED BY <1>2, <1>4, <2>1, PlaceStep DEF Shown
<1>9. CASE Leave(c)
  <2>1. client[c] = "streaming" /\ client'[c] = "left"
    BY <1>1, <1>9 DEF Leave
  <2> QED BY <1>2, <1>4, <2>1, PlaceStep DEF Shown
<1> QED BY <1>5, <1>6, <1>7, <1>8, <1>9

\* Reading a stream is a step of the service.
LEMMA ReceiveService ==
    ASSUME IInv, NEW c \in Clients, Receive(c)
    PROVE  ServiceNext \/ UNCHANGED ServiceVars
<1>1. /\ client \in [Clients -> ClientPlaces] /\ got \in [Clients -> 0 .. MaxOutputs]
      /\ whole \in [Clients -> BOOLEAN] /\ asked \in [Clients -> BOOLEAN]
      /\ closed \in [Clients -> BOOLEAN] /\ queue[c] \in Seq(Items)
  BY StateTyped DEF IInv, StateTypes
<1>2. client[c] = "streaming" /\ queue[c] # <<>> /\ UNCHANGED asked
  BY DEF Receive
<1>3. c \in Alone => QueueForm(queue[c], got[c], closed[c], whole[c], asked[c])
  BY <1>2 DEF IInv, Good, StreamFacts
<1>4. got[c] \in Nat
  BY <1>1
<1>5. CASE Head(queue[c]).kind = "stop"
  <2>1. client' = [client EXCEPT ![c] = "ended"] /\ UNCHANGED <<got, whole>>
    BY <1>5 DEF Receive
  <2>2. c \in Alone => whole[c] \/ asked[c]
    BY <1>1, <1>2, <1>3, <1>4, <1>5, QueueEnd
  <2>3. client'[c] = "ended" /\ \A d \in Clients \ {c} : client'[d] = client[d]
    BY <1>1, <2>1
  <2> QED BY <1>2, <2>1, <2>2, <2>3, PlaceStep DEF Shown
<1>6. CASE Head(queue[c]).kind # "stop"
  <2>1. /\ got' = [got EXCEPT ![c] = Head(queue[c]).number] /\ client' = client
        /\ whole' = [whole EXCEPT ![c] = (Head(queue[c]).kind = "last")]
        /\ Head(queue[c]).kind \in {"output", "last"}
    BY <1>6 DEF Receive
  <2>2. UNCHANGED <<ServiceState, ServiceAsked>>
    BY <1>2, <2>1, SameShown
  <2>3. CASE c \notin Alone
    <3>1. ServiceGot' = ServiceGot /\ ServiceWhole' = ServiceWhole
      BY <1>1, <2>1, <2>3, AloneIs DEF ServiceGot, ServiceWhole
    <3> QED BY <2>2, <3>1 DEF ServiceVars
  <2>4. CASE c \in Alone
    <3>1. Head(queue[c]).number = got[c] + 1 /\ ~whole[c]
      <4>1. /\ closed[c] \in BOOLEAN /\ whole[c] \in BOOLEAN /\ asked[c] \in BOOLEAN
            /\ queue[c] \in Seq(Items) /\ queue[c] # <<>>
        BY <1>1, <1>2
      <4>2. Head(queue[c]).kind \in {"output", "last"}
        BY <2>1
      <4> QED BY <1>3, <1>4, <2>4, <4>1, <4>2, QueueRead
    <3>2. ServiceState[c] = "open" /\ ServiceGot[c] = got[c] /\ ~ServiceWhole[c]
      BY <1>2, <2>4, <3>1, ServiceIs DEF Shown
    <3>3. ServiceGot' = [ServiceGot EXCEPT ![c] = @ + 1]
      BY <1>1, <2>1, <2>4, <3>1, AloneIs DEF ServiceGot
    <3>4. ServiceWhole' \in {ServiceWhole, [ServiceWhole EXCEPT ![c] = TRUE]}
      <4>1. CASE Head(queue[c]).kind = "last"
        <5>1. whole' = [whole EXCEPT ![c] = TRUE]
          BY <2>1, <4>1
        <5>2. ServiceWhole' = [ServiceWhole EXCEPT ![c] = TRUE]
          BY <1>1, <2>4, <5>1, AloneIs DEF ServiceWhole
        <5> QED BY <5>2
      <4>2. CASE Head(queue[c]).kind # "last"
        <5>1. whole' = [whole EXCEPT ![c] = FALSE]
          BY <2>1, <4>2
        <5>2. whole' = whole
          BY <1>1, <3>1, <5>1
        <5> QED BY <5>2, SameShown
      <4> QED BY <4>1, <4>2
    <3>5. Service!Deliver(c)
      BY <2>2, <3>2, <3>3, <3>4, ServiceDefs
    <3> QED BY <2>4, <3>5 DEF ServiceNext
  <2> QED BY <2>3, <2>4
<1> QED BY <1>5, <1>6

\* An abort is a step of the service.
LEMMA AbortService ==
    ASSUME IInv, NEW c \in Clients, Abort(c)
    PROVE  ServiceNext \/ UNCHANGED ServiceVars
<1>1. asked' = [asked EXCEPT ![c] = TRUE] /\ UNCHANGED <<client, got, whole>>
      /\ asked \in [Clients -> BOOLEAN]
  BY DEF Abort, IInv, StateTypes
<1>2. UNCHANGED <<ServiceState, ServiceGot, ServiceWhole>>
  BY <1>1, SameShown
<1>3. CASE c \in Alone
  <2>1. ServiceAsked' = [ServiceAsked EXCEPT ![c] = TRUE]
    BY <1>1, <1>3, AloneIs DEF ServiceAsked
  <2>2. Service!AskAbort(c)
    BY <1>2, <2>1, ServiceDefs
  <2> QED BY <1>3, <2>2 DEF ServiceNext
<1>4. CASE c \notin Alone
  <2>1. ServiceAsked' = ServiceAsked
    BY <1>1, <1>4, AloneIs DEF ServiceAsked
  <2> QED BY <1>2, <2>1 DEF ServiceVars
<1> QED BY <1>3, <1>4

\* Every step is a step of the service or none.
LEMMA StepService == IInv /\ [Next]_vars => [ServiceNext]_ServiceVars
<1> SUFFICES ASSUME IInv, [Next]_vars PROVE ServiceNext \/ UNCHANGED ServiceVars
  OBVIOUS
<1>1. ASSUME UNCHANGED <<client, got, whole, asked>>
      PROVE  UNCHANGED ServiceVars
  BY <1>1, SameShown DEF ServiceVars
<1>2. CASE \/ NextTurn \/ Wake \/ StepBegin \/ StepEnd \/ \E why \in Failures : StepFails(why)
           \/ ErrorCallback \/ UNCHANGED vars
  <2>1. UNCHANGED <<client, got, whole, asked>>
    BY <1>2 DEF NextTurn, Wake, StepBegin, StepEnd, StepFails, ErrorCallback, clientVars, vars
  <2> QED BY <1>1, <2>1
<1> QED BY <1>2, ClientsService, ReceiveService, AbortService DEF Next

\* The initial states map to one of the service.
LEMMA InitService == Init => Service!ServiceInit
  BY AloneIs DEF Init, Service!ServiceInit

\* The engine, its loop and its tracker together implement the service for every
\* client with an id of its own: each step is one of the service or changes nothing
\* that a client sees.
THEOREM ServiceKept == Spec => ServicePromise
<1>1. ServicePromise <=> Service!ServiceInit /\ [][ServiceNext]_ServiceVars
  BY DEF ServicePromise, Service!ServiceSpec, Service!service, ServiceNext, ServiceVars,
         ServiceState, ServiceGot, ServiceWhole, ServiceAsked
<1> QED BY <1>1, InitService, StepService, Reached, PTL DEF Spec

=============================================================================
