---------------------------- MODULE ShaderWatcher ----------------------------
(***************************************************************************)
(* resource/detail/ShaderWatcher.{hpp,cpp} (Linux): a watcher as a value,  *)
(* [kernel, next_wd, wd2id_, id2wd_].  kernel[f] is the descriptor inotify *)
(* has for the file f, 0 for none: one for each file, and a new number     *)
(* whenever a watch is added again.  wd2id_ and id2wd_ are the two maps,   *)
(* as sets of pairs.                                                       *)
(***************************************************************************)
EXTENDS Integers, FiniteSets

CONSTANTS Files,
          Buckets   \* buckets of wd2id_: 13 or more in the library

ASSUME BucketsAssumption == Buckets \in Nat \ {0}

NewWatcher == [kernel |-> [f \in Files |-> 0], next_wd |-> 1, wd2id_ |-> {}, id2wd_ |-> {}]

bucket(wd) == wd % Buckets

(* inotify_add_watch(): the descriptor that the file has, or the next one. *)
AddWatch(W, file) == IF W.kernel[file] # 0 THEN W
                     ELSE [W EXCEPT !.kernel[file] = W.next_wd, !.next_wd = @ + 1]

RemoveWatch(W, wd) ==
    [W EXCEPT !.kernel = [f \in Files |-> IF W.kernel[f] = wd THEN 0 ELSE W.kernel[f]]]

watch(W, id, file) ==
    LET wd == AddWatch(W, file).kernel[file]
    IN  [AddWatch(W, file) EXCEPT !.wd2id_ = @ \cup {<<wd, id>>},
                                  !.id2wd_ = @ \cup {<<id, wd>>}]

\* Mutant: an event is for one of those that watch the file.
SubscribedFirst(W, wd) ==
    LET all == {pair[2] : pair \in {p \in W.wd2id_ : p[1] = wd}}
    IN  IF all = {} THEN {} ELSE {CHOOSE id \in all : TRUE}

(* Those that an event of wd is for. *)
Subscribed(W, wd) == {pair[2] : pair \in {p \in W.wd2id_ : p[1] = wd}}

BucketSize(W, wd) == Cardinality({pair \in W.wd2id_ : bucket(pair[1]) = bucket(wd)})

(* at() finds the first: an id is watched once in its life. *)
WdOf(W, id) == (CHOOSE pair \in W.id2wd_ : pair[1] = id)[2]

stop_watching(W, id) ==
    LET wd       == WdOf(W, id)
        real     == BucketSize(W, wd) = 1
        stopped  == IF real THEN RemoveWatch(W, wd) ELSE W
    IN  [stopped EXCEPT !.id2wd_ = IF real THEN @ \ {<<id, wd>>} ELSE @,
                        !.wd2id_ = @ \ {<<wd, id>>}]

=============================================================================
