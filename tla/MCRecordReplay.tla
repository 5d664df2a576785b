---------------------------- MODULE MCRecordReplay ----------------------------
(* Small instances of RecordReplay for TLC. *)
EXTENDS RecordReplay

CONSTANTS t1, v1, v2, h, near, far

\* Two values of the header h: one key when h is not matched on, two when it is.
TwoValues == {[target |-> t1, headers |-> h :> v1], [target |-> t1, headers |-> h :> v2]}
OneTarget == {[target |-> t1, headers |-> h :> v1]}

Recording(mode, names, items, bytes) ==
    [mode |-> mode, match_headers |-> names, max_items |-> items, max_bytes |-> bytes]
Mock(host, recording) == [proxy_host |-> host, recording |-> recording]

\* Racing requests: what matters is which updates preserve the collection.  One
\* configuration refuses the larger reply, one replays by other keys, one does not record.
RacingMocks ==
    {Mock(near, Recording("record", {}, 1, 2)),
     Mock(near, Recording("record", {}, 1, 1)),
     Mock(near, Recording("replay", {h}, 1, 2)),
     Mock(near, NoRecording)}

\* Collections: limits on items and on bytes that updates raise and lower, by up to two
\* entries at once, both keyings, two upstreams and none.
CollectionMocks ==
    {Mock(near, Recording("record", {h}, 2, 3)),
     Mock(near, Recording("replay", {h}, 2, 1)),
     Mock(far, Recording("record", {h}, 1, 4)),
     Mock(far, Recording("record", {}, 2, 3)),
     Mock(NoHost, NoRecording)}

\* The mock whose snapshots are submitted again: one other has its upstream, one its keys.
CollectionExports == {Mock(far, Recording("record", {h}, 1, 4))}

\* Replies of two sizes; of the mixed ones an import does not admit the larger (its
\* status is above 599, or a header value has a control character).
ValidReplies == [size : {1, 2}, valid : {TRUE}]
MixedReplies == {[size |-> 1, valid |-> TRUE], [size |-> 2, valid |-> FALSE]}

NearHost == {near}
BothHosts == {near, far}

RequestSymmetry == Permutations(Requests)
===============================================================================
