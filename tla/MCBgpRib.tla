------------------------------ MODULE MCBgpRib ------------------------------
(* A small instance of BgpRib: two routers in one bucket, one of them with *)
(* four-byte AS numbers, and prefixes that nest and branch.                *)
EXTENDS BgpRib

CONSTANTS r1, r2, k1, path1, path2, old, merged, comm

MCPeers == {r1, r2}
MCFourByte == {r2}
MCBuckets == {k1}
MCBucket(p) == k1
MCReconcile(aspath, as4path) == merged

Default == << >>
Half == <<0>>
Low == <<0, 0>>
High == <<0, 1>>
Other == <<1, 0>>

Attr(t, v) == [type |-> t, value |-> v]
Update(attrs, wd, nlri, mp_wd) == [attrs |-> attrs, wd |-> wd, nlri |-> nlri, mp_wd |-> mp_wd]

\* leaves, their common prefix, shared and replaced attributes, withdrawals of what is
\* there and what is not, an AS4_PATH, an attribute that comes twice, a bad message
MCUpdates == {
  Update(<<Attr("aspath", path1)>>, << >>, <<Low, High>>, << >>),
  Update(<<Attr("aspath", path1), Attr("med", 1), Attr("community", comm)>>, <<High>>,
         <<Low, Other>>, << >>),
  Update(<<Attr("aspath", old), Attr("as4path", path2)>>, << >>, <<Half>>, << >>),
  Update(<<Attr("community", comm), Attr("community", comm), Attr("aspath", path2)>>, << >>,
         <<High>>, <<Low>>),
  Update(<< >>, <<Default, Low, Half>>, << >>, << >>),
  Update(<<Attr("aspath", path1), Attr("malformed", path1)>>, << >>, <<Low>>, << >>)}

MCAddresses == {<<0, 0, 1>>}
=============================================================================
