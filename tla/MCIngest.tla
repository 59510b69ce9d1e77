------------------------------- MODULE MCIngest -------------------------------
(* Instances of Ingest for TLC: the jobs each run mixes. *)
EXTENDS Ingest

CONSTANTS t1, t2, t3, t4, p1, p2, a, b, g1, g2, d1, d2, d3

Sync(proc, tag, path) ==
    [kind |-> "sync", proc |-> proc, tag |-> tag, path |-> path, mode |-> "read", doc |-> NoDoc, most |-> 2]
Upload(proc, tag, path, mode, doc) ==
    [kind |-> "upload", proc |-> proc, tag |-> tag, path |-> path, mode |-> mode, doc |-> doc,
     most |-> 2]
Delete(kind, tag, doc) ==
    [kind |-> kind, proc |-> p1, tag |-> tag, path |-> a, mode |-> "read", doc |-> doc, most |-> 0]

\* The longer content yields two chunks, so that a batch can end between them.
TwoChunks == [d \in Docs |-> [m \in Modes |-> IF d = d1 /\ m = "read" THEN 2 ELSE 1]]

\* Path a is edited between two contents; path b holds a third.
EditedAtA == [p \in Paths |-> IF p = a THEN {d1, d2} ELSE {d3}]

\* Two syncs of a file under edit and one of another file of the tenant.
SyncMix == [t \in Tasks |-> Sync(p1, g1, IF t = t3 THEN b ELSE a)]

\* The same contents under two tenants, with deletes of both kinds.
DocumentMix == [t \in Tasks |-> CASE t = t1 -> Sync(p1, g1, a)
                                  [] t = t2 -> Sync(p1, g2, a)
                                  [] t = t3 -> Delete("deleteDoc", g1, d1)]
TenantMix == [t \in Tasks |-> CASE t = t1 -> Sync(p1, g1, a)
                                [] t = t2 -> Upload(p2, g2, a, "read", d1)
                                [] t = t3 -> Delete("deleteTenant", g2, NoDoc)]

\* Overlapping uploads of one content, the two workers serving them: two equal
\* ones with one in the other mode, under another name, and with one whose parse
\* is shorter.
UploadOne(t) == Upload(IF t = t1 THEN p1 ELSE p2, g1, a, "read", d1)
ModesMix == [t \in Tasks |-> IF t = t3 THEN Upload(p2, g1, b, "layout", d1) ELSE UploadOne(t)]
ShorterMix == [t \in Tasks |-> IF t = t3 THEN [UploadOne(t) EXCEPT !.most = 1] ELSE UploadOne(t)]

AllMixes == {SyncMix, DocumentMix, TenantMix, ModesMix, ShorterMix}

\* The mixes are such as the theorems are about.
ASSUME MixesCovered == WritersApart /\ DeletesServed /\ ContentsApart

=============================================================================
