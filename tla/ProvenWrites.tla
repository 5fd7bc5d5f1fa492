----------------------------- MODULE ProvenWrites -----------------------------
(***************************************************************************)
(* What the write exposure promises, without how it gets there: a run      *)
(* writes nothing until a complete, proven plan is approved, and from then *)
(* on the tenant changes only by writes of the approved materials, in      *)
(* their order: the file is emptied, and the material, or a part of it,    *)
(* is laid over what the file holds by then.  A run may stop at any point. *)
(***************************************************************************)
EXTENDS Naturals, Sequences

CONSTANTS
    Absent,          \* what is at a path without a file
    Runs,            \* invocations of the provisioning CLI
    Proven(_),       \* which plans are complete and proven
    TenantEdited     \* the paths the tenant itself edits

VARIABLES
    tenant,          \* the tenant working tree: path |-> contents or Absent
    approved         \* run |-> the approved materials still to be written

promiseVars == <<tenant, approved>>

-------------------------------------------------------------------------------
Promised ==
    approved = [r \in Runs |-> <<>>]

Approve(r) ==
    /\ approved[r] = <<>>
    /\ Proven(approved'[r])
    /\ approved' = [approved EXCEPT ![r] = approved'[r]]
    /\ UNCHANGED tenant

(* The file of the next material holds `contents` from its beginning.        *)
LaysOver(material, contents) ==
    tenant' = [tenant EXCEPT ![material.path] =
                  IF @ = Absent THEN Absent
                  ELSE contents \o SubSeq(@, Len(contents) + 1, Len(@))]

Truncate(r) ==
    /\ approved[r] # <<>>
    /\ tenant' = [tenant EXCEPT ![Head(approved[r]).path] = <<>>]
    /\ UNCHANGED approved

Write(r) ==
    /\ approved[r] # <<>>
    /\ LaysOver(Head(approved[r]), Head(approved[r]).contents)
    /\ approved' = [approved EXCEPT ![r] = Tail(@)]

(* The write breaks off, and the run with it.                                *)
BreakOff(r) ==
    /\ approved[r] # <<>>
    /\ LET material == Head(approved[r])
       IN  \E n \in 0..Len(material.contents) :
              LaysOver(material, SubSeq(material.contents, 1, n))
    /\ approved' = [approved EXCEPT ![r] = <<>>]

Stop(r) ==
    /\ approved[r] # <<>>
    /\ approved' = [approved EXCEPT ![r] = <<>>]
    /\ UNCHANGED tenant

TenantEdit(path) ==
    /\ tenant' = [tenant EXCEPT ![path] = tenant'[path]]
    /\ UNCHANGED approved

PromiseNext ==
    \/ \E r \in Runs :
          Approve(r) \/ Truncate(r) \/ Write(r) \/ BreakOff(r) \/ Stop(r)
    \/ \E path \in TenantEdited : TenantEdit(path)

Promise == Promised /\ [][PromiseNext]_promiseVars
===============================================================================
