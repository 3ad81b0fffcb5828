------------------------------ MODULE FileInfo ------------------------------
(***************************************************************************)
(* luafilesystem/src/lfs.c: symlinkattributes, called by services that run *)
(* on the worker threads of one skynet process, while other programs       *)
(* replace the file.                                                       *)
(*                                                                         *)
(* perm2string writes the permissions into a static buffer, which the      *)
(* services of the process share without a lock.                           *)
(***************************************************************************)
EXTENDS Integers, FiniteSets

CONSTANTS
    Services,
    Perms,          \* the permission bits
    Lengths,        \* lengths of the targets of links
    InitialSize     \* 256

ASSUME InfoAssumption == Lengths \subseteq Nat /\ InitialSize \in Nat \ {0}

VARIABLES
    node,       \* what the path names: a file or a link with a target
    perms,      \* the static buffer of perm2string
    calls       \* the call each service makes

infoVars == <<node, perms, calls>>

Nodes == [kind : {"none"}, mode : {{}}, len : {0}]
           \cup [kind : {"file"}, mode : SUBSET Perms, len : {0}]
           \cup [kind : {"link"}, mode : {Perms}, len : Lengths]

\* `mode' is st_mode as lstat filled it in; `alone' says that no other service was in
\* perm2string since this one entered it, and `overlap' has the permissions of those that
\* were, its own included; `size', `tsize' and `seen' are of
\* push_link_target: its buffer, what readlink returned and how long the target was.
Call == [pc : {"idle", "clear", "set", "push", "alloc", "read", "target", "done"},
         mode : SUBSET Perms, alone : BOOLEAN, overlap : SUBSET Perms,
         size : Nat, tsize : Nat, seen : Nat]

NoNode == [kind |-> "none", mode |-> {}, len |-> 0]

Idle == [pc |-> "idle", mode |-> {}, alone |-> TRUE, overlap |-> {},
         size |-> 0, tsize |-> 0, seen |-> 0]

Done == [Idle EXCEPT !.pc = "done"]

InfoInit ==
    /\ node = NoNode
    /\ perms = {}
    /\ calls = [s \in Services |-> Idle]

InPerm(s) == calls[s].pc \in {"clear", "set", "push"}

\* The permissions that those in perm2string are writing.
BeingWritten == UNION {calls[s].mode : s \in {t \in Services : InPerm(t)}}

\* Other programs.
replace(n) == node' = n /\ UNCHANGED <<perms, calls>>

-----------------------------------------------------------------------------
\* link_info with a path alone: lstat, and the table is filled with the members in turn.
link_info(s) ==
    /\ calls[s].pc = "idle" /\ node.kind # "none"
    /\ calls' = [t \in Services |->
                   IF t = s
                   THEN [Idle EXCEPT !.pc = "clear", !.mode = node.mode,
                                     !.alone = \A u \in Services : ~InPerm(u),
                                     !.overlap = node.mode \cup BeingWritten]
                   ELSE IF InPerm(t)
                   THEN [calls[t] EXCEPT !.alone = FALSE, !.overlap = @ \cup node.mode]
                   ELSE calls[t]]
    /\ UNCHANGED <<node, perms>>

\* link_info with "target".
link_info_target(s) ==
    /\ calls[s].pc = "idle"
    /\ calls' = [calls EXCEPT ![s] = [Idle EXCEPT !.pc = "alloc", !.size = InitialSize]]
    /\ UNCHANGED <<node, perms>>

\* Mutant: the buffer is taken to be clear.
PermUncleared(s) ==
    /\ calls[s].pc = "clear"
    /\ calls' = [calls EXCEPT ![s].pc = "set"]
    /\ UNCHANGED <<node, perms>>

\* perm2string: "for (i=0;i<9;i++) perms[i]='-'".
perm2string_clear(s) ==
    /\ calls[s].pc = "clear"
    /\ perms' = {}
    /\ calls' = [calls EXCEPT ![s].pc = "set"]
    /\ UNCHANGED node

perm2string_set(s) ==
    /\ calls[s].pc = "set"
    /\ perms' = perms \cup calls[s].mode
    /\ calls' = [calls EXCEPT ![s].pc = "push"]
    /\ UNCHANGED node

\* push_st_perm copies the buffer, which may hold anything once two services were in
\* perm2string at the same time; lua_rawset puts the copy into the table.
push_st_perm(s) ==
    /\ calls[s].pc = "push"
    /\ calls' = [calls EXCEPT ![s] = [Idle EXCEPT !.pc = "alloc", !.size = InitialSize]]
    /\ UNCHANGED <<node, perms>>

\* push_link_target: realloc fails, or grants the buffer.
target_alloc(s) ==
    /\ calls[s].pc = "alloc"
    /\ \E granted \in BOOLEAN :
         calls' = [calls EXCEPT ![s] = IF granted THEN [@ EXCEPT !.pc = "read"] ELSE Done]
    /\ UNCHANGED <<node, perms>>

\* Mutant: a target that fills the buffer is taken to be whole.
WholeWhenFull(tsize, size) == tsize <= size

\* "if (tsize < size) break;"
Whole(tsize, size) == tsize < size

\* readlink(2) fails on what is no link, and cuts the target to the size of the buffer.
target_read(s) ==
    LET size == calls[s].size
        tsize == IF node.len < size THEN node.len ELSE size
    IN  /\ calls[s].pc = "read"
        /\ calls' = [calls EXCEPT ![s] =
             IF node.kind # "link" THEN Done
             ELSE IF Whole(tsize, size)
             THEN [@ EXCEPT !.pc = "target", !.tsize = tsize, !.seen = node.len]
             ELSE [@ EXCEPT !.pc = "alloc", !.size = 2 * size]]
        /\ UNCHANGED <<node, perms>>

\* "target[tsize] = '\0'", and the target is pushed.
target_push(s) ==
    /\ calls[s].pc = "target"
    /\ calls' = [calls EXCEPT ![s] = Done]
    /\ UNCHANGED <<node, perms>>

info_return(s) ==
    /\ calls[s].pc = "done"
    /\ calls' = [calls EXCEPT ![s] = Idle]
    /\ UNCHANGED <<node, perms>>

Working(s) ==
    \/ perm2string_clear(s) \/ perm2string_set(s) \/ push_st_perm(s)
    \/ target_alloc(s) \/ target_read(s) \/ target_push(s) \/ info_return(s)

InfoNext ==
    \/ \E n \in Nodes : replace(n)
    \/ \E s \in Services : link_info(s) \/ link_info_target(s) \/ Working(s)

InfoSpec == InfoInit /\ [][InfoNext]_infoVars

-----------------------------------------------------------------------------
InfoTypeOK == node \in Nodes /\ perms \subseteq Perms /\ calls \in [Services -> Call]

\* The string of permissions claims none but those of the files whose calls were in
\* perm2string at the same time, whatever an earlier call left in the static buffer; it is
\* that of its own file when no other service was.
PermissionsBlend ==
    \A s \in Services :
        calls[s].pc = "push" => /\ perms \subseteq calls[s].overlap
                                /\ calls[s].alone => perms = calls[s].mode

\* The target returned is one the link had, whole and with the terminator inside the
\* buffer, whatever targets the link is given while the buffer grows.
TargetWhole ==
    \A s \in Services :
        calls[s].pc = "target" => /\ calls[s].tsize = calls[s].seen
                                  /\ calls[s].tsize + 1 <= calls[s].size
=============================================================================
