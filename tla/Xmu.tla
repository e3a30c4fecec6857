-------------------------------- MODULE Xmu --------------------------------
(***************************************************************************)
(* Address translation: the objects (segments) of translate_linear, the    *)
(* pages of translate_page over the translation buffer (Tlb), and the      *)
(* instructions that the operating system manages them with (lcca64_xmu_7, *)
(* mtcr and rex).                                                          *)
(*                                                                         *)
(* An address is a number below SPACE: its object is the part above SEG,   *)
(* its page the part above PAGE.  A descriptor is a limit and flags; K is  *)
(* bit 10, which every descriptor has and which stands for the reads of    *)
(* the supervisor level.  A page descriptor of the buffer is a tag and the *)
(* flags P (present) and W (NOT writable).                                 *)
(***************************************************************************)
EXTENDS Tlb

CONSTANTS PAGE,         \* 2^10
          SEG,          \* 2^60
          SPACE,        \* 2^64
          Addresses,    \* the addresses that programs use
          Sizes,        \* of a datum: 1, 2, 4, 8
          Bases,        \* what is written to CR_OB0...
          Descriptors   \* and to CR_OD0...

ASSUME PagesAssumption ==
    /\ PAGE \in Nat \ {0} /\ SEG \in Nat \ {0} /\ SPACE \in Nat \ {0}
    /\ SEG = (SEG \div PAGE) * PAGE
    /\ SPACE = (SPACE \div PAGE) * PAGE
    /\ Tags = 0..(SPACE \div PAGE)-1
ASSUME AddressesAssumption ==
    Addresses \subseteq 0..SPACE-1 /\ Bases \subseteq 0..SPACE-1 /\ 0 \in Bases
NoPage == [tag |-> 0, flags |-> {}]
ASSUME ValuesAssumption ==
    /\ ZeroTag = 0 /\ NoPage \in Values
    /\ \A v \in Values : v.tag \in Tags /\ v.flags \in SUBSET {"P", "W"}

DescriptorFlags == {"P", "E", "D", "C", "B", "w", "x", "R", "W", "X"}
Descriptor == [limit : 0..SEG-1, flags : SUBSET DescriptorFlags]
NoRights == [limit |-> 0, flags |-> {}]

ASSUME DescriptorsAssumption == Descriptors \subseteq Descriptor

AccessTypes == {"READ", "WRITE", "FETCH"}
Objects == 0..((SPACE - 1) \div SEG)
GroupIds == Groups \cup {0}

VARIABLES
    pl, pgid,   \* the problem level and the page group of the status word
    ob, od,     \* the objects: bases and descriptors
    stores      \* history: the stores to an object since its descriptor was
                \* written: none, some that began, some that were translated

xmuVars == <<vars, pl, pgid, ob, od, stores>>
status == <<pl, pgid>>
objects == <<ob, od, stores>>

XmuTypeOK ==
    /\ TypeOK
    /\ pl \in BOOLEAN
    /\ pgid \in GroupIds
    /\ ob \in [Objects -> Bases]
    /\ od \in [Objects -> Descriptor]
    /\ stores \in [Objects -> {"none", "begun", "done"}]

XmuInit ==
    /\ Init
    /\ value = [i \in Row |-> NoPage]
    /\ pl = FALSE
    /\ pgid = 0
    /\ ob = [o \in Objects |-> 0]
    /\ od = [o \in Objects |-> NoRights]
    /\ stores = [o \in Objects |-> "none"]
-----------------------------------------------------------------------------
(* Translation, for an access at level p in group g.                       *)

Tag(a) == a \div PAGE
Object(va) == va \div SEG
Offset(va) == va % SEG

AccessBits == [READ |-> {"R", "K"}, WRITE |-> {"W", "w"}, FETCH |-> {"X", "x"}]
LevelBits(p) == IF p THEN {"R", "x", "w"} ELSE {"X", "W", "K"}
SegmentFault == [READ |-> "RSGV", WRITE |-> "WSGV", FETCH |-> "XSGV"]

\* Mutant: a supervisor store is checked like one of the problem level.
Permitted_OneLevel(flags, access, p) ==
    (flags \cup {"K"}) \cap AccessBits[access] # {}

\* The rights that the object grants, the level counts, and the access needs.
Permitted(flags, access, p) ==
    (flags \cup {"K"}) \cap LevelBits(p) \cap AccessBits[access] # {}

\* What a translation returns: the error, the address, and how it searched the
\* buffer: with no step, or with a key and the row found.
Result(e, a, search) == [e |-> e, addr |-> a, search |-> search]

\* Mutant: the page is searched for in every group.
PageKey_AnyGroup(linear, g) == <<Tag(linear), CHOOSE h \in Groups : TRUE>>

PageKey(linear, g) == <<Tag(linear), g>>

\* translate_page, when the search finds row i.
PageResult(linear, access, g, i) ==
    LET search == <<<<PageKey(linear, g), i>>>> IN
    IF i = None THEN Result("PGNM", linear, search)
    ELSE IF "P" \notin value[i].flags THEN Result("PGNP", linear, search)
    ELSE IF access = "WRITE" /\ "W" \in value[i].flags THEN Result("PGNW", linear, search)
    ELSE Result("none", (value[i].tag * PAGE) + (linear % PAGE), search)

\* The addition is one of 64-bit numbers.
Linear(va) ==
    ((ob[Object(va)] \div PAGE) * PAGE + Offset(va)) % SPACE

\* The checks of translate_linear before a page comes into it.
CheckError(va, size, access, p) ==
    LET d == od[Object(va)] IN
    IF va % size # 0 THEN IF access = "FETCH" THEN "XALT" ELSE "DALT"
    ELSE IF \/ Tag(Offset(va)) > Tag(d.limit)
            \/ ~Permitted(d.flags, access, p)
           THEN SegmentFault[access]
    ELSE "none"

\* Mutant: a page fault reports the address that the program used.
Results_VirtualFault(va, size, access, paging, p, g) ==
    LET e == CheckError(va, size, access, p) IN
    IF g = 0 THEN {Result("none", va, <<>>)}
    ELSE IF e # "none" THEN {Result(e, va, <<>>)}
    ELSE IF "P" \notin od[Object(va)].flags \/ ~paging
      THEN {Result("none", Linear(va), <<>>)}
    ELSE {LET r == PageResult(Linear(va), access, g, i) IN
            IF r.e = "none" THEN r ELSE Result(r.e, va, r.search) :
          i \in Found(PageKey(Linear(va), g))}

\* translate, and translate_linear when paging is off.
Results(va, size, access, paging, p, g) ==
    LET e == CheckError(va, size, access, p) IN
    IF g = 0 THEN {Result("none", va, <<>>)}
    ELSE IF e # "none" THEN {Result(e, va, <<>>)}
    ELSE IF "P" \notin od[Object(va)].flags \/ ~paging
      THEN {Result("none", Linear(va), <<>>)}
    ELSE {PageResult(Linear(va), access, g, i) : i \in Found(PageKey(Linear(va), g))}

StoreBegins(va, size, access) ==
    access = "WRITE" /\ pgid # 0 /\ CheckError(va, size, access, pl) = "none"

\* Mutant: an object without pages returns before it is marked.
Marks_PagedOnly(va, size, access) ==
    StoreBegins(va, size, access) /\ "P" \in od[Object(va)].flags

\* A store marks its object once the checks pass, whatever its page does.
Marks(va, size, access) == StoreBegins(va, size, access)
-----------------------------------------------------------------------------
(* The instructions.                                                       *)

\* intr_internal leaves the problem level and stays in the group.
Enter == pl' = FALSE /\ UNCHANGED pgid

\* An access to storage, or a probe, with its interrupt if it fails.
Access(va, size, access, paging) == \E r \in Results(va, size, access, paging, pl, pgid) :
    /\ op' = IF r.search = <<>> THEN op ELSE <<"search", r.search[1][1], r.search[1][2]>>
    /\ od' = IF Marks(va, size, access)
               THEN [od EXCEPT ![Object(va)].flags = @ \cup {"D"}] ELSE od
    /\ stores' = IF StoreBegins(va, size, access)
                   THEN [stores EXCEPT ![Object(va)] =
                           IF r.e = "none" \/ @ = "done" THEN "done" ELSE "begun"]
                   ELSE stores
    /\ IF r.e = "none" THEN UNCHANGED status ELSE Enter
    /\ UNCHANGED <<key, value, hash, scan, ob>>

LoadStoreFetch == \E va \in Addresses, size \in Sizes, access \in AccessTypes :
    Idle /\ Access(va, size, access, TRUE)

\* lcca64_xmu_7, functions 0 and 1: the address a load of a byte would use.
Probe == \E va \in Addresses, paging \in BOOLEAN :
    Idle /\ ~pl /\ Access(va, 1, "READ", paging)

\* lcca64_xmu_7, functions 2, 3, 5 and 7.  A search is one in the group of the
\* program, functions 4 and 6 only read, and tlb_invpgid takes its time.
ManageBuffer ==
    /\ \/ Idle /\ ~pl /\ (WriteKey \/ WriteValue \/ StartInvalidate)
       \/ Idle /\ ~pl /\ Lookup /\ Pgid(op'[2]) = pgid
       \/ InvalidateRow
    /\ UNCHANGED <<status, objects>>

\* A privileged instruction at the problem level.
Privileged ==
    /\ Idle /\ pl
    /\ Enter
    /\ UNCHANGED <<vars, objects>>

\* mtcr to the status word, or rex with the word of CR_APSQ.
SetStatus ==
    /\ Idle /\ ~pl
    /\ pl' \in BOOLEAN
    /\ pgid' \in GroupIds
    /\ UNCHANGED <<vars, objects>>

\* mtcr to a base or to a descriptor.
SetBase == \E o \in Objects, b \in Bases :
    /\ Idle /\ ~pl
    /\ ob' = [ob EXCEPT ![o] = b]
    /\ UNCHANGED <<vars, status, od, stores>>

SetDescriptor == \E o \in Objects, d \in Descriptors :
    /\ Idle /\ ~pl
    /\ od' = [od EXCEPT ![o] = d]
    /\ stores' = [stores EXCEPT ![o] = IF "D" \in d.flags THEN "begun" ELSE "none"]
    /\ UNCHANGED <<vars, status, ob>>

XmuNext ==
    \/ LoadStoreFetch \/ Probe \/ ManageBuffer \/ Privileged
    \/ SetStatus \/ SetBase \/ SetDescriptor

XmuSpec == XmuInit /\ [][XmuNext]_xmuVars
-----------------------------------------------------------------------------
(* Properties.                                                             *)

\* Who may do what with an object.
Grants(flags, access, p) ==
    \/ access = "READ"  /\ (p => "R" \in flags)
    \/ access = "WRITE" /\ (IF p THEN "w" ELSE "W") \in flags
    \/ access = "FETCH" /\ (IF p THEN "x" ELSE "X") \in flags

\* Where a page of group g is: the rows that hold it, looked for one by one.
RowsOf(linear, g) == {i \in Row : key[i] = <<Tag(linear), g>>}

\* A translated address is one that the objects and the pages of the program's group
\* grant: no sequence of mtcr, tlb_set and tlb_invpgid lets translate reach a page of
\* another group, a page that is gone, or memory outside the object, and a store
\* does not reach a page that is not writable.
TranslationCorrect == Idle =>
    \A va \in Addresses, size \in Sizes, access \in AccessTypes, p \in BOOLEAN, g \in Groups :
    \A r \in Results(va, size, access, TRUE, p, g) :
    LET d == od[Object(va)] IN
        r.e = "none" =>
          /\ va % size = 0
          /\ Tag(Offset(va)) <= Tag(d.limit)
          /\ Grants(d.flags, access, p)
          /\ IF "P" \notin d.flags THEN r.addr = Linear(va)
             ELSE \E i \in RowsOf(Linear(va), g) :
                    /\ r.addr = (value[i].tag * PAGE) + (va % PAGE)
                    /\ "P" \in value[i].flags
                    /\ access = "WRITE" => "W" \notin value[i].flags

\* If this step gives row i the page of a fault of an access, the access finds it.
Repaired(i, va, access, p, g) ==
    \A r \in Results(va, 1, access, TRUE, p, g) :
        r.e = "PGNM" /\ key'[i] = <<Tag(r.addr), g>> =>
            Results(va, 1, access, TRUE, p, g)' = {PageResult(Linear(va), access, g, i)'}

\* A handler that gives a free row the page of the fault address has repaired the
\* fault: the same access, retried, finds that row.  It relates what translate_page
\* reports to what it will search for.
HandlerRepairsFault ==
    [][\A i \in {j \in Row : key'[j] # key[j]} :
       \A va \in Addresses, access \in AccessTypes, p \in BOOLEAN, g \in Groups :
         Repaired(i, va, access, p, g)]_xmuVars

\* An operating system that finds an object without its D flag has not missed a store,
\* although faults come between the mark and the store; an object has it only if a
\* store to it began.
DirtyTellsStores ==
    \A o \in Objects :
        /\ stores[o] = "done" => "D" \in od[o].flags
        /\ "D" \in od[o].flags => stores[o] # "none"
=============================================================================
