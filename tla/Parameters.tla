----------------------------- MODULE Parameters ------------------------------
(***************************************************************************)
(* A volume's settings: from the StorageClass and the Secret of            *)
(* CreateVolume, through the attributes of the PersistentVolume, to the    *)
(* mount command of NodePublishVolume (plugin/kodo_parameters.go,          *)
(* plugin/kodofs_parameters.go, the volumeContext of both controllers).    *)
(*                                                                         *)
(* StorageClass and attributes are Go maps, read in any order, the names   *)
(* of their keys folded to lower case: two keys may name one field.  The   *)
(* Secret is looked up by exact name for what they leave open, at          *)
(* CreateVolume and again at every publish, and may be edited in between.  *)
(*                                                                         *)
(* A text stands for what it parses to: a number, or Bad.  0 is the empty  *)
(* text, address or mode, the switch "false" and the number zero (a number *)
(* or a switch that is empty is Bad).  One field stands for all that are   *)
(* parsed alike: accesskey for secretkey, mntsvraddr for mastersvraddr,    *)
(* readonly for the eight plain switches, transfers for the optional       *)
(* sizes, counts and durations.                                            *)
(***************************************************************************)
EXTENDS Integers, FiniteSets

CONSTANTS
    MaxEntries,  \* entries of a StorageClass
    MaxEdits,    \* edits of the Secret
    FsTypeSpan,  \* the numbers an fsType can hold (2^8) ...
    BlockSpan,   \* ... and a blockSize (2^32)
    BlockSize,   \* the default of blockSize (1 << 22)
    Nil,         \* no value: a nil pointer, an absent key
    Bad          \* a text that does not parse

ASSUME WidthAssumption ==
    /\ {MaxEntries, MaxEdits} \subseteq Nat
    /\ {FsTypeSpan, BlockSpan} \subseteq Nat \ {0}
    /\ BlockSize \in 1..BlockSpan - 1
    /\ Nil \notin Int /\ Bad \notin Int /\ Nil # Bad

Type ==
    [kodo |->
        [accesskey |-> "text", ucendpoint |-> "url", region |-> "text",
         storageclass |-> "text", subdir |-> "text", s3forcepathstyle |-> "flag",
         vfscachemode |-> "mode", readonly |-> "bool", transfers |-> "number"],
     kodofs |->
        [accesskey |-> "text", region |-> "text", mntsvraddr |-> "url",
         fstype |-> "cut", blocksize |-> "cut"]]

Drivers == DOMAIN Type
Fields(d) == DOMAIN Type[d]
Pointers  == {"url", "flag", "number"}

\* Neither Nil nor Bad is taken for parsed parameters.
ASSUME MarkAssumption ==
    \A d \in Drivers : \A mark \in {Nil, Bad} : mark \notin [Fields(d) -> Int \cup {Nil}]

\* The modes of vfscachemode: "", "off" and "full".
Off == 1

\* The region z0 and the storage class STANDARD, when none is given.
DefaultText == 8

\* The IAM user's key pair, which no StorageClass or Secret holds.
IamKey == 9

Span(f) == IF f = "fstype" THEN FsTypeSpan ELSE BlockSpan

\* The texts a field is given.
Texts(d, f) ==
    CASE Type[d][f] = "text"               -> 0..2
      [] Type[d][f] \in {"flag", "bool"}   -> {0, 1, Bad}
      [] Type[d][f] = "cut"                -> {0, 1, Span(f) - 1, Span(f), Bad}
      [] OTHER                             -> {0, 1, 2, Bad}

VARIABLES
    driver,   \* which of the two drivers serves the volume
    class,    \* the StorageClass: a set of entries <<field, text>>
    secret,   \* the Secret: the fields it has, and their texts
    edits,    \* how often the Secret was edited
    pc,       \* the parser's next step
    todo,     \* entries of the map the loop has not visited
    param,    \* the parameters parsed so far
    created,  \* the parameters the volume was created with
    attrs,    \* the attributes of the PersistentVolume
    mount     \* what the last publish read from them; Bad if it failed

vars == <<driver, class, secret, edits, pc, todo, param, created, attrs, mount>>

\* The zero value of a field.
Zero(d, f) == IF Type[d][f] \in Pointers THEN Nil ELSE 0

ZeroParam(d) == [f \in Fields(d) |-> Zero(d, f)]

\* Faulty: the numbers are not cut.
ParseUncut(d, f, text) == IF Type[d][f] = "mode" /\ text = 0 THEN Off ELSE text

\* What a text that parses means.
Parse(d, f, text) ==
    CASE Type[d][f] = "mode" -> IF text = 0 THEN Off ELSE text
      [] Type[d][f] = "cut"  -> text % Span(f)
      [] OTHER               -> text

Values(d, f) ==
    (IF Type[d][f] = "cut" THEN 0..Span(f) - 1 ELSE Texts(d, f) \ {Bad})
        \cup {Zero(d, f)} \cup (IF f = "accesskey" THEN {IamKey} ELSE {})
        \cup (IF f \in {"region", "storageclass"} THEN {DefaultText} ELSE {})

-----------------------------------------------------------------------------
(* The Secret, and the defaults *)

Has(s, f) == s[f] # Nil

\* The fields CreateVolume and the publish of Kodo must find somewhere; KodoFS
\* has no defaults, and neither driver checks that a text is not blank.
Required(d) ==
    IF d = "kodo" THEN {"accesskey", "ucendpoint"} ELSE {"accesskey", "region", "mntsvraddr"}

\* The fields that are looked up in the Secret.
InSecret(d) ==
    Required(d) \cup
        (IF d = "kodo" THEN {"region", "storageclass", "subdir", "s3forcepathstyle"} ELSE {})

Default(d, f) ==
    IF d = "kodo" /\ f \in {"region", "storageclass"} THEN DefaultText ELSE Zero(d, f)

\* The map left it open: not there, or blank if it is a text.  A blank address
\* is one: url.Parse makes a pointer that is not nil of it.
Open(d, p, f) == p[f] = Zero(d, f)

\* Faulty: the Secret wins over the StorageClass.
FromSecretFirst(d, p, s, f) ==
    CASE f \in InSecret(d) /\ (Has(s, f) \/ Open(d, p, f)) ->
            IF Has(s, f) THEN Parse(d, f, s[f]) ELSE Default(d, f)
      [] f = "blocksize" /\ Open(d, p, f) -> BlockSize
      [] OTHER -> p[f]

\* A field after the Secret and the defaults.
FromSecret(d, p, s, f) ==
    CASE f \in InSecret(d) /\ Open(d, p, f) ->
            IF Has(s, f) THEN Parse(d, f, s[f]) ELSE Default(d, f)
      [] f = "blocksize" /\ Open(d, p, f) -> BlockSize
      [] OTHER -> p[f]

Completed(d, p, s) == [f \in Fields(d) |-> FromSecret(d, p, s, f)]

\* A required field that is nowhere, or a text of the Secret that is needed and
\* does not parse.
Incomplete(d, p, s) ==
    \E f \in InSecret(d) :
        /\ Open(d, p, f)
        /\ \/ s[f] = Bad
           \/ f \in Required(d) /\ ~ Has(s, f)

-----------------------------------------------------------------------------
(* CreateVolume *)

\* The case of the switch for one entry.
ParseEntry(d, p, entry) == [p EXCEPT ![entry[1]] = Parse(d, entry[1], entry[2])]

\* Entry by entry, in any order; the first text that does not parse ends the call.
VisitEntry ==
    /\ pc = "scan"
    /\ \E entry \in todo :
        IF entry[2] = Bad
           THEN pc' = "idle" /\ todo' = {} /\ param' = ZeroParam(driver)
           ELSE /\ todo' = todo \ {entry}
                /\ param' = ParseEntry(driver, param, entry)
                /\ UNCHANGED pc
    /\ UNCHANGED <<driver, class, secret, edits, created, attrs, mount>>

CreateVolumeBegin ==
    /\ pc = "idle" /\ attrs = Nil
    /\ pc' = "scan" /\ todo' = class /\ param' = ZeroParam(driver)
    /\ UNCHANGED <<driver, class, secret, edits, created, attrs, mount>>

\* Faulty: a setting that is zero is taken for one that is not there.
AttributesNonzero(d, p) ==
    [f \in Fields(d) |->
        CASE p[f] \in {Nil, 0} -> Nil
          [] d = "kodo" /\ f = "accesskey" -> IamKey
          [] OTHER -> p[f]]

\* Faulty: the key is left to the Secret.
AttributesNoKey(d, p) ==
    [f \in Fields(d) |-> IF f = "accesskey" THEN Nil ELSE p[f]]

\* The volumeContext.  A text is always written, a pointer unless it is nil, a
\* switch only when it is on.  Kodo replaces the key by that of the IAM user.
Attributes(d, p) ==
    [f \in Fields(d) |->
        CASE Type[d][f] = "bool" /\ p[f] = 0 -> Nil
          [] d = "kodo" /\ f = "accesskey"   -> IamKey
          [] OTHER                           -> p[f]]

\* The services accept neither a blank key nor a blank region, and none answers
\* at a blank address; that of the mount server is only passed on.
Accepted(d, p) == \A f \in Fields(d) \cap {"accesskey", "region", "ucendpoint"} : p[f] # 0

\* The loop is through: the Secret and the defaults, then the requests to the
\* services.
CreateVolumeEnd ==
    LET p == Completed(driver, param, secret)
        accepted == ~ Incomplete(driver, param, secret) /\ Accepted(driver, p)
    IN  /\ pc = "scan" /\ todo = {}
        /\ pc' = "idle" /\ param' = ZeroParam(driver)
        /\ created' = IF accepted THEN p ELSE created
        /\ attrs' = IF accepted THEN Attributes(driver, p) ELSE attrs
        /\ UNCHANGED <<driver, class, secret, edits, todo, mount>>

-----------------------------------------------------------------------------
(* NodePublishVolume and DeleteVolume: the attributes are parsed again *)

\* Nothing a driver wrote is Bad, and no two attributes name one field: the order
\* of the loop does not matter here.
ParsedAttributes(d, a) ==
    [f \in Fields(d) |-> IF a[f] = Nil THEN Zero(d, f) ELSE Parse(d, f, a[f])]

\* Kodo runs the parser of the StorageClass on the attributes.  Left out is what
\* follows: the bucket, the S3 endpoint and the S3 region, from the attributes,
\* from the Secret or looked up.
PublishReadsKodo(a, s) ==
    LET p == ParsedAttributes("kodo", a)
    IN  IF Incomplete("kodo", p, s) THEN Bad ELSE Completed("kodo", p, s)

\* KodoFS does so without the Secret, ignores its errors, and then asks the
\* Secret for the address of the mount server.  (Also for the gateway and the
\* access token, which are left out: CreateVolume writes both attributes.)
PublishReadsKodoFS(a, s) ==
    LET p == ParsedAttributes("kodofs", a)
        read(f) == FromSecret("kodofs", p, s, f)
    IN  IF Open("kodofs", p, "mntsvraddr") /\ s["mntsvraddr"] \in {Nil, Bad}
           THEN Bad
           ELSE [p EXCEPT !.mntsvraddr = read("mntsvraddr"), !.blocksize = read("blocksize")]

PublishReads(d, a, s) ==
    IF d = "kodo" THEN PublishReadsKodo(a, s) ELSE PublishReadsKodoFS(a, s)

\* The field S3ForcePathStyle of the mount command is a plain bool: an option
\* that nobody set is false.  The switches of rclone are passed on as they are.
MountCommand(p) ==
    IF "s3forcepathstyle" \in DOMAIN p /\ p["s3forcepathstyle"] = Nil
       THEN [p EXCEPT !["s3forcepathstyle"] = 0]
       ELSE p

Publish ==
    /\ pc = "idle" /\ attrs # Nil
    /\ LET p == PublishReads(driver, attrs, secret)
       IN  mount' = IF p = Bad THEN Bad ELSE MountCommand(p)
    /\ UNCHANGED <<driver, class, secret, edits, pc, todo, param, created, attrs>>

-----------------------------------------------------------------------------
(* The administrator *)

\* The Secret of the examples: the fields that must be somewhere.
ExampleSecret(d) == [f \in Fields(d) |-> IF f \in Required(d) THEN 1 ELSE Nil]

Entries(d) == UNION {{f} \X Texts(d, f) : f \in Fields(d)}

\* The StorageClass gets one more entry, before the volume is there.
WriteClass ==
    /\ pc = "idle" /\ attrs = Nil
    /\ Cardinality(class) < MaxEntries
    /\ \E entry \in Entries(driver) \ class : class' = class \cup {entry}
    /\ UNCHANGED <<driver, secret, edits, pc, todo, param, created, attrs, mount>>

\* A field of the Secret is changed, added or left out, at any time.
EditSecret ==
    /\ pc = "idle"
    /\ edits < MaxEdits
    /\ edits' = edits + 1
    /\ \E f \in InSecret(driver) : \E text \in (Texts(driver, f) \cup {Nil}) \ {secret[f]} :
          secret' = [secret EXCEPT ![f] = text]
    /\ mount' = Nil
    /\ UNCHANGED <<driver, class, pc, todo, param, created, attrs>>

Init ==
    /\ driver \in Drivers
    /\ class = {} /\ secret = ExampleSecret(driver)
    /\ edits = 0
    /\ pc = "idle" /\ todo = {} /\ param = ZeroParam(driver)
    /\ created = Nil /\ attrs = Nil /\ mount = Nil

Next ==
    CreateVolumeBegin \/ VisitEntry \/ CreateVolumeEnd \/ Publish \/ WriteClass \/ EditSecret

Spec == Init /\ [][Next]_vars

-----------------------------------------------------------------------------
(* Properties *)

Published == mount \notin {Nil, Bad}

\* Every parameter is a value of its Go type: fsType and blockSize fit their 8 and
\* 32 bits whatever number the StorageClass holds.
TypeOK ==
    /\ driver \in Drivers
    /\ class \subseteq Entries(driver) /\ todo \subseteq class
    /\ \A f \in Fields(driver) : secret[f] \in Texts(driver, f) \cup {Nil}
    /\ edits \in 0..MaxEdits
    /\ pc \in {"idle", "scan"}
    /\ \A f \in Fields(driver) :
        /\ param[f] \in Values(driver, f)
        /\ created # Nil => created[f] \in Values(driver, f)
        /\ attrs # Nil => attrs[f] \in Values(driver, f) \cup {Nil}
        /\ Published => mount[f] \in Values(driver, f)

\* The settings that a volume may be created without and that publish then asks
\* the Secret for.
LeftOpen(f) ==
    /\ driver = "kodo"
    /\ f \in {"storageclass", "subdir", "s3forcepathstyle"}
    /\ Open(driver, created, f)

\* A volume is mounted with the parameters it was created with, although they went
\* through the attributes' texts and the Secret was edited since: zero sizes and
\* switches that are off, block sizes that were cut, everything but the key (that
\* of the IAM user), a mode nobody chose (now off) and what was left open.
RoundTrip ==
    Published => \A f \in Fields(driver) :
        LeftOpen(f) \/ mount[f] = CASE driver = "kodo" /\ f = "accesskey" -> IamKey
                                    [] f = "vfscachemode" /\ created[f] = 0 -> Off
                                    [] OTHER -> created[f]

\* An entry that says nothing: a blank text, or a block size that is cut to zero,
\* which stands for the default.
Blank(e) ==
    \/ Type[driver][e[1]] = "text" /\ e[2] = 0
    \/ e[1] = "blocksize" /\ e[2] % BlockSpan = 0

\* What the StorageClass says, the mount does, in whatever order the map was
\* visited: a field with an entry has the value of that entry, or of another one
\* for the same field, whatever the Secret, its edits and the defaults say.  So
\* does "false", the number 0 and an empty address; only a blank entry leaves
\* the field to the others, and the key of a Kodo volume is that of its IAM user.
ClassWins ==
    Published => \A e \in class :
        \/ driver = "kodo" /\ e[1] = "accesskey"
        \/ \E said \in class :
              /\ said[1] = e[1] /\ said[2] # Bad
              /\ Blank(said) \/ mount[e[1]] = Parse(driver, e[1], said[2])

\* A volume that was created can be published, and deleted, whatever happened to
\* the Secret since: the attributes hold all that is needed.  The exception is a
\* path style that was left open and is now a text that does not parse.
CreatedVolumeParses ==
    mount = Bad => LeftOpen("s3forcepathstyle") /\ secret["s3forcepathstyle"] = Bad
=============================================================================
