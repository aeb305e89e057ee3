------------------------- MODULE ParametersProofs ---------------------------
(***************************************************************************)
(* Proofs about Parameters, for StorageClasses of any size, any edits of   *)
(* the Secret, any widths of fsType and blockSize and any default block    *)
(* size: what CreateVolume formats into the attributes is what publish     *)
(* parses out of them, an entry of the StorageClass wins, and a volume     *)
(* that was created can be published.                                      *)
(*                                                                         *)
(* The lemmas about a single field (what a text parses to, what becomes of *)
(* a value that is formatted and parsed again) are proved once, by the     *)
(* type of the field; the invariant then speaks of fields only.            *)
(***************************************************************************)
EXTENDS Parameters, TLAPS

-----------------------------------------------------------------------------
(***************************************************************************)
(* The inductive invariant                                                 *)
(***************************************************************************)

\* Parameters of driver d, each a value of its Go type.
Params(d) ==
    {p \in [Fields(d) -> Int \cup {Nil}] : \A f \in Fields(d) : p[f] \in Values(d, f)}

\* What CreateVolume does not create a volume without.
Settled(d, p) ==
    /\ p \in Params(d)
    /\ d = "kodo" => p["accesskey"] # 0 /\ p["region"] # 0 /\ p["ucendpoint"] # Nil
    /\ d = "kodofs" => p["mntsvraddr"] # Nil /\ p["blocksize"] # 0

\* What publish makes of attributes a and Secret s.
Mount(d, a, s) ==
    LET p == PublishReads(d, a, s) IN IF p = Bad THEN Bad ELSE MountCommand(p)

Types ==
    /\ driver \in Drivers
    /\ class \subseteq Entries(driver) /\ todo \subseteq class
    /\ secret \in [Fields(driver) -> Int \cup {Nil, Bad}]
    /\ \A f \in Fields(driver) : secret[f] \in Texts(driver, f) \cup {Nil}
    /\ edits \in 0..MaxEdits
    /\ pc \in {"idle", "scan"}
    /\ param \in Params(driver)

\* The attributes are those of the parameters the volume was created with.
Recorded ==
    \/ created = Nil /\ attrs = Nil
    \/ /\ created # Nil /\ Settled(driver, created)
       /\ attrs # Nil /\ attrs = Attributes(driver, created)

\* A mount is what publish reads now: an edit of the Secret forgets it.
Current == mount # Nil => attrs # Nil /\ mount = Mount(driver, attrs, secret)

\* An entry for field f of the StorageClass that was parsed to value.
Said(f, value) ==
    \E e \in class : e[1] = f /\ e[2] # Bad /\ value = Parse(driver, f, e[2])

\* The loop, which runs for a volume that is not there, has taken each field that
\* was named so far from one of its entries.
Scanned ==
    pc = "scan" => attrs = Nil /\ \A e \in class \ todo : Said(e[1], param[e[1]])

\* So has the volume, unless that entry left open what the Secret or the default
\* block size completes.
Honoured ==
    created # Nil => \A e \in class :
        \/ Said(e[1], created[e[1]])
        \/ /\ e[1] \in InSecret(driver) \cup {"blocksize"}
           /\ Said(e[1], Zero(driver, e[1]))

ParamInv == Types /\ Recorded /\ Current /\ Scanned /\ Honoured

-----------------------------------------------------------------------------
(***************************************************************************)
(* A field: its texts, its values, and a value that is read back           *)
(***************************************************************************)

\* The fields of the two drivers.
LEMMA FieldTable ==
  /\ Drivers = {"kodo", "kodofs"}
  /\ Fields("kodo") = {"accesskey", "ucendpoint", "region", "storageclass", "subdir",
                       "s3forcepathstyle", "vfscachemode", "readonly", "transfers"}
  /\ Fields("kodofs") = {"accesskey", "region", "mntsvraddr", "fstype", "blocksize"}
<1>1. Drivers = {"kodo", "kodofs"}
  BY DEF Drivers, Type
<1>2. Fields("kodo") = {"accesskey", "ucendpoint", "region", "storageclass", "subdir",
                        "s3forcepathstyle", "vfscachemode", "readonly", "transfers"}
  BY DEF Fields, Type
<1>3. Fields("kodofs") = {"accesskey", "region", "mntsvraddr", "fstype", "blocksize"}
  BY DEF Fields, Type
<1> QED
  BY <1>1, <1>2, <1>3

\* Each field with the way it is parsed.
LEMMA FieldCases ==
    ASSUME NEW d \in Drivers, NEW f \in Fields(d)
    PROVE  \/ d = "kodo" /\ f = "accesskey" /\ Type[d][f] = "text"
           \/ d = "kodo" /\ f = "ucendpoint" /\ Type[d][f] = "url"
           \/ d = "kodo" /\ f = "region" /\ Type[d][f] = "text"
           \/ d = "kodo" /\ f = "storageclass" /\ Type[d][f] = "text"
           \/ d = "kodo" /\ f = "subdir" /\ Type[d][f] = "text"
           \/ d = "kodo" /\ f = "s3forcepathstyle" /\ Type[d][f] = "flag"
           \/ d = "kodo" /\ f = "vfscachemode" /\ Type[d][f] = "mode"
           \/ d = "kodo" /\ f = "readonly" /\ Type[d][f] = "bool"
           \/ d = "kodo" /\ f = "transfers" /\ Type[d][f] = "number"
           \/ d = "kodofs" /\ f = "accesskey" /\ Type[d][f] = "text"
           \/ d = "kodofs" /\ f = "region" /\ Type[d][f] = "text"
           \/ d = "kodofs" /\ f = "mntsvraddr" /\ Type[d][f] = "url"
           \/ d = "kodofs" /\ f = "fstype" /\ Type[d][f] = "cut"
           \/ d = "kodofs" /\ f = "blocksize" /\ Type[d][f] = "cut"
<1>1. CASE d = "kodo"
  BY <1>1, FieldTable DEF Type
<1>2. CASE d = "kodofs"
  BY <1>2, FieldTable DEF Type
<1> QED
  BY <1>1, <1>2, FieldTable

\* A text that parses means a number the field can hold.
LEMMA TextValue ==
    ASSUME NEW d \in Drivers, NEW f \in Fields(d), NEW text \in Texts(d, f), text # Bad
    PROVE  text \in Nat /\ Parse(d, f, text) \in Nat /\ Parse(d, f, text) \in Values(d, f)
  BY SMTT(30), FieldCases, WidthAssumption DEF Texts, Parse, Values, Span, Off

\* What a field can hold: a number, or nothing if it is a pointer.
LEMMA ValueType ==
    ASSUME NEW d \in Drivers, NEW f \in Fields(d), NEW v \in Values(d, f)
    PROVE  v \in Nat \/ (v = Nil /\ Type[d][f] \in Pointers /\ Zero(d, f) = Nil)
  BY FieldCases, WidthAssumption DEF Texts, Values, Span, Zero, Pointers, IamKey, DefaultText

\* A value that is formatted is parsed to itself, the empty mode to "off".
LEMMA Reparse ==
    ASSUME NEW d \in Drivers, NEW f \in Fields(d), NEW v \in Values(d, f), v # Nil
    PROVE  Parse(d, f, v) = IF f = "vfscachemode" /\ v = 0 THEN Off ELSE v
  BY FieldCases, WidthAssumption DEF Texts, Values, Span, Zero, Pointers, Parse, IamKey, DefaultText

\* Zero values are values.
LEMMA ZeroValue ==
    ASSUME NEW d \in Drivers, NEW f \in Fields(d)
    PROVE  Zero(d, f) \in Values(d, f) /\ Zero(d, f) \in Int \cup {Nil}
  BY DEF Values, Zero

-----------------------------------------------------------------------------
(***************************************************************************)
(* CreateVolume and publish                                                *)
(***************************************************************************)

\* A Secret, as far as it can be read.
Readable(d, s) ==
    /\ s \in [Fields(d) -> Int \cup {Nil, Bad}]
    /\ \A f \in Fields(d) : s[f] \in Texts(d, f) \cup {Nil}

\* The value of field f of a volume created with p, read back from the attributes.
Meant(d, p, f) ==
    CASE d = "kodo" /\ f = "accesskey" -> IamKey
      [] f = "vfscachemode" /\ p[f] = 0 -> Off
      [] OTHER -> p[f]

\* What a volume may have been created without.
Without(d, p, f) ==
    d = "kodo" /\ f \in {"storageclass", "subdir", "s3forcepathstyle"} /\ Open(d, p, f)

\* The attributes of a volume are read back as they were written.
LEMMA ReadBack ==
    ASSUME NEW d \in Drivers, NEW p \in Params(d), NEW f \in Fields(d)
    PROVE  /\ Attributes(d, p)[f] \in Values(d, f) \cup {Nil}
           /\ ParsedAttributes(d, Attributes(d, p))[f] = Meant(d, p, f)
           /\ Meant(d, p, f) \in Values(d, f) /\ Meant(d, p, f) \in Int \cup {Nil}
<1> DEFINE a == Attributes(d, p)[f]
<1>1. p[f] \in Values(d, f)
  BY DEF Params
<1>2. a = CASE Type[d][f] = "bool" /\ p[f] = 0 -> Nil
            [] d = "kodo" /\ f = "accesskey"   -> IamKey
            [] OTHER                           -> p[f]
  BY DEF Attributes
<1>3. ParsedAttributes(d, Attributes(d, p))[f] = IF a = Nil THEN Zero(d, f) ELSE Parse(d, f, a)
  BY DEF ParsedAttributes
<1>4. f = "accesskey" => IamKey \in Values(d, f)
  BY DEF Values
<1>5. a \in Values(d, f) \cup {Nil}
  BY <1>1, <1>2, <1>4
<1>6. f = "vfscachemode" => Off \in Values(d, f)
  BY FieldCases, WidthAssumption DEF Values, Texts, Off
<1>7. Meant(d, p, f) \in Values(d, f)
  BY <1>1, <1>4, <1>6, FieldCases DEF Meant
<1>8. Meant(d, p, f) \in Int \cup {Nil}
  BY <1>7, ValueType
<1> HIDE DEF a
<1>9. CASE d = "kodo" /\ f = "accesskey"
  <2>1. a = IamKey /\ a # Nil
    BY <1>2, <1>9, FieldCases, WidthAssumption DEF IamKey
  <2>2. Parse(d, f, a) = IamKey
    BY <1>5, <1>9, <2>1, Reparse
  <2> QED
    BY <1>3, <1>5, <1>7, <1>8, <1>9, <2>1, <2>2 DEF Meant, a
<1>10. CASE ~ (d = "kodo" /\ f = "accesskey") /\ p[f] = Nil
  <2>1. a = Nil /\ Zero(d, f) = Nil
    BY <1>1, <1>2, <1>10, ValueType, WidthAssumption
  <2> QED
    BY <1>3, <1>5, <1>7, <1>8, <1>10, <2>1, WidthAssumption DEF Meant, a
<1>11. CASE Type[d][f] = "bool" /\ p[f] = 0
  <2>1. a = Nil /\ Zero(d, f) = 0 /\ f = "readonly"
    BY <1>2, <1>11, FieldCases DEF Zero, Pointers
  <2> QED
    BY <1>3, <1>5, <1>7, <1>8, <1>11, <2>1 DEF Meant, a
<1>12. CASE ~ (d = "kodo" /\ f = "accesskey") /\ p[f] # Nil /\ ~ (Type[d][f] = "bool" /\ p[f] = 0)
  <2>1. a = p[f]
    BY <1>2, <1>12
  <2>2. Parse(d, f, a) = IF f = "vfscachemode" /\ p[f] = 0 THEN Off ELSE p[f]
    BY <1>1, <1>12, <2>1, Reparse
  <2> QED
    BY <1>3, <1>5, <1>7, <1>8, <1>12, <2>1, <2>2 DEF Meant, a
<1> QED
  BY <1>9, <1>10, <1>11, <1>12

\* blockSize, the one field with a default of its own, is not in the Secret.
LEMMA BlockSizeAlone == \A d \in Drivers : "blocksize" \notin InSecret(d)
  BY DEF InSecret, Required

\* A field the Secret or a default completes is a value, if it is not incomplete.
LEMMA CompletedField ==
    ASSUME NEW d \in Drivers, NEW p \in Params(d), NEW s, Readable(d, s), NEW f \in Fields(d),
           f \in InSecret(d) /\ Open(d, p, f) => s[f] # Bad
    PROVE  /\ FromSecret(d, p, s, f) \in Values(d, f)
           /\ FromSecret(d, p, s, f) \in Int \cup {Nil}
<1>1. p[f] \in Values(d, f) /\ s[f] \in Texts(d, f) \cup {Nil}
  BY DEF Params, Readable
<1>2. FromSecret(d, p, s, f) \in Values(d, f)
  <2>1. CASE f \in InSecret(d) /\ Open(d, p, f)
    <3>1. CASE Has(s, f)
      <4>1. FromSecret(d, p, s, f) = Parse(d, f, s[f])
        BY <2>1, <3>1, BlockSizeAlone DEF FromSecret
      <4>2. s[f] \in Texts(d, f) /\ s[f] # Bad
        BY <1>1, <2>1, <3>1 DEF Has
      <4> QED
        BY <4>1, <4>2, TextValue
    <3>2. CASE ~ Has(s, f)
      <4>1. FromSecret(d, p, s, f) = Default(d, f)
        BY <2>1, <3>2, BlockSizeAlone DEF FromSecret
      <4> QED
        BY <4>1, ZeroValue DEF Default, Values
    <3> QED
      BY <3>1, <3>2
  <2>2. CASE ~ (f \in InSecret(d) /\ Open(d, p, f)) /\ f = "blocksize" /\ Open(d, p, f)
    BY <2>2, FieldCases, WidthAssumption DEF FromSecret, Values, Span
  <2>3. CASE ~ (f \in InSecret(d) /\ Open(d, p, f)) /\ ~ (f = "blocksize" /\ Open(d, p, f))
    BY <1>1, <2>3 DEF FromSecret
  <2> QED
    BY <2>1, <2>2, <2>3
<1> QED
  BY <1>2, ValueType

\* So are all of them.
LEMMA CompletedParams ==
    ASSUME NEW d \in Drivers, NEW p \in Params(d), NEW s, Readable(d, s), ~ Incomplete(d, p, s)
    PROVE  Completed(d, p, s) \in Params(d)
<1>1. ASSUME NEW f \in Fields(d)
      PROVE  /\ FromSecret(d, p, s, f) \in Values(d, f)
             /\ FromSecret(d, p, s, f) \in Int \cup {Nil}
  <2>1. f \in InSecret(d) /\ Open(d, p, f) => s[f] # Bad
    BY DEF Incomplete
  <2> QED
    BY <2>1, CompletedField
<1> QED
  BY <1>1 DEF Completed, Params

\* The fields that must be somewhere, and the default block size, are there when
\* CreateVolume goes on.
LEMMA CreatedSettled ==
    ASSUME NEW d \in Drivers, NEW p \in Params(d), NEW s, Readable(d, s), ~ Incomplete(d, p, s),
           Accepted(d, Completed(d, p, s))
    PROVE  Settled(d, Completed(d, p, s))
<1> DEFINE c == Completed(d, p, s)
<1>1. c \in Params(d)
  BY CompletedParams
<1>2. \A f \in Fields(d) : c[f] = FromSecret(d, p, s, f)
  BY DEF Completed
<1>3. ASSUME NEW f \in Fields(d), f \in Required(d), Zero(d, f) = Nil PROVE c[f] # Nil
  <2>1. f \in InSecret(d)
    BY <1>3 DEF InSecret
  <2>2. CASE Open(d, p, f)
    <3>1. s[f] # Bad /\ Has(s, f)
      BY <1>3, <2>1, <2>2 DEF Incomplete
    <3>2. s[f] \in Texts(d, f)
      BY <3>1 DEF Readable, Has
    <3>3. c[f] = Parse(d, f, s[f])
      BY <1>2, <2>1, <2>2, <3>1, BlockSizeAlone DEF FromSecret
    <3> QED
      BY <3>1, <3>2, <3>3, TextValue, WidthAssumption
  <2>3. CASE ~ Open(d, p, f)
    BY <1>2, <1>3, <2>3 DEF FromSecret, Open
  <2> QED
    BY <2>2, <2>3
<1> HIDE DEF c
<1>4. CASE d = "kodo"
  <2>1. "ucendpoint" \in Fields(d) /\ "ucendpoint" \in Required(d)
    BY <1>4, FieldTable DEF Required
  <2>2. Zero(d, "ucendpoint") = Nil
    BY <1>4, <2>1, FieldCases DEF Zero, Pointers
  <2>3. c["accesskey"] # 0 /\ c["region"] # 0
    BY <1>4, FieldTable DEF Accepted, c
  <2> QED
    BY <1>1, <1>3, <1>4, <2>1, <2>2, <2>3 DEF Settled, c
<1>5. CASE d = "kodofs"
  <2>1. /\ "mntsvraddr" \in Fields(d) /\ "mntsvraddr" \in Required(d)
        /\ "blocksize" \in Fields(d)
    BY <1>5, FieldTable DEF Required
  <2>2. Zero(d, "mntsvraddr") = Nil /\ Zero(d, "blocksize") = 0
    BY <1>5, <2>1, FieldCases DEF Zero, Pointers
  <2>3. c["blocksize"] # 0
    <3>1. c["blocksize"] = IF Open(d, p, "blocksize") THEN BlockSize ELSE p["blocksize"]
      BY <1>2, <2>1, BlockSizeAlone DEF FromSecret
    <3> QED
      BY <2>2, <3>1, WidthAssumption DEF Open
  <2> QED
    BY <1>1, <1>3, <1>5, <2>1, <2>2, <2>3 DEF Settled, c
<1> QED
  BY <1>4, <1>5, FieldTable

\* What publish may make of a volume that was created with p: all that p says,
\* or nothing because of a path style that was left open.
Mountable(d, p, s, m) ==
    \/ m = Bad /\ Without(d, p, "s3forcepathstyle") /\ s["s3forcepathstyle"] = Bad
    \/ m \in Params(d) /\ \A f \in Fields(d) : Without(d, p, f) \/ m[f] = Meant(d, p, f)

\* Attributes that were read back are parameters again.
LEMMA ReadBackParams ==
    ASSUME NEW d \in Drivers, NEW p \in Params(d)
    PROVE  /\ ParsedAttributes(d, Attributes(d, p)) \in Params(d)
           /\ \A f \in Fields(d) : ParsedAttributes(d, Attributes(d, p))[f] = Meant(d, p, f)
<1> DEFINE q == ParsedAttributes(d, Attributes(d, p))
<1>1. \A f \in Fields(d) : /\ q[f] = Meant(d, p, f) /\ q[f] \in Values(d, f)
                          /\ q[f] \in Int \cup {Nil}
  BY ReadBack
<1>2. q = [f \in Fields(d) |-> q[f]]
  BY DEF ParsedAttributes
<1> HIDE DEF q
<1>3. q \in [Fields(d) -> Int \cup {Nil}]
  BY <1>1, <1>2
<1> QED
  BY <1>1, <1>3 DEF Params, q

\* Kodo completes what it has read back from the Secret.
LEMMA KodoMount ==
    ASSUME NEW p, Settled("kodo", p), NEW s, Readable("kodo", s)
    PROVE  Mountable("kodo", p, s, Mount("kodo", Attributes("kodo", p), s))
<1> DEFINE a == Attributes("kodo", p)
           q == ParsedAttributes("kodo", a)
           c == Completed("kodo", q, s)
           m == Mount("kodo", a, s)
<1>0. "kodo" \in Drivers /\ p \in Params("kodo")
  BY FieldTable DEF Settled
<1>1. q \in Params("kodo") /\ \A f \in Fields("kodo") : q[f] = Meant("kodo", p, f)
  BY <1>0, ReadBackParams
<1> HIDE DEF a, q
<1>2. ASSUME NEW f \in InSecret("kodo"), Open("kodo", q, f)
      PROVE  f \in Fields("kodo") /\ Without("kodo", p, f) /\ f \notin Required("kodo")
  <2>1. f \in Fields("kodo")
    BY FieldTable DEF InSecret, Required
  <2>2. q[f] = Zero("kodo", f) /\ q[f] = Meant("kodo", p, f)
    BY <1>1, <1>2, <2>1 DEF Open
  <2>3. Zero("kodo", f) = IF f \in {"ucendpoint", "s3forcepathstyle"} THEN Nil ELSE 0
    BY <1>0, <2>1, FieldCases DEF Zero, Pointers, InSecret, Required
  <2>4. f \notin {"accesskey", "ucendpoint", "region"}
    BY <2>2, <2>3 DEF Settled, Meant, IamKey
  <2>5. f \in {"storageclass", "subdir", "s3forcepathstyle"}
    BY <2>4 DEF InSecret, Required
  <2>6. q[f] = p[f]
    BY <2>2, <2>5 DEF Meant
  <2> QED
    BY <2>1, <2>2, <2>4, <2>5, <2>6 DEF Without, Open, Required
<1>3. CASE Incomplete("kodo", q, s)
  <2>1. PICK f \in InSecret("kodo") : Open("kodo", q, f) /\ s[f] = Bad
    BY <1>2, <1>3 DEF Incomplete
  <2>2. f \in Fields("kodo") /\ Without("kodo", p, f) /\ Bad \in Texts("kodo", f)
    BY <1>2, <2>1, WidthAssumption DEF Readable
  <2>3. f = "s3forcepathstyle"
    BY <1>0, <2>2, FieldCases, WidthAssumption DEF Without, Texts
  <2>4. m = Bad
    BY <1>3 DEF Mount, PublishReads, PublishReadsKodo, q
  <2> QED
    BY <2>1, <2>2, <2>3, <2>4 DEF Mountable, a
<1>4. CASE ~ Incomplete("kodo", q, s)
  <2>1. c \in Params("kodo")
    BY <1>0, <1>1, <1>4, CompletedParams
  <2>2. c # Bad /\ c \in [Fields("kodo") -> Int \cup {Nil}]
    BY <1>0, <2>1, MarkAssumption DEF Params
  <2>3. m = MountCommand(c)
    BY <1>4, <2>2 DEF Mount, PublishReads, PublishReadsKodo, q
  <2>4. ASSUME NEW f \in Fields("kodo") PROVE Without("kodo", p, f) \/ c[f] = Meant("kodo", p, f)
    <3>1. c[f] = FromSecret("kodo", q, s, f) /\ f # "blocksize"
      BY FieldTable DEF Completed
    <3>2. CASE f \in InSecret("kodo") /\ Open("kodo", q, f)
      BY <1>2, <3>2
    <3>3. CASE ~ (f \in InSecret("kodo") /\ Open("kodo", q, f))
      BY <1>1, <3>1, <3>3 DEF FromSecret
    <3> QED
      BY <3>2, <3>3
  <2> HIDE DEF c
  <2>5. CASE c["s3forcepathstyle"] = Nil
    <3> DEFINE z == "s3forcepathstyle"
    <3>1. z \in Fields("kodo") /\ Zero("kodo", z) = Nil /\ 0 \in Values("kodo", z)
      <4>1. z \in Fields("kodo")
        BY FieldTable
      <4>2. Type["kodo"][z] = "flag"
        BY <1>0, <4>1, FieldCases
      <4> QED
        BY <4>1, <4>2, WidthAssumption DEF Zero, Pointers, Values, Texts
    <3>2. Without("kodo", p, z)
      BY <2>4, <2>5, <3>1 DEF Meant, Without, Open
    <3>3. m = [c EXCEPT ![z] = 0]
      BY <2>2, <2>3, <2>5, <3>1 DEF MountCommand
    <3>4. m \in Params("kodo")
      BY <2>1, <2>2, <3>1, <3>3 DEF Params
    <3>5. \A f \in Fields("kodo") : f # z => m[f] = c[f]
      BY <2>2, <3>3
    <3> QED
      BY <2>4, <3>2, <3>4, <3>5 DEF Mountable, a
  <2>6. CASE c["s3forcepathstyle"] # Nil
    BY <2>1, <2>3, <2>4, <2>6 DEF MountCommand, Mountable, a
  <2> QED
    BY <2>5, <2>6
<1> QED
  BY <1>3, <1>4

\* KodoFS finds the two fields it asks for again in what it has read back.
LEMMA KodoFSMount ==
    ASSUME NEW p, Settled("kodofs", p), NEW s, Readable("kodofs", s)
    PROVE  Mountable("kodofs", p, s, Mount("kodofs", Attributes("kodofs", p), s))
<1> DEFINE a == Attributes("kodofs", p)
           q == ParsedAttributes("kodofs", a)
           m == Mount("kodofs", a, s)
<1>0. "kodofs" \in Drivers /\ p \in Params("kodofs")
  BY FieldTable DEF Settled
<1>1. q \in Params("kodofs") /\ \A f \in Fields("kodofs") : q[f] = Meant("kodofs", p, f)
  BY <1>0, ReadBackParams
<1>2. "mntsvraddr" \in Fields("kodofs") /\ "blocksize" \in Fields("kodofs")
  BY FieldTable
<1>3. Zero("kodofs", "mntsvraddr") = Nil /\ Zero("kodofs", "blocksize") = 0
  BY <1>0, <1>2, FieldCases DEF Zero, Pointers
<1> HIDE DEF a, q
<1>4. ~ Open("kodofs", q, "mntsvraddr") /\ ~ Open("kodofs", q, "blocksize")
  BY <1>1, <1>2, <1>3 DEF Settled, Meant, Open
<1>5. /\ FromSecret("kodofs", q, s, "mntsvraddr") = q["mntsvraddr"]
      /\ FromSecret("kodofs", q, s, "blocksize") = q["blocksize"]
  BY <1>4 DEF FromSecret
<1>6. q # Bad /\ q \in [Fields("kodofs") -> Int \cup {Nil}]
  BY <1>0, <1>1, MarkAssumption DEF Params
<1>7. [q EXCEPT !["mntsvraddr"] = q["mntsvraddr"], !["blocksize"] = q["blocksize"]] = q
  BY <1>6
<1>8. PublishReads("kodofs", a, s) = q
  BY <1>4, <1>5, <1>7 DEF PublishReads, PublishReadsKodoFS, q
<1>9. m = q
  BY <1>6, <1>8, FieldTable DEF Mount, MountCommand
<1> QED
  BY <1>1, <1>9 DEF Mountable, a

\* A volume that was created is mounted with what it was created with, whatever
\* the Secret says now.
LEMMA CreatedMount ==
    ASSUME NEW d \in Drivers, NEW p, Settled(d, p), NEW s, Readable(d, s)
    PROVE  Mountable(d, p, s, Mount(d, Attributes(d, p), s))
<1>1. CASE d = "kodo"
  BY <1>1, KodoMount
<1>2. CASE d = "kodofs"
  BY <1>2, KodoFSMount
<1> QED
  BY <1>1, <1>2, FieldTable

-----------------------------------------------------------------------------
(***************************************************************************)
(* Steps                                                                   *)
(***************************************************************************)

\* At the start there is neither a StorageClass nor a volume.
LEMMA InitParam == Init => ParamInv
<1> SUFFICES ASSUME Init PROVE ParamInv
  OBVIOUS
<1>1. ZeroParam(driver) \in Params(driver)
  BY ZeroValue DEF Init, ZeroParam, Params
<1>2. ASSUME NEW f \in Fields(driver) PROVE secret[f] \in Texts(driver, f) \cup {Nil}
  BY FieldCases DEF Init, ExampleSecret, Texts, Required
<1>3. Types
  BY <1>1, <1>2, WidthAssumption DEF Init, Types, ExampleSecret
<1> QED
  BY <1>3 DEF Init, ParamInv, Recorded, Current, Scanned, Honoured

\* An entry names a field and holds one of its texts.
LEMMA EntryFields ==
    ASSUME NEW d \in Drivers, NEW e \in Entries(d)
    PROVE  e[1] \in Fields(d) /\ e[2] \in Texts(d, e[1])
  BY DEF Entries

\* The loop starts with all entries and no parameters.
LEMMA BeginKeeps == ASSUME ParamInv, CreateVolumeBegin PROVE ParamInv'
<1> USE DEF ParamInv, CreateVolumeBegin
<1>1. ZeroParam(driver) \in Params(driver)
  BY ZeroValue DEF ZeroParam, Params, Types
<1>2. Types'
  BY <1>1 DEF Types
<1>3. Recorded' /\ Current'
  BY DEF Recorded, Current
<1>4. Scanned' /\ Honoured'
  BY DEF Scanned, Honoured, Said, Recorded
<1> QED
  BY <1>2, <1>3, <1>4

\* One entry is parsed, or ends the call.
LEMMA VisitKeeps == ASSUME ParamInv, VisitEntry PROVE ParamInv'
<1> USE DEF ParamInv
<1>0. /\ driver \in Drivers /\ param \in Params(driver) /\ class \subseteq Entries(driver)
      /\ UNCHANGED <<driver, class, secret, edits, created, attrs, mount>> /\ pc = "scan"
  BY DEF VisitEntry, Types
<1>1. Recorded' /\ Current' /\ Honoured'
  BY <1>0 DEF Recorded, Current, Honoured, Said
<1>2. PICK entry \in todo :
        IF entry[2] = Bad
           THEN pc' = "idle" /\ todo' = {} /\ param' = ZeroParam(driver)
           ELSE /\ todo' = todo \ {entry}
                /\ param' = ParseEntry(driver, param, entry)
                /\ UNCHANGED pc
  BY DEF VisitEntry
<1>3. entry \in class /\ entry[1] \in Fields(driver) /\ entry[2] \in Texts(driver, entry[1])
  BY <1>0, EntryFields DEF Types
<1>4. CASE entry[2] = Bad
  <2>1. ZeroParam(driver) \in Params(driver)
    BY <1>0, ZeroValue DEF ZeroParam, Params
  <2>2. Types'
    BY <1>0, <1>2, <1>4, <2>1 DEF Types
  <2> QED
    BY <1>1, <1>2, <1>4, <2>2 DEF Scanned
<1>5. CASE entry[2] # Bad
  <2> DEFINE g == entry[1]
             v == Parse(driver, g, entry[2])
  <2>1. v \in Nat /\ v \in Values(driver, g)
    BY <1>0, <1>3, <1>5, TextValue
  <2>2. param' = [param EXCEPT ![g] = v] /\ todo' = todo \ {entry} /\ pc' = pc
    BY <1>2, <1>5 DEF ParseEntry
  <2> HIDE DEF v
  <2>3. param' \in Params(driver) /\ param'[g] = v
        /\ \A f \in Fields(driver) : f # g => param'[f] = param[f]
    BY <1>0, <1>3, <2>1, <2>2 DEF Params
  <2>4. Types'
    BY <1>0, <2>2, <2>3 DEF Types
  <2>5. ASSUME NEW e \in class \ todo' PROVE Said(e[1], param'[e[1]])
    <3>1. CASE e[1] = g
      BY <1>3, <1>5, <2>3, <3>1 DEF Said, v
    <3>2. CASE e[1] # g
      <4>1. e \in class \ todo /\ e[1] \in Fields(driver)
        BY <1>0, <2>2, <2>5, <3>2, EntryFields
      <4> QED
        BY <1>0, <2>3, <3>2, <4>1 DEF Scanned
    <3> QED
      BY <3>1, <3>2
  <2>6. Scanned'
    BY <1>0, <2>5 DEF Scanned, Said
  <2> QED
    BY <1>1, <2>4, <2>6
<1> QED
  BY <1>4, <1>5

\* The volume is created with the completed parameters, or the call fails.
LEMMA EndKeeps == ASSUME ParamInv, CreateVolumeEnd PROVE ParamInv'
<1> USE DEF ParamInv
<1> DEFINE c == Completed(driver, param, secret)
           accepted == ~ Incomplete(driver, param, secret) /\ Accepted(driver, c)
<1>0. /\ driver \in Drivers /\ param \in Params(driver) /\ class \subseteq Entries(driver)
      /\ Readable(driver, secret)
      /\ UNCHANGED <<driver, class, secret, edits, todo, mount>>
      /\ pc = "scan" /\ todo = {} /\ pc' = "idle" /\ param' = ZeroParam(driver)
      /\ created' = (IF accepted THEN c ELSE created)
      /\ attrs' = (IF accepted THEN Attributes(driver, c) ELSE attrs)
  BY DEF CreateVolumeEnd, Types, Readable
<1>1. attrs = Nil /\ created = Nil /\ mount = Nil
  BY <1>0 DEF Scanned, Recorded, Current
<1>2. ZeroParam(driver) \in Params(driver)
  BY <1>0, ZeroValue DEF ZeroParam, Params
<1>3. Types'
  BY <1>0, <1>2 DEF Types
<1>4. Current' /\ Scanned'
  BY <1>0, <1>1 DEF Current, Scanned
<1>5. CASE ~ accepted
  BY <1>0, <1>1, <1>3, <1>4, <1>5 DEF Recorded, Honoured
<1>6. CASE accepted
  <2>1. Settled(driver, c)
    BY <1>0, <1>6, CreatedSettled
  <2>2. created' = c /\ attrs' = Attributes(driver, c)
    BY <1>0, <1>6
  <2>3. c # Nil
    BY <1>0, <2>1, MarkAssumption DEF Settled, Params
  <2>4. Attributes(driver, c) # Nil
    <3>1. ASSUME NEW f \in Fields(driver) PROVE Attributes(driver, c)[f] \in Int \cup {Nil}
      <4>1. Attributes(driver, c)[f] \in Values(driver, f) \cup {Nil}
        BY <1>0, <2>1, ReadBack DEF Settled
      <4> QED
        BY <1>0, <4>1, ValueType
    <3>2. Attributes(driver, c) \in [Fields(driver) -> Int \cup {Nil}]
      BY <3>1 DEF Attributes
    <3> QED
      BY <1>0, <3>2, MarkAssumption
  <2>5. Recorded'
    BY <1>0, <2>1, <2>2, <2>3, <2>4 DEF Recorded
  <2>6. ASSUME NEW e \in class
        PROVE  \/ Said(e[1], c[e[1]])
               \/ /\ e[1] \in InSecret(driver) \cup {"blocksize"}
                  /\ Said(e[1], Zero(driver, e[1]))
    <3>1. e[1] \in Fields(driver) /\ Said(e[1], param[e[1]])
      BY <1>0, EntryFields DEF Scanned
    <3>2. c[e[1]] = FromSecret(driver, param, secret, e[1])
      BY <3>1 DEF Completed
    <3>3. CASE Open(driver, param, e[1]) /\ e[1] \in InSecret(driver) \cup {"blocksize"}
      BY <3>1, <3>3 DEF Open
    <3>4. CASE ~ (Open(driver, param, e[1]) /\ e[1] \in InSecret(driver) \cup {"blocksize"})
      BY <3>1, <3>2, <3>4 DEF FromSecret
    <3> QED
      BY <3>3, <3>4
  <2> HIDE DEF c
  <2>7. Honoured'
    BY <1>0, <2>2, <2>6 DEF Honoured, Said
  <2> QED
    BY <1>3, <1>4, <2>5, <2>7
<1> QED
  BY <1>5, <1>6

\* Publish, and the administrator, leave the volume as it is.
LEMMA OthersKeep ==
    ASSUME ParamInv, Publish \/ WriteClass \/ EditSecret
    PROVE  ParamInv'
<1> USE DEF ParamInv
<1>1. CASE Publish
  <2>1. Types' /\ Recorded' /\ Scanned' /\ Honoured'
    BY <1>1 DEF Publish, Types, Recorded, Scanned, Honoured, Said
  <2>2. Current'
    BY <1>1 DEF Publish, Current, Mount
  <2> QED
    BY <2>1, <2>2
<1>2. CASE WriteClass
  <2>0. /\ pc = "idle" /\ attrs = Nil /\ created = Nil /\ class \subseteq class'
        /\ class' \subseteq Entries(driver)
        /\ UNCHANGED <<driver, secret, edits, pc, todo, param, created, attrs, mount>>
    BY <1>2 DEF WriteClass, Recorded, Types
  <2>1. Types'
    BY <2>0 DEF Types
  <2>2. Recorded' /\ Current' /\ Scanned' /\ Honoured'
    BY <2>0 DEF Recorded, Current, Scanned, Honoured
  <2> QED
    BY <2>1, <2>2
<1>3. CASE EditSecret
  <2>0. /\ pc = "idle" /\ mount' = Nil /\ edits' \in 0..MaxEdits
        /\ UNCHANGED <<driver, class, pc, todo, param, created, attrs>>
    BY <1>3, WidthAssumption DEF EditSecret, Types
  <2>1. PICK f \in InSecret(driver) : \E text \in (Texts(driver, f) \cup {Nil}) \ {secret[f]} :
          secret' = [secret EXCEPT ![f] = text]
    BY <1>3 DEF EditSecret
  <2>2. PICK text \in Texts(driver, f) \cup {Nil} : secret' = [secret EXCEPT ![f] = text]
    BY <2>1
  <2>3. driver \in Drivers /\ f \in Fields(driver)
    BY FieldTable DEF Types, InSecret, Required
  <2>4. text \in Int \cup {Nil, Bad}
    BY <2>2, <2>3, TextValue
  <2>5. /\ secret' \in [Fields(driver) -> Int \cup {Nil, Bad}]
        /\ \A g \in Fields(driver) : secret'[g] \in Texts(driver, g) \cup {Nil}
    BY <2>2, <2>3, <2>4 DEF Types
  <2>6. Types'
    BY <2>0, <2>5 DEF Types
  <2>7. Recorded' /\ Current' /\ Scanned' /\ Honoured'
    BY <2>0 DEF Recorded, Current, Scanned, Honoured, Said
  <2> QED
    BY <2>6, <2>7
<1> QED
  BY <1>1, <1>2, <1>3

-----------------------------------------------------------------------------
(***************************************************************************)
(* The theorems                                                            *)
(***************************************************************************)

\* The invariant holds at all times.
THEOREM ParamInvariant == Spec => []ParamInv
<1>1. ParamInv /\ UNCHANGED vars => ParamInv'
  BY DEF vars, ParamInv, Types, Recorded, Current, Scanned, Honoured, Said
<1>2. ParamInv /\ [Next]_vars => ParamInv'
  BY <1>1, BeginKeeps, VisitKeeps, EndKeeps, OthersKeep DEF Next
<1> QED
  BY <1>2, InitParam, PTL DEF Spec

\* What is mounted, by the invariant.
LEMMA MountedIs ==
    ASSUME ParamInv, mount # Nil
    PROVE  created # Nil /\ driver \in Drivers /\ Mountable(driver, created, secret, mount)
<1>1. /\ created # Nil /\ driver \in Drivers /\ Settled(driver, created)
      /\ mount = Mount(driver, Attributes(driver, created), secret)
  BY DEF ParamInv, Types, Recorded, Current
<1>2. Readable(driver, secret)
  BY DEF ParamInv, Types, Readable
<1> QED
  BY <1>1, <1>2, CreatedMount

\* Every parameter is a value of its Go type, before and after it has been
\* through the attributes: numbers are cut to the width of their field.
THEOREM TypeCorrect == Spec => []TypeOK
<1>1. ASSUME ParamInv PROVE TypeOK
  <2>1. ASSUME NEW f \in Fields(driver)
        PROVE  /\ param[f] \in Values(driver, f)
               /\ created # Nil => created[f] \in Values(driver, f)
               /\ attrs # Nil => attrs[f] \in Values(driver, f) \cup {Nil}
               /\ Published => mount[f] \in Values(driver, f)
    <3>1. param[f] \in Values(driver, f) /\ (created # Nil => created[f] \in Values(driver, f))
      BY <1>1 DEF ParamInv, Types, Recorded, Settled, Params
    <3>2. attrs # Nil => attrs[f] \in Values(driver, f) \cup {Nil}
      BY <1>1, ReadBack DEF ParamInv, Types, Recorded, Settled
    <3>3. Published => mount[f] \in Values(driver, f)
      BY <1>1, MountedIs DEF Published, Mountable, Params
    <3> QED
      BY <3>1, <3>2, <3>3
  <2> QED
    BY <1>1, <2>1 DEF ParamInv, Types, TypeOK
<1> QED
  BY <1>1, ParamInvariant, PTL

\* A volume is mounted with what it was created with, although its parameters
\* were formatted, cut and parsed again and the Secret was edited.
THEOREM MountsAsCreated == Spec => []RoundTrip
<1>1. ASSUME ParamInv, Published, NEW f \in Fields(driver)
      PROVE  LeftOpen(f) \/ mount[f] = CASE driver = "kodo" /\ f = "accesskey" -> IamKey
                                          [] f = "vfscachemode" /\ created[f] = 0 -> Off
                                          [] OTHER -> created[f]
  <2>1. Without(driver, created, f) \/ mount[f] = Meant(driver, created, f)
    BY <1>1, MountedIs DEF Published, Mountable
  <2> QED
    BY <2>1 DEF Without, LeftOpen, Meant
<1>2. ParamInv => RoundTrip
  BY <1>1 DEF RoundTrip
<1> QED
  BY <1>2, ParamInvariant, PTL

\* An entry that was parsed to the zero value of a field that the Secret or the
\* default block size completes is blank.
LEMMA OpenIsBlank ==
    ASSUME driver \in Drivers, NEW e \in Entries(driver), e[2] # Bad,
           e[1] \in InSecret(driver) \cup {"blocksize"},
           Parse(driver, e[1], e[2]) = Zero(driver, e[1])
    PROVE  Blank(e)
<1> DEFINE f == e[1]
<1>1. f \in Fields(driver) /\ e[2] \in Texts(driver, f)
  BY EntryFields
<1>2. e[2] \in Nat /\ Parse(driver, f, e[2]) \in Nat
  BY <1>1, TextValue
<1>3. Zero(driver, f) = 0 /\ Type[driver][f] \notin Pointers
  BY <1>2, WidthAssumption DEF Zero
<1>4. f \in InSecret(driver) => Type[driver][f] \in {"text", "url", "flag"}
  BY <1>1, FieldCases DEF InSecret, Required
<1>5. CASE f \in InSecret(driver)
  <2>1. Type[driver][f] = "text"
    BY <1>3, <1>4, <1>5 DEF Pointers
  <2>2. Parse(driver, f, e[2]) = e[2]
    BY <2>1 DEF Parse
  <2> QED
    BY <1>3, <2>1, <2>2 DEF Blank
<1>6. CASE f = "blocksize"
  <2>1. Type[driver][f] = "cut"
    BY <1>1, <1>6, FieldCases
  <2>2. Parse(driver, f, e[2]) = e[2] % BlockSpan
    BY <1>6, <2>1 DEF Parse, Span
  <2> QED
    BY <1>3, <1>6, <2>2 DEF Blank
<1> QED
  BY <1>5, <1>6

\* An entry of the StorageClass decides what is mounted, in whatever order the
\* map was visited, unless it, or another one for its field, is blank; zero
\* numbers and switches that are off decide like all others.
THEOREM TheClassWins == Spec => []ClassWins
<1>1. ASSUME ParamInv, Published, NEW e \in class, ~ (driver = "kodo" /\ e[1] = "accesskey")
      PROVE  \E said \in class :
               /\ said[1] = e[1] /\ said[2] # Bad
               /\ Blank(said) \/ mount[e[1]] = Parse(driver, e[1], said[2])
  <2> DEFINE f == e[1]
  <2>0. /\ driver \in Drivers /\ f \in Fields(driver) /\ class \subseteq Entries(driver)
        /\ created # Nil
    BY <1>1, EntryFields, MountedIs DEF ParamInv, Types, Published
  <2>1. CASE f \in InSecret(driver) \cup {"blocksize"} /\ Said(f, Zero(driver, f))
    <3>1. PICK said \in class : /\ said[1] = f /\ said[2] # Bad
                                /\ Zero(driver, f) = Parse(driver, f, said[2])
      BY <2>1 DEF Said
    <3>2. Blank(said)
      BY <2>0, <2>1, <3>1, OpenIsBlank
    <3> QED
      BY <3>1, <3>2
  <2>2. CASE Said(f, created[f])
    <3>1. PICK said \in class : /\ said[1] = f /\ said[2] # Bad
                                /\ created[f] = Parse(driver, f, said[2])
      BY <2>2 DEF Said
    <3>2. said[2] \in Texts(driver, f) /\ said[2] \in Nat /\ created[f] \in Nat
      BY <2>0, <3>1, EntryFields, TextValue
    <3>3. CASE Without(driver, created, f)
      <4>1. created[f] = Zero(driver, f) /\ f \in InSecret(driver)
        BY <3>3 DEF Without, Open, InSecret
      <4>2. Blank(said)
        BY <2>0, <3>1, <4>1, OpenIsBlank
      <4> QED
        BY <3>1, <4>2
    <3>4. CASE ~ Without(driver, created, f)
      <4>1. mount[f] = Meant(driver, created, f)
        BY <1>1, <2>0, <3>4, MountedIs DEF Published, Mountable
      <4>2. f = "vfscachemode" => created[f] # 0
        BY <2>0, <3>1, <3>2, FieldCases DEF Parse, Off
      <4>3. mount[f] = created[f]
        BY <1>1, <4>1, <4>2 DEF Meant
      <4> QED
        BY <3>1, <4>3
    <3> QED
      BY <3>3, <3>4
  <2> QED
    BY <1>1, <2>0, <2>1, <2>2 DEF ParamInv, Honoured
<1>2. ParamInv => ClassWins
  BY <1>1 DEF ClassWins
<1> QED
  BY <1>2, ParamInvariant, PTL

\* A volume that was created can be published whatever happens to the Secret; the
\* one exception is a path style that was left open.
THEOREM CreatedIsPublished == Spec => []CreatedVolumeParses
<1>1. ASSUME ParamInv, mount = Bad
      PROVE  LeftOpen("s3forcepathstyle") /\ secret["s3forcepathstyle"] = Bad
  <2>1. driver \in Drivers /\ Mountable(driver, created, secret, mount)
    BY <1>1, MountedIs, WidthAssumption
  <2>2. mount \notin Params(driver)
    BY <1>1, <2>1, MarkAssumption DEF Params
  <2> QED
    BY <2>1, <2>2 DEF Mountable, Without, LeftOpen
<1>2. ParamInv => CreatedVolumeParses
  BY <1>1 DEF CreatedVolumeParses
<1> QED
  BY <1>2, ParamInvariant, PTL
=============================================================================
