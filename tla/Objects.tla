------------------------------ MODULE Objects ------------------------------
(***************************************************************************)
(* The construction of an object as the node writers translate it.  The    *)
(* constructor of class c allocates the object (CCLASS_NEW), sets its      *)
(* vtable, calls the assignment methods of the classes c extends, root     *)
(* first, then their initialisation methods (the super calls), then c's own*)
(* assignment method and at last c's own code.  An assignment method sets  *)
(* the class's fields to null or 0, but for those of external types, and   *)
(* then runs the initialisers, which are code of the program and may call  *)
(* methods of the object; methods are virtual, so what runs may be a method*)
(* of any class of the object.                                             *)
(*                                                                         *)
(* A method sees the object as an object of its own class: it finds a field*)
(* at the place the field has in that class's structure.  The private      *)
(* fields are in a structure of their own (prv).                           *)
(*                                                                         *)
(* Default arguments: the caller passes 0 for an omitted reference and     *)
(* (int)nova_null for an omitted primitive, the callee compares with them. *)
(* An integer keeps the width of its C type.                               *)
(*                                                                         *)
(* Classes are numbered along the chain of "extends": k extends k-1.       *)
(* Where the tree puts the initialisers, the super calls and the default   *)
(* parameters is decided by the compiler's front end, outside this code.   *)
(***************************************************************************)
EXTENDS Integers, Sequences

CONSTANTS
  Depth,        \* the classes are 1..Depth
  Public,       \* Public[k], Private[k]: the fields that class k declares
  Private,
  Initialised,  \* the fields with an initialiser
  External,     \* the fields that are external or of an external type
  Params,       \* Params[k]: the parameters of the init of class k
  IntBits,      \* widths of int, of char, and of a pointer
  CharBits,
  PtrBits,
  nova_null,    \* the address of the object null
  Junk,         \* what malloc leaves in memory
  Null,         \* null or 0, the value of a field without an initialiser
  MaxWrites     \* bound: assignments that the program's own code makes

Classes == 1..Depth

ASSUME ObjectsAssumption ==
  /\ Depth \in Nat \ {0} /\ MaxWrites \in Nat
  /\ CharBits \in Nat /\ IntBits \in Nat /\ PtrBits \in Nat
  /\ 0 < CharBits /\ CharBits < IntBits /\ IntBits < PtrBits

VARIABLES
  class,     \* the class of the object, 0 when none is constructed
  todo,      \* the calls that the constructor has still to make
  step,      \* where the current one is
  vtable,    \* the class whose methods virtual calls find, 0: not set
  mem,       \* the object's memory, by place
  given,     \* the arguments in the program, <<>> for an omitted one
  params,    \* the parameters in the callee
  writes,
  last,      \* history: what was last stored in a field
  assigned   \* history: the classes whose assignment method has returned

objectVars == <<vtable, mem, last, assigned>>
callVars == <<given, params>>
vars == <<class, todo, step, writes, objectVars, callVars>>

Elements(s) == {s[i] : i \in DOMAIN s}
Own(k) == Elements(Public[k]) \cup Elements(Private[k])
Fields == UNION {Own(k) : k \in Classes}

(* A field is a declaration: it occurs once.                               *)
ASSUME FieldsAssumption ==
  /\ Public \in [Classes -> Seq(Fields)] /\ Private \in [Classes -> Seq(Fields)]
  /\ \A k, l \in Classes :
       /\ \A i \in DOMAIN Public[k], j \in DOMAIN Public[l] :
            Public[k][i] = Public[l][j] => k = l /\ i = j
       /\ \A i \in DOMAIN Private[k], j \in DOMAIN Private[l] :
            Private[k][i] = Private[l][j] => k = l /\ i = j
       /\ Elements(Public[k]) \cap Elements(Private[l]) = {}
  /\ Junk \notin {Null} \cup (Fields \X {"initial", "written"})

-----------------------------------------------------------------------------
(* Mutant: the class's own fields come first.                              *)
Extended_OwnFirst(inherited, own) == own \o inherited

(* The structures: the fields of the extended class come first.            *)
Extended(inherited, own) == inherited \o own

PublicLayout[k \in 0..Depth] ==
  IF k = 0 THEN <<>> ELSE Extended(PublicLayout[k - 1], Public[k])

PrivateLayout[k \in 0..Depth] ==
  IF k = 0 THEN <<>> ELSE PrivateLayout[k - 1] \o Private[k]

Position(layout, f) == CHOOSE i \in DOMAIN layout : layout[i] = f

(* Where a method of class m finds f: in the object or behind its prv.     *)
Place(m, f) ==
  IF f \in Elements(PublicLayout[m])
  THEN <<"object", Position(PublicLayout[m], f)>>
  ELSE <<"prv", Position(PrivateLayout[m], f)>>

Places(c) ==
  ({"object"} \X DOMAIN PublicLayout[c]) \cup ({"prv"} \X DOMAIN PrivateLayout[c])

(* The fields that a method of class m can name.                           *)
Accessible(m) == Elements(PublicLayout[m]) \cup Elements(Private[m])

-----------------------------------------------------------------------------
(* The calls that a constructor makes.                                     *)
Calls(do, n) == [k \in 1..n |-> [do |-> do, of |-> k]]
Call(do, k) == <<[do |-> do, of |-> k]>>

(* Mutant: each class is assigned and initialised before the next.         *)
Constructor_ClassByClass(c) ==
  Call("vtable", c)
    \o [i \in 1..(2 * c) |-> [do |-> IF i % 2 = 1 THEN "assign" ELSE "init",
                              of |-> (i + 1) \div 2]]

(* The constructor of class c: assignment methods of the extended classes, *)
(* their inits, and then the class's own.                                  *)
Constructor(c) ==
  Call("vtable", c) \o Calls("assign", c - 1) \o Calls("init", c - 1)
    \o Call("assign", c) \o Call("init", c)

At(do) == todo # <<>> /\ Head(todo).do = do
k0 == Head(todo).of

Init ==
  /\ class = 0 /\ todo = <<>> /\ step = 0 /\ writes = 0
  /\ vtable = 0 /\ mem = <<>> /\ given = <<>> /\ params = <<>>
  /\ last = [f \in Fields |-> Junk] /\ assigned = {}

(* CCLASS_NEW: the memory of the object and of its private fields.         *)
New(c) ==
  /\ class = 0
  /\ class' = c /\ todo' = Constructor(c) /\ step' = 0 /\ writes' = 0
  /\ mem' = [place \in Places(c) |-> Junk]
  /\ vtable' = 0 /\ assigned' = {}
  /\ last' = [f \in Fields |-> Junk]
  /\ UNCHANGED callVars

SetVTable ==
  /\ At("vtable")
  /\ vtable' = class
  /\ todo' = Tail(todo)
  /\ UNCHANGED <<class, step, writes, mem, last, assigned, callVars>>

(* A method of class m stores the value v in the field f.                  *)
Store(m, f, v) ==
  /\ mem' = [mem EXCEPT ![Place(m, f)] = v]
  /\ last' = [last EXCEPT ![f] = v]

(* The fields that get a default: those of external types do not.          *)
Defaulted(k) == Own(k) \ External

(* generateFieldDefaultAssignments: null or 0, before any initialiser.     *)
AssignDefaults ==
  /\ At("assign") /\ step = 0
  /\ mem' = [place \in DOMAIN mem |->
               IF \E f \in Defaulted(k0) : place = Place(k0, f) THEN Null ELSE mem[place]]
  /\ last' = [f \in Fields |->
                IF f \in Defaulted(k0) /\ k0 \notin assigned THEN Null ELSE last[f]]
  /\ step' = 1
  /\ UNCHANGED <<class, todo, writes, vtable, assigned, callVars>>

Declared(k) == Public[k] \o Private[k]

(* The value of the next field's initialiser is stored, if it has one.     *)
AssignField ==
  /\ At("assign") /\ step \in DOMAIN Declared(k0)
  /\ LET f == Declared(k0)[step]
     IN  IF f \in Initialised THEN Store(k0, f, <<f, "initial">>)
         ELSE UNCHANGED <<mem, last>>
  /\ step' = step + 1
  /\ UNCHANGED <<class, todo, writes, vtable, assigned, callVars>>

Assigned ==
  /\ At("assign") /\ step = Len(Declared(k0)) + 1
  /\ assigned' = assigned \cup {k0}
  /\ todo' = Tail(todo) /\ step' = 0
  /\ UNCHANGED <<class, writes, vtable, mem, last, callVars>>

-----------------------------------------------------------------------------
(* 2^n, as a function.                                                     *)
TwoTo[n \in 0..PtrBits] == IF n = 0 THEN 1 ELSE 2 * TwoTo[n - 1]

(* Integers of a width, and the types of parameters.                       *)
Signed(v, bits) == ((v + TwoTo[bits - 1]) % TwoTo[bits]) - TwoTo[bits - 1]

Types == {"reference", "int", "char", "bool", "byte"}

Primitive(type) == type # "reference"

(* Mutant: the parameter has the type's own width.                         *)
Bits_Declared(type) ==
  CASE type \in {"char", "bool", "byte"} -> CharBits
    [] type = "int" -> IntBits
    [] OTHER -> PtrBits

(* Where the parameter is optional a char and a bool become an int, "in    *)
(* case a pointer is passed"; a byte stays a char.                         *)
Bits(type) ==
  CASE type = "byte" -> CharBits
    [] type \in {"char", "bool", "int"} -> IntBits
    [] OTHER -> PtrBits

(* What is passed for an omitted argument.                                 *)
DefaultArgument(type) ==
  IF Primitive(type) THEN Signed(nova_null, IntBits) ELSE 0

(* What a program can pass: null is the address of nova_null, never 0.     *)
Values(type) ==
  CASE type = "reference" -> {nova_null, nova_null + 1}
    [] type = "int" -> (-TwoTo[IntBits - 1])..(TwoTo[IntBits - 1] - 1)
    [] OTHER -> (-TwoTo[CharBits - 1])..(TwoTo[CharBits - 1] - 1)

(* An address fits into a pointer; a default has a type that fits the      *)
(* parameter's, as it is a value or an earlier parameter.                  *)
ASSUME ParamsAssumption ==
  /\ nova_null \in 1..(TwoTo[PtrBits - 1] - 2)
  /\ Params \in [Classes -> Seq([type : Types, earlier : Nat, default : Int])]
  /\ \A k \in Classes : \A i \in DOMAIN Params[k] :
       LET p == Params[k][i]
       IN  IF p.earlier = 0 THEN p.default \in Values(p.type)
           ELSE p.earlier < i /\ Bits(Params[k][p.earlier].type) <= Bits(p.type)

Arguments(k) ==
  {g \in [DOMAIN Params[k] ->
            {<<>>} \cup {<<v>> : v \in UNION {Values(p.type) : p \in Elements(Params[k])}}] :
     \A i \in DOMAIN g : g[i] # <<>> => g[i][1] \in Values(Params[k][i].type)}

(* The super call, or the constructor's own.                               *)
EnterInit ==
  /\ At("init") /\ step = 0
  /\ given' \in Arguments(k0)
  /\ params' = [i \in DOMAIN Params[k0] |->
                  LET type == Params[k0][i].type
                  IN  Signed(IF given'[i] = <<>> THEN DefaultArgument(type)
                             ELSE given'[i][1], Bits(type))]
  /\ step' = 1
  /\ UNCHANGED <<class, todo, writes, objectVars>>

(* A default is a value or an earlier parameter.                           *)
DefaultValue(p) == IF p.earlier > 0 THEN params[p.earlier] ELSE p.default

DefaultParameter ==
  /\ At("init") /\ step \in DOMAIN Params[k0]
  /\ LET p == Params[k0][step]
     IN  params' = [params EXCEPT ![step] =
                      IF @ = DefaultArgument(p.type)
                      THEN Signed(DefaultValue(p), Bits(p.type)) ELSE @]
  /\ step' = step + 1
  /\ UNCHANGED <<class, todo, writes, objectVars, given>>

InBody == At("init") /\ step = Len(Params[k0]) + 1

Return ==
  /\ InBody
  /\ todo' = Tail(todo) /\ step' = 0
  /\ class' = IF Len(todo) = 1 THEN 0 ELSE class
  /\ UNCHANGED <<writes, objectVars, callVars>>

(* Code of the program runs: an initialiser, or the body of an init.       *)
CodeRuns == (At("assign") /\ step > 0) \/ InBody

(* It assigns a field in a method of class m.                              *)
Write(m, f) ==
  /\ CodeRuns /\ vtable = class
  /\ writes < MaxWrites /\ writes' = writes + 1
  /\ Store(m, f, <<f, "written">>)
  /\ UNCHANGED <<class, todo, step, vtable, assigned, callVars>>

Next ==
  \/ \E c \in Classes : New(c)
  \/ SetVTable \/ AssignDefaults \/ AssignField \/ Assigned
  \/ EnterInit \/ DefaultParameter \/ Return
  \/ \E m \in 1..class : \E f \in Accessible(m) : Write(m, f)

Spec == Init /\ [][Next]_vars

-----------------------------------------------------------------------------
(* Once a class is assigned, each of its fields holds what was last stored *)
(* in it, whichever class of the object the method that reads it belongs   *)
(* to: no later step of the construction sets it back, and the structures  *)
(* of a class and of those that extend it agree.                           *)
FieldsKeepValues ==
  class # 0 =>
    \A k \in assigned : \A f \in Own(k) : \A m \in k..class :
      f \in Accessible(m) => mem[Place(m, f)] = last[f]

(* The initialiser of f is one that the assignment method has still to run.*)
Pending(f) == At("assign") /\ \E i \in step..Len(Declared(k0)) : Declared(k0)[i] = f

(* Code of the program that runs during the construction finds the vtable  *)
(* set and no field of a class up to its own unassigned; in a super call   *)
(* only the fields of the constructed class itself may be unassigned,      *)
(* although the methods it calls may be of any class.  A field of an       *)
(* external type is as malloc left it until its initialiser has run, and   *)
(* longer only when it has none.                                           *)
CodeSeesFields ==
  CodeRuns =>
    /\ vtable = class
    /\ \A k \in 1..class : \A f \in Own(k) :
         mem[Place(k, f)] = Junk =>
           \/ k > k0 /\ (InBody => k = class)
           \/ f \in External /\ (f \in Initialised => Pending(f))

(* The body of an init has each argument as it was passed, and the default *)
(* where it was omitted, unless the parameter is a byte; an integer equal  *)
(* to the one passed for an omitted argument counts as omitted.            *)
ArgumentsArrive ==
  InBody =>
    \A i \in DOMAIN Params[k0] :
      LET p == Params[k0][i]
          omitted == given[i] = <<>> \/ given[i] = <<DefaultArgument(p.type)>>
      IN  /\ ~omitted => params[i] = given[i][1]
          /\ omitted /\ p.type # "byte" => params[i] = DefaultValue(p)

=============================================================================
