------------------------------ MODULE FSMemModel ------------------------------
(***************************************************************************)
(* The field-sensitive objects of one memory block, and a pointer that the *)
(* program moves through it.  The model follows the pointer twice: at its  *)
(* real offset, and as the object the analysis has for it.  Objects are    *)
(* created when they are first indexed, by the initialiser of a global or  *)
(* by the pointer.                                                         *)
(***************************************************************************)
EXTENDS MemLayouts

CONSTANT Allocated   \* the types of which blocks are allocated

ASSUME AllocatedAssumption == Allocated \subseteq Types

VARIABLES
  type,      \* the type of the block
  real,      \* the offset of the pointer in the memory of the program
  object,    \* the physical offset of its object, or Lost
  fieldObjs, \* the objects of the block: physical offset by layout offset
  stored     \* <<l, p>>: the address that is at offset p in the memory of an
             \* initialised global is in the object with layout offset l

vars == <<type, real, object, fieldObjs, stored>>

Lost == -1

(* indexMemoryBlock: an object is kept under its layout offset, and has    *)
(* the physical offset that the translation leaves, whatever was asked.    *)
Slot_Physical(at) == at.p   \* a mutant: under its physical offset
Slot(at) == at.l
ObjectOffset_AsAsked(at, asked) == asked   \* a mutant: what was asked first
ObjectOffset(at, asked) == at.p

IndexMemoryBlock(t, objs, p) ==
  LET at == IndexPhysicalOffset(t, p)
      slot == Slot(at)
  IN IF p = 0 THEN [object |-> 0, objs |-> objs]
     ELSE IF at.l \notin Layout[t].elements THEN [object |-> Lost, objs |-> objs]
     ELSE IF slot \in DOMAIN objs THEN [object |-> objs[slot], objs |-> objs]
     ELSE [object |-> ObjectOffset(at, p),
           objs |-> [l \in DOMAIN objs \cup {slot} |->
                       IF l = slot THEN ObjectOffset(at, p) ELSE objs[l]]]

(* getObjectAt for the three kinds of blocks; the block's objects after it *)
GetObjectAt(t, objs, p) ==
  IF IsAggregate(t) THEN IndexMemoryBlock(t, objs, p)
  ELSE [object |-> IF Type[t].kind = "unknown" \/ p = 0 THEN 0 ELSE Lost, objs |-> objs]

(* MemBlock::validateStepSize.                                             *)
ValidateStepSize(t, p, step) ==
  IF IsAggregate(t) THEN IsArrayExistAtOffset[t][p][step]
  ELSE Type[t].kind = "unknown"

-----------------------------------------------------------------------------
(* processInitializer, processAggregateGlobals and processScalarGlobals:   *)
(* walk an initialiser that has an address for every pointer.  The code    *)
(* counts the offset as it goes, and expects an address at this offset;    *)
(* `at' is where the address is.                                           *)
HasPadding_Unseen(t) == FALSE   \* a mutant: the offset is not moved over padding
HasPadding(t) ==
  LET fields == Type[t].fields IN
  SizeOf(t) # Total(Len(fields), [i \in DOMAIN fields |-> SizeOf(fields[i])])

Seen(seen, offset, at) ==
  {[offset |-> offset + s.offset, at |-> at + s.at] : s \in seen}

WalkStruct(t, inner) ==
  LET fields == Type[t].fields
      counted(i) == IF HasPadding(t) THEN Offsets(t)[i]
                    ELSE Total(i - 1, [j \in DOMAIN fields |-> inner[j].offset])
  IN [offset |-> SizeOf(t),
      seen |-> UNION {Seen(inner[i].seen, counted(i), Offsets(t)[i]) : i \in DOMAIN fields}]

WalkArray(t, inner) ==
  [offset |-> Counted(t) * inner.offset,
   seen |-> UNION {Seen(inner.seen, n * inner.offset, n * SizeOf(Type[t].elem)) :
                     n \in 0 .. Counted(t) - 1}]

(* The offset behind an initialiser and the addresses that are seen in it. *)
WalkOf[t \in Types] ==
  CASE Type[t].kind = "struct" ->
         WalkStruct(t, [i \in DOMAIN Type[t].fields |-> WalkOf[Type[t].fields[i]]])
    [] Type[t].kind = "array" -> WalkArray(t, WalkOf[Type[t].elem])
    [] OTHER -> [offset |-> SizeOf(t),
                 seen |-> {s \in {[offset |-> 0, at |-> 0]} : Type[t].kind = "pointer"}]

Walk == [t \in Types |-> WalkOf[t]]

LayoutOffset(objs, p) == CHOOSE l \in DOMAIN objs : objs[l] = p

(* An address is stored in the object at its offset; without an object the *)
(* code follows a null pointer.                                            *)
Store(t, block, a) ==
  LET r == GetObjectAt(t, block.objs, a.offset) IN
  [objs |-> r.objs,
   stored |-> block.stored \cup
     {<<IF r.object = Lost THEN Lost ELSE LayoutOffset(r.objs, r.object), a.at>>}]

(* initializeGlobal: the objects of a block of type t, and what is stored  *)
(* in them, after its initialiser, which is walked in the order of memory. *)
Initialised(t) ==
  LET seen == Walk[t].seen
      at(n) == {s \in seen : s.at = n}
      upTo[n \in 0 .. SizeOf(t)] ==   \* the addresses at the first n offsets
        IF n = 0 THEN [objs |-> [l \in {0} |-> 0], stored |-> {}]
        ELSE IF at(n - 1) = {} THEN upTo[n - 1]
        ELSE Store(t, upTo[n - 1], CHOOSE s \in at(n - 1) : TRUE)
  IN upTo[SizeOf(t)]

Initialisable(t) == Type[t].kind = "array" => Type[t].count # SizeMax

(* allocValueWithType: a block starts with the object at offset 0.  That   *)
(* of a global is initialised before a pointer to it is followed.          *)
Init ==
  /\ type \in Allocated
  /\ real = 0
  /\ object = 0
  /\ \/ /\ fieldObjs = [l \in {0} |-> 0]
        /\ stored = {}
     \/ /\ Initialisable(type)
        /\ \E block \in {Initialised(type)} :
             fieldObjs = block.objs /\ stored = block.stored

(* indexObject for constant indices: the pointer is at the start of a part *)
(* of the block and moves to a field of that part, or from an element of   *)
(* an array to a later one; negative offsets are left out.                 *)
Reachable(p) ==
  (UNION {{p + f : f \in Fields(c.type)} : c \in {c \in Parts[type] : c.at = p}}) \cup
  (UNION {{c.at + n : n \in Elements(c.type)} :
            c \in {c \in Parts[type] : Type[c.type].kind = "array" /\ p - c.at \in Elements(c.type)}})

IndexConstant ==
  /\ object # Lost
  /\ \E to \in Reachable(real) :
       /\ to > real
       /\ \E r \in {GetObjectAt(type, fieldObjs, object + to - real)} :
            object' = r.object /\ fieldObjs' = r.objs
       /\ real' = to
  /\ UNCHANGED <<type, stored>>

(* indexObject for a variable index: from an element of an array to any    *)
(* other.                                                                  *)
IndexVariable ==
  /\ object # Lost
  /\ \E c \in Parts[type] :
       /\ Type[c.type].kind = "array"
       /\ real - c.at \in Elements(c.type)
       /\ object' = IF ValidateStepSize(type, object, SizeOf(Type[c.type].elem))
                    THEN object ELSE Lost
       /\ \E n \in Elements(c.type) : real' = c.at + n
  /\ UNCHANGED <<type, fieldObjs, stored>>

(* The program takes the address of the block again.                       *)
Restart ==
  /\ real' = 0
  /\ object' = 0
  /\ UNCHANGED <<type, fieldObjs, stored>>

Next == IndexConstant \/ IndexVariable \/ Restart

Spec == Init /\ [][Next]_vars

-----------------------------------------------------------------------------
TypeOK ==
  /\ type \in Allocated
  /\ real \in 0 .. SizeMax
  /\ object \in {Lost} \cup 0 .. SizeMax
  /\ DOMAIN fieldObjs \subseteq Layout[type].elements \cup {0}
  /\ \A s \in stored : s[1] \in DOMAIN fieldObjs /\ IsPointer(type, s[2])

(* "when we encounter an object that indexed by variable, we need to       *)
(* ensure that we are indexing an array" (FSObject.h): a pointer that      *)
(* moves among the fields of its block always has an object.               *)
FieldIsFound == object # Lost

(* The object of a pointer is the field it points to, with all elements of *)
(* an array taken as one: neither does a layout offset stand for two       *)
(* fields, nor does padding, nesting or an array in front shift it         *)
(* (indexPhysicalOffset, mergeMemoryLayout).                               *)
ObjectIsField ==
  object # Lost /\ Type[type].kind # "unknown" => object = FirstElement(type, real)

(* However the objects of a block were reached first, there is one of them *)
(* per field, at the offset of the field in the first elements             *)
(* (indexMemoryBlock keeps the offset of the first access).                *)
OneObjectPerField ==
  \A l \in DOMAIN fieldObjs :
    /\ IsAggregate(type) => FirstElement(type, fieldObjs[l]) = fieldObjs[l]
    /\ \A m \in DOMAIN fieldObjs : fieldObjs[l] = fieldObjs[m] => l = m

(* An object is known to hold a pointer exactly when its field does        *)
(* (setPointerOffset, indexPtrInMemoryBlock).                              *)
PointersAreMarked ==
  IsAggregate(type) =>
    \A l \in DOMAIN fieldObjs :
      (l \in Layout[type].pointers) <=> IsPointer(type, fieldObjs[l])

(* What a global was initialised with is found where the program finds it: *)
(* the object of a pointer to one of its pointer fields holds the address  *)
(* that is there, whatever the padding and the arrays before it, and only  *)
(* those of the same field in other elements (processInitializer).         *)
InitialisersAreFound ==
  stored # {} /\ object # Lost /\ IsPointer(type, real) =>
    LET here == {s[2] : s \in {s \in stored : s[1] = LayoutOffset(fieldObjs, object)}} IN
    /\ real \in here
    /\ \A p \in here : FirstElement(type, p) = FirstElement(type, real)
=============================================================================
