------------------------------ MODULE TypeWalk ------------------------------
(***************************************************************************)
(* The walk over the type descriptors: src/delta/typedesc.go.              *)
(*                                                                         *)
(* A descriptor is tflag, kind, Str, PtrToThis, then what its kind adds:   *)
(*   array          elem, slice                       (pointers)           *)
(*   chan, ptr, slice  elem                                                *)
(*   func           in, out; the parameter types follow the descriptor     *)
(*   iface          pkgPath, methods (pointers), n, -                      *)
(*   map            three pointers                                         *)
(*   struct         pkgPath, fields (pointers), n, -                       *)
(* With tflag 1 an uncommon part follows: PkgPath, mcount, moff, -.  A     *)
(* method is name, type, ifn, tfn; an imethod name, type; a field two      *)
(* pointers.  A name is flag, length, characters, and by flag a tag and a  *)
(* pkgPath.                                                                *)
(***************************************************************************)
EXTENDS Mapper

KArray == 17  KChan == 18  KFunc == 19  KIface == 20  KMap == 21  KPtr == 22  KSlice == 23  KStruct == 25
KMax == 26
SizeType == 4  SizeUncommon == 4  SizeMethod == 4  SizeImethod == 2  SizeField == 4
ItabSize == 6

BaseSize(kind) ==
  CASE kind = KArray -> 8
    [] kind \in {KChan, KFunc, KPtr, KSlice} -> 6
    [] kind \in {KIface, KMap, KStruct} -> 10
    [] OTHER -> SizeType

HasUncommon(d, o) == At(d, o) % 2 = 1

(* descSize: abi.Type.DescriptorSize, or -1.                               *)
DescSize(d, o) ==
  LET kind == At(d, o + 1)
      base == BaseSize(kind)
      ut == o + base
  IN IF kind = 0 \/ kind > KMax THEN -1
     ELSE IF HasUncommon(d, o) /\ ut + SizeUncommon > Len(d) THEN -1
     ELSE base
          + (IF HasUncommon(d, o) THEN SizeUncommon + At(d, ut + 1) * SizeMethod ELSE 0)
          + (CASE kind = KFunc -> (At(d, o + 4) + At(d, o + 5)) * PtrSize
               [] kind = KIface -> At(d, o + 8) * SizeImethod
               [] kind = KStruct -> At(d, o + 8) * SizeField
               [] OTHER -> 0)

InSect(s, a) == a >= s.addr /\ a < s.addr + s.size

(***************************************************************************)
(* What one descriptor makes the walk do, in the order of the code: a      *)
(* sequence of [do, at], do one of "name" (a nameOff field), "data" (the   *)
(* name at an address), "type" (a typeOff field), "text" (a textOff field) *)
(* and "ptr" (a pointer to a descriptor).                                  *)
(***************************************************************************)
Do(what, at) == <<[do |-> what, at |-> at]>>
NameOff(old, d, o) == Do("data", old.mod.types + At(d, o)) \o Do("name", o)

DescActs(old, s, o) ==
  LET d == s.data
      kind == At(d, o + 1)
      ut == o + BaseSize(kind)
      common == HasUncommon(d, o)
      fits == common /\ ut + SizeUncommon <= Len(d)
      add == ut + (IF common THEN SizeUncommon ELSE 0)
      P(k) == Do("ptr", U64(d, o + k))
      Each(from, step, n, F(_)) ==
        FlattenSeq([k \in 1..Max({0, Min({n, (Len(d) - from) \div step})}) |-> F(from + step * (k - 1))])
      Imethod(mo) == NameOff(old, d, mo) \o Do("type", mo + 1)
      Field(fo) == Do("data", U64(d, fo)) \o Do("ptr", U64(d, fo + 2))
      Method(mo) == NameOff(old, d, mo) \o Do("type", mo + 1) \o Do("text", mo + 2) \o Do("text", mo + 3)
      list == U64(d, o + 6)
      own == CASE kind = KArray -> P(4) \o P(6)
               [] kind \in {KChan, KPtr, KSlice} -> P(4)
               [] kind = KMap -> P(4) \o P(6) \o P(8)
               [] kind = KFunc -> Each(add, PtrSize, At(d, o + 4) + At(d, o + 5),
                                       LAMBDA p : Do("ptr", U64(d, p)))
               [] kind = KIface -> Do("data", U64(d, o + 4))
                    \o (IF InSect(s, list) THEN Each(list - s.addr, SizeImethod, At(d, o + 8), Imethod) ELSE <<>>)
               [] kind = KStruct -> Do("data", U64(d, o + 4))
                    \o (IF InSect(s, list) THEN Each(list - s.addr, SizeField, At(d, o + 8), Field) ELSE <<>>)
               [] OTHER -> <<>>
  IN IF o + SizeType > Len(d) THEN <<>>
     ELSE IF kind = 0 \/ kind > KMax THEN <<>>
     ELSE NameOff(old, d, o + 2) \o Do("type", o + 3)
            \o (IF fits THEN NameOff(old, d, ut) ELSE <<>>)
            \o own
            \o (IF fits THEN Each(ut + At(d, ut + 2), SizeMethod, At(d, ut + 1), Method) ELSE <<>>)

(* doNameData: where a name keeps its pkgPath, as "name" acts; none for a  *)
(* name without one, or one that runs past the section.                    *)
NameDataActs(s, a) ==
  LET d == s.data
      o == a - s.addr
      Skip(p) == IF p = -1 \/ p >= Len(d) \/ p + 1 + At(d, p) > Len(d) THEN -1 ELSE p + 1 + At(d, p)
      flag == At(d, o)
      p == IF flag % 4 >= 2 THEN Skip(Skip(o + 1)) ELSE Skip(o + 1)
  IN IF ~InSect(s, a) \/ o + 2 > Len(d) THEN <<>>
     ELSE IF flag % 8 < 4 THEN <<>>
     ELSE IF p = -1 \/ p + 1 > Len(d) THEN <<>>
     ELSE Do("name", p)

(***************************************************************************)
(* The roots: the typelinked descriptors, one after the other, and what    *)
(* the itabs point at.                                                     *)
(***************************************************************************)
RECURSIVE TypeLinks(_, _, _)
TypeLinks(old, s, a0) ==
  LET a == CeilTo(a0, PtrSize) * PtrSize
      o == a - s.addr
      sz == DescSize(s.data, o)
  IN IF a0 >= old.mod.types + old.mod.typedesclen \/ ~InSect(s, a0) THEN <<>>
     ELSE IF o + SizeType > Len(s.data) THEN <<>>
     ELSE <<a>> \o (IF sz <= 0 THEN <<>> ELSE TypeLinks(old, s, a + sz))

RECURSIVE Itabs(_, _, _)
Itabs(old, s, a) ==
  LET o == a - s.addr
      inter == U64(s.data, o)
      io == inter - s.addr
      n == IF InSect(s, inter) /\ io + 9 <= Len(s.data) THEN At(s.data, io + 8) ELSE 0
  IN IF a + ItabSize > old.mod.types + old.mod.itaboffset + old.mod.itabsize \/ ~InSect(s, a) THEN <<>>
     ELSE <<inter, U64(s.data, o + 2)>> \o Itabs(old, s, a + ItabSize + PtrSize * n)

Roots(old, s) ==
  TypeLinks(old, s, old.mod.types + 2) \o Itabs(old, s, old.mod.types + old.mod.itaboffset)

(***************************************************************************)
(* The walk.  Its state is [queue, visited, out]: out is the relative      *)
(* fields in the order they are handled, as [at, target, kind].            *)
(***************************************************************************)
Enqueue(s, w, a) ==
  IF a = 0 \/ ~InSect(s, a) \/ a \in w.visited THEN w
  ELSE [w EXCEPT !.visited = @ \cup {a}, !.queue = Append(@, a)]

Act(old, s, w, x) ==
  LET Field(at, target, kind) == [w EXCEPT !.out = Append(@, [at |-> at, target |-> target, kind |-> kind])]
      v == At(s.data, x.at)
      nd == NameDataActs(s, x.at)
      nat == nd[1].at
  IN CASE x.do = "ptr" -> Enqueue(s, w, x.at)
       [] x.do = "name" -> Field(x.at, old.mod.types + v, "n")
       [] x.do = "data" -> IF nd = <<>> THEN w ELSE Field(nat, old.mod.types + At(s.data, nat), "n")
       [] x.do = "type" -> IF v = 0 THEN w
                           ELSE Enqueue(s, Field(x.at, old.mod.types + v, "t"), old.mod.types + v)
       [] x.do = "text" -> IF v = Nil THEN w ELSE Field(x.at, old.mod.text + v, "x")

RECURSIVE WalkQueue(_, _, _)
WalkQueue(old, s, w) ==
  IF w.queue = <<>> THEN w
  ELSE WalkQueue(old, s,
         FoldLeft(LAMBDA v, x : Act(old, s, v, x), [w EXCEPT !.queue = Tail(@)],
                  DescActs(old, s, Head(w.queue) - s.addr)))

RelativeFields(old, s) ==
  WalkQueue(old, s, FoldLeft(LAMBDA w, a : Enqueue(s, w, a),
                             [queue |-> <<>>, visited |-> {}, out |-> <<>>], Roots(old, s))).out

(* rewriteTypeOffsets: every field's new value, put where the field went;  *)
(* mapTypesOff and mapTextOff, place and put32.                            *)
RewriteTypeOffsets(old, new, s, dm, mp, pred) ==
  LET Put(d, f) ==
        LET r == MapAddr(mp, f.target, 0)
            p == MapOff(dm, f.at)
            ok == IF f.kind = "x" THEN r.cls \in {"self", "matched", "none"} ELSE Mapped(r)
            base == IF f.kind = "x" THEN new.mod.text ELSE new.mod.types
        IN IF ok /\ p >= 0 /\ p + 1 <= Len(d) THEN [d EXCEPT ![p + 1] = r.a - base] ELSE d
  IN FoldLeft(Put, pred, RelativeFields(old, s))
=============================================================================
