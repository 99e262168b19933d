---------------------------- MODULE DeploymentProofs ----------------------------
(***************************************************************************)
(* Theorems about Deployment, for any configurations with any inputs,      *)
(* symbols and profiles, any models, settings and samples, and any number  *)
(* of invocations.                                                         *)
(***************************************************************************)
EXTENDS Deployment, FiniteSetTheorems, SequenceTheorems, WellFoundedInduction, TLAPS

-----------------------------------------------------------------------------
(* Least and greatest members *)

\* A set of numbers has a least element: the intervals below its elements are finite
\* sets, which are well-founded by inclusion.
LEMMA LeastExists ==
    ASSUME NEW T \in SUBSET Nat, T # {}
    PROVE  \E x \in T : \A y \in T : x <= y
<1> DEFINE R == StrictSubsetOrdering(Nat)
           Below == {1 .. n : n \in T}
<1>1. IsWellFoundedOn(R, FiniteSubsetsOf(Nat))
  BY FS_StrictSubsetOrderingWellFounded
<1>2. Below \subseteq FiniteSubsetsOf(Nat) /\ Below # {}
  <2>1. \A n \in T : 1 .. n \subseteq Nat /\ IsFiniteSet(1 .. n)
    BY FS_Interval
  <2>2. QED
    BY <2>1 DEF FiniteSubsetsOf
<1>3. \E b \in Below : \A c \in Below : ~ (<<c, b>> \in R)
  <2> HIDE DEF R, Below
  <2>1. QED
    BY <1>1, <1>2, WFMin
<1>4. PICK x \in T : \A y \in T : ~ (<<1 .. y, 1 .. x>> \in R)
  BY <1>3
<1>5. ASSUME NEW y \in T, y < x PROVE FALSE
  <2>1. 1 .. y \subseteq 1 .. x /\ x \in 1 .. x /\ x \notin 1 .. y
    BY <1>5
  <2>2. 1 .. y \in SUBSET Nat /\ 1 .. x \in SUBSET Nat
    OBVIOUS
  <2>3. <<1 .. y, 1 .. x>> \in R
    BY <2>1, <2>2 DEF StrictSubsetOrdering
  <2>4. QED
    BY <1>4, <2>3
<1>6. QED
  BY <1>5

LEMMA GreatestExists ==
    ASSUME NEW N \in Nat, NEW T \in SUBSET (1 .. N), T # {}
    PROVE  \E x \in T : \A y \in T : y <= x
<1> DEFINE Gap == {N - x : x \in T}
<1>1. Gap \in SUBSET Nat /\ Gap # {}
  <2>1. \A x \in T : N - x \in Nat
    OBVIOUS
  <2>2. QED
    BY <2>1
<1>2. PICK g \in Gap : \A h \in Gap : g <= h
  <2> HIDE DEF Gap
  <2>1. QED
    BY <1>1, LeastExists
<1>3. PICK x \in T : g = N - x
  OBVIOUS
<1>4. \A y \in T : N - x <= N - y
  BY <1>2, <1>3
<1>5. QED
  BY <1>3, <1>4

-----------------------------------------------------------------------------
(* Inputs and their profiles *)

\* The i-th input of a configuration and what its first profile says of it.
Tensor(c, i) == c.model.inputs[i]
First(c, i) == c.profiles[1][Tensor(c, i).name]

\* The names of the inputs of an accepted configuration tell them apart.
LEMMA NamesAreDistinct ==
    ASSUME NEW c, Typed(c), Accepts(c),
           NEW i \in DOMAIN c.model.inputs, NEW j \in DOMAIN c.model.inputs,
           c.model.inputs[i].name = c.model.inputs[j].name
    PROVE  i = j
<1> DEFINE inputs == c.model.inputs
           N == Len(inputs)
           names == InputNames(c.model)
           f == [k \in 1 .. N |-> inputs[k].name]
<1>1. inputs \in Seq(Range(inputs)) /\ N \in Nat /\ DOMAIN inputs = 1 .. N
  BY DEF Typed, IsList
<1>2. Cardinality(names) = N
  BY DEF Accepts, ModelOK
<1>3. names = {inputs[k].name : k \in 1 .. N}
  BY <1>1 DEF InputNames
<1>4. f \in Surjection(1 .. N, names)
  BY <1>3 DEF Surjection
<1>5. IsFiniteSet(1 .. N) /\ Cardinality(1 .. N) = N
  <2>1. ASSUME NEW n \in Nat PROVE IsFiniteSet(1 .. n) /\ Cardinality(1 .. n) = n
    <3>1. IsFiniteSet(1 .. n) /\ Cardinality(1 .. n) = IF 1 > n THEN 0 ELSE n - 1 + 1
      BY FS_Interval
    <3>2. QED
      BY <3>1
  <2>2. QED
    BY <1>1, <2>1
<1>6. f \in Injection(1 .. N, names)
  <2> HIDE DEF f, names, N
  <2>1. QED
    BY <1>2, <1>4, <1>5, FS_SurjSameCardinalityImpliesInj
<1>7. f[i] = f[j] /\ i \in 1 .. N /\ j \in 1 .. N
  BY <1>1
<1> HIDE DEF f, names, N
<1>8. QED
  BY <1>6, <1>7 DEF Injection, IsInjective

\* An input is found by its name.
LEMMA InputIs ==
    ASSUME NEW c, Typed(c), Accepts(c), NEW i \in DOMAIN c.model.inputs
    PROVE  /\ c.model.inputs[i].name \in InputNames(c.model)
           /\ Input(c.model, c.model.inputs[i].name) = c.model.inputs[i]
<1> DEFINE spec == c.model.inputs[i]
<1>1. spec.name \in InputNames(c.model)
  BY DEF InputNames
<1>2. spec \in Range(c.model.inputs)
  BY DEF Range
<1>3. \A other \in Range(c.model.inputs) : other.name = spec.name => other = spec
  BY NamesAreDistinct DEF Range
<1>4. QED
  BY <1>1, <1>2, <1>3 DEF Input

\* The first profile covers every dynamic input, axis by axis.
LEMMA FirstProfile ==
    ASSUME NEW c, Typed(c), Accepts(c), ~ ProfileShapesFail(c),
           NEW i \in DOMAIN c.model.inputs, IsDynamic(Tensor(c, i))
    PROVE  /\ c.profiles # << >> /\ 1 \in DOMAIN c.profiles
           /\ Tensor(c, i).name \in DOMAIN c.profiles[1]
           /\ First(c, i) \in [{"min", "opt", "max"} -> Seq(Int)]
           /\ \A which \in {"min", "opt", "max"} :
                /\ Len(First(c, i)[which]) = Len(Tensor(c, i).shape)
                /\ DOMAIN First(c, i)[which] = DOMAIN Tensor(c, i).shape
           /\ \A k \in DOMAIN Tensor(c, i).shape :
                /\ First(c, i).min[k] <= First(c, i).opt[k] /\ First(c, i).opt[k] <= First(c, i).max[k]
                /\ k \notin DynamicAxes(Tensor(c, i)) =>
                     /\ First(c, i).min[k] = Tensor(c, i).shape[k].size
                     /\ First(c, i).opt[k] = Tensor(c, i).shape[k].size
                     /\ First(c, i).max[k] = Tensor(c, i).shape[k].size
<1> DEFINE spec == Tensor(c, i)
           range == First(c, i)
<1>1. spec \in Range(c.model.inputs)
  BY DEF Range, Tensor
<1>2. c.profiles # << >> /\ \A p \in Range(c.profiles) : spec.name \in DOMAIN p
  BY <1>1 DEF ProfileShapesFail
<1>3. 1 \in DOMAIN c.profiles /\ c.profiles[1] \in Range(c.profiles)
  <2>1. c.profiles \in Seq(Range(c.profiles))
    BY DEF Typed, IsList
  <2>2. 1 \in DOMAIN c.profiles
    BY <1>2, <2>1
  <2>3. QED
    BY <2>2 DEF Range
<1>4. spec.name \in DOMAIN c.profiles[1]
  BY <1>2, <1>3
<1>5. range \in [{"min", "opt", "max"} -> Seq(Int)]
  BY <1>3, <1>4 DEF Typed, First
<1>6. ShapeRangeOK(range) /\ RangeFitsSpec(range, spec)
  <2>1. ShapeRangeOK(range) /\ RangeFitsSpec(range, Input(c.model, spec.name))
    BY <1>3, <1>4 DEF Accepts, ProfilesOK, First
  <2>2. QED
    BY <2>1, InputIs DEF Tensor
<1>7. IsList(spec.shape)
  BY <1>1 DEF Typed
<1> HIDE DEF range, spec
<1>8. \A which \in {"min", "opt", "max"} :
        Len(range[which]) = Len(spec.shape) /\ DOMAIN range[which] = DOMAIN spec.shape
  BY <1>5, <1>6, <1>7 DEF ShapeRangeOK, RangeFitsSpec, IsList
<1>9. \A k \in DOMAIN spec.shape :
        range.min[k] <= range.opt[k] /\ range.opt[k] <= range.max[k]
  BY <1>6, <1>8 DEF ShapeRangeOK
<1>10. \A k \in DOMAIN spec.shape \ DynamicAxes(spec) :
         range.min[k] = spec.shape[k].size /\ range.opt[k] = spec.shape[k].size
         /\ range.max[k] = spec.shape[k].size
  BY <1>6 DEF RangeFitsSpec
<1>11. QED
  BY <1>2, <1>3, <1>4, <1>5, <1>8, <1>9, <1>10 DEF range, spec
-----------------------------------------------------------------------------
(* Sizes of symbols *)

\* The sizes that are in use: smallest, most likely, largest.
Which == {"min", "opt", "max"}
Sym(c, i, k) == Tensor(c, i).shape[k].sym

\* An axis of an input that the first profile covers gives its symbol a size.
LEMMA AxisIsGiven ==
    ASSUME NEW c, Typed(c), Accepts(c), ~ ProfileShapesFail(c), NEW which \in Which,
           NEW i \in DOMAIN c.model.inputs, NEW k \in DynamicAxes(Tensor(c, i))
    PROVE  <<Sym(c, i, k), First(c, i)[which][k]>> \in Given(c, which)
<1> DEFINE spec == Tensor(c, i)
           Pairs(name) == {<<Input(c.model, name).shape[j].sym, c.profiles[1][name][which][j]>> :
                             j \in DynamicAxes(Input(c.model, name))}
<1>1. IsDynamic(spec)
  BY DEF IsDynamic
<1>2. c.profiles # << >> /\ spec.name \in DOMAIN c.profiles[1]
  BY <1>1, FirstProfile
<1>3. Input(c.model, spec.name) = spec
  BY InputIs DEF Tensor
<1>4. Given(c, which) = UNION {Pairs(name) : name \in DOMAIN c.profiles[1]}
  BY <1>2 DEF Given
<1>5. <<Sym(c, i, k), First(c, i)[which][k]>> \in Pairs(spec.name)
  BY <1>3 DEF Sym, First
<1> HIDE DEF Pairs, spec
<1>6. QED
  BY <1>2, <1>4, <1>5

\* Without a conflict it is the size that the symbol is given.
LEMMA SizeOfAxis ==
    ASSUME NEW c, Typed(c), Accepts(c), ~ ProfileShapesFail(c),
           NEW which \in Which, ~ Conflicting(c, which),
           NEW i \in DOMAIN c.model.inputs, NEW k \in DynamicAxes(Tensor(c, i))
    PROVE  /\ Sym(c, i, k) \in Symbols(c.model)
           /\ Sizes(c, which)[Sym(c, i, k)] = First(c, i)[which][k]
<1> DEFINE spec == Tensor(c, i)
           s == Sym(c, i, k)
           size == First(c, i)[which][k]
           given == Given(c, which)
<1>1. s \in Symbols(c.model)
  <2>1. spec \in Range(c.model.inputs) /\ s \in SpecSymbols(spec)
    BY DEF Range, SpecSymbols, Tensor, Sym
  <2>2. QED
    BY <2>1 DEF Symbols
<1>2. <<s, size>> \in given
  BY AxisIsGiven
<1>3. \A g \in given : g[1] = s => g[2] = size
  BY <1>2 DEF Conflicting
<1>4. (CHOOSE g \in given : g[1] = s)[2] = size
  <2> HIDE DEF given, s, size
  <2>1. \E g \in given : g[1] = s
    BY <1>2
  <2>2. QED
    BY <1>3, <2>1
<1>5. Sizes(c, which)[s] = IF \E g \in given : g[1] = s THEN (CHOOSE g \in given : g[1] = s)[2]
                           ELSE Sizes(c, which)[s]
  BY <1>1, <1>2 DEF Sizes, SizesWith
<1>6. \E g \in given : g[1] = s
  BY <1>2
<1>7. Sizes(c, which)[s] = size
  <2> HIDE DEF given, s, size
  <2>1. QED
    BY <1>4, <1>5, <1>6
<1>8. QED
  BY <1>1, <1>7

\* Two axes of one symbol have one range.
LEMMA OneRange ==
    ASSUME NEW c, Typed(c), Accepts(c), ~ ProfileShapesFail(c),
           NEW which \in Which, ~ Conflicting(c, which),
           NEW i \in DOMAIN c.model.inputs, NEW k \in DynamicAxes(Tensor(c, i)),
           NEW j \in DOMAIN c.model.inputs, NEW l \in DynamicAxes(Tensor(c, j)),
           Sym(c, i, k) = Sym(c, j, l)
    PROVE  First(c, i)[which][k] = First(c, j)[which][l]
<1>1. Sizes(c, which)[Sym(c, i, k)] = First(c, i)[which][k]
  BY SizeOfAxis
<1>2. Sizes(c, which)[Sym(c, j, l)] = First(c, j)[which][l]
  BY SizeOfAxis
<1>3. QED
  BY <1>1, <1>2

-----------------------------------------------------------------------------
(* What an engine accepts *)

\* The inputs of every engine of a configuration.
Bindings(c) == EngineInfo(c, << >>).inputs
Binding(c, i) == Bindings(c)[i]

LEMMA BindingIs ==
    ASSUME NEW c, Typed(c), Accepts(c), ~ ProfileShapesFail(c), NEW i \in DOMAIN c.model.inputs
    PROVE  /\ Binding(c, i).name = Tensor(c, i).name
           /\ Binding(c, i).shape = EngineShape(Tensor(c, i).shape)
           /\ DOMAIN Binding(c, i).shape = DOMAIN Tensor(c, i).shape
           /\ \A k \in DOMAIN Tensor(c, i).shape :
                Binding(c, i).shape[k] = IF k \in DynamicAxes(Tensor(c, i)) THEN -1
                                         ELSE Tensor(c, i).shape[k].size
           /\ Dynamic(Binding(c, i)) <=> IsDynamic(Tensor(c, i))
           /\ IsDynamic(Tensor(c, i)) =>
                /\ DOMAIN Binding(c, i).profiles = DOMAIN c.profiles
                /\ Binding(c, i).profiles[1] = First(c, i)
           /\ ~ IsDynamic(Tensor(c, i)) => Binding(c, i).profiles = << >>
<1> DEFINE spec == Tensor(c, i)
           b == Binding(c, i)
<1>1. b = [name |-> spec.name, shape |-> EngineShape(spec.shape),
           profiles |-> IF ~IsDynamic(spec) THEN << >>
                        ELSE [p \in DOMAIN c.profiles |-> ProfileShapes(c)[p][spec.name]]]
  BY DEF Bindings, Binding, EngineInfo, Tensor
<1> HIDE DEF b, spec
<1>2. b.name = spec.name /\ b.shape = EngineShape(spec.shape)
  BY <1>1
<1>3. b.profiles = IF ~IsDynamic(spec) THEN << >>
                   ELSE [p \in DOMAIN c.profiles |-> ProfileShapes(c)[p][spec.name]]
  BY <1>1
<1>4. \A k \in DOMAIN spec.shape : k \in DynamicAxes(spec) <=> IsDynamicDim(spec.shape[k])
  BY DEF DynamicAxes
<1>5. /\ DOMAIN b.shape = DOMAIN spec.shape
      /\ \A k \in DOMAIN spec.shape :
           b.shape[k] = IF IsDynamicDim(spec.shape[k]) THEN -1 ELSE spec.shape[k].size
  BY <1>2 DEF EngineShape
<1>6. \A k \in DOMAIN spec.shape \ DynamicAxes(spec) :
        spec.shape[k].size \in Int /\ spec.shape[k].size >= 1
  <2>1. TensorSpecOK(spec)
    BY DEF Accepts, ModelOK, spec, Tensor
  <2>2. \A d \in Range(spec.shape) : d.size \in Int
    BY DEF Typed, Range, spec, Tensor
  <2>3. QED
    BY <1>4, <2>1, <2>2 DEF TensorSpecOK, Range
<1>7. Dynamic(b) <=> IsDynamic(spec)
  <2>1. ASSUME NEW k \in DynamicAxes(spec) PROVE Dynamic(b)
    <3>1. k \in DOMAIN spec.shape
      BY DEF DynamicAxes
    <3>2. b.shape[k] = -1 /\ k \in DOMAIN b.shape
      BY <1>4, <1>5, <3>1
    <3>3. QED
      BY <3>2 DEF Dynamic
  <2>2. ASSUME NEW k \in DOMAIN b.shape, b.shape[k] < 0 PROVE k \in DynamicAxes(spec)
    BY <1>4, <1>5, <1>6, <2>2
  <2>3. QED
    BY <2>1, <2>2 DEF Dynamic, IsDynamic
<1>8. ASSUME IsDynamic(spec)
      PROVE  DOMAIN b.profiles = DOMAIN c.profiles /\ b.profiles[1] = First(c, i)
  <2>1. b.profiles = [p \in DOMAIN c.profiles |-> ProfileShapes(c)[p][spec.name]]
    BY <1>3, <1>8
  <2>2. 1 \in DOMAIN c.profiles /\ spec.name \in DOMAIN c.profiles[1]
    BY <1>8, FirstProfile DEF spec
  <2>3. ProfileShapes(c)[1][spec.name] = c.profiles[1][spec.name]
    <3>1. spec.name \in InputNames(c.model)
      BY InputIs DEF spec, Tensor
    <3>2. QED
      BY <2>2, <3>1 DEF ProfileShapes
  <2>4. QED
    BY <2>1, <2>2, <2>3 DEF First, spec
<1>9. ~ IsDynamic(spec) => b.profiles = << >>
  BY <1>3
<1>10. QED
  BY <1>2, <1>4, <1>5, <1>7, <1>8, <1>9 DEF b, spec

\* Sizes within the first profile are sizes an execution accepts.
LEMMA SizesFit ==
    ASSUME NEW c, Typed(c), Accepts(c), ~ ProfileShapesFail(c),
           NEW info, info.inputs = Bindings(c), NEW sizes,
           \A i \in DOMAIN c.model.inputs : \A k \in DynamicAxes(Tensor(c, i)) :
             First(c, i).min[k] <= sizes[Sym(c, i, k)] /\ sizes[Sym(c, i, k)] <= First(c, i).max[k]
    PROVE  BindOK(info, InputShapes(c, sizes))
<1>1. DOMAIN Bindings(c) = DOMAIN c.model.inputs
  BY DEF Bindings, EngineInfo
<1>2. SUFFICES ASSUME NEW i \in DOMAIN c.model.inputs
               PROVE  /\ Binding(c, i).name \in DOMAIN InputShapes(c, sizes)
                      /\ SetInputOK(Binding(c, i), InputShapes(c, sizes)[Binding(c, i).name])
  BY <1>1 DEF BindOK, Range, Binding
<1> DEFINE spec == Tensor(c, i)
           b == Binding(c, i)
           range == First(c, i)
           shape == ConcreteShape(spec, sizes)
<1>3. /\ b.name = spec.name /\ b.name \in DOMAIN InputShapes(c, sizes)
      /\ InputShapes(c, sizes)[b.name] = shape
  <2>1. spec.name \in InputNames(c.model) /\ Input(c.model, spec.name) = spec
    BY InputIs DEF Tensor
  <2>2. b.name = spec.name
    BY BindingIs
  <2>3. QED
    BY <2>1, <2>2 DEF InputShapes
<1>4. IsList(spec.shape)
  BY DEF Typed, Range, Tensor
<1>5. DOMAIN shape = DOMAIN spec.shape
  BY DEF ConcreteShape
<1>6. \A k \in DOMAIN spec.shape :
        shape[k] = IF k \in DynamicAxes(spec) THEN sizes[Sym(c, i, k)] ELSE spec.shape[k].size
  BY DEF ConcreteShape, DynamicAxes, Sym
<1>7. Len(shape) = Len(spec.shape)
  <2>1. Len(spec.shape) \in Nat /\ DOMAIN spec.shape = 1 .. Len(spec.shape)
    BY <1>4 DEF IsList
  <2>2. QED
    BY <2>1 DEF ConcreteShape
<1>8. \A k \in DynamicAxes(spec) :
        range.min[k] <= sizes[Sym(c, i, k)] /\ sizes[Sym(c, i, k)] <= range.max[k]
  OBVIOUS
<1>9. CASE IsDynamic(spec)
  <2>1. Dynamic(b) /\ b.profiles[1] = range
    BY <1>9, BindingIs
  <2>2. /\ range \in [{"min", "opt", "max"} -> Seq(Int)]
        /\ \A which \in {"min", "opt", "max"} :
             Len(range[which]) = Len(spec.shape) /\ DOMAIN range[which] = DOMAIN spec.shape
        /\ \A k \in DOMAIN spec.shape : k \notin DynamicAxes(spec) =>
             range.min[k] = spec.shape[k].size /\ range.max[k] = spec.shape[k].size
    BY <1>9, FirstProfile
  <2> HIDE DEF range, shape, b, spec
  <2>3. ASSUME NEW k \in DOMAIN shape PROVE range.min[k] <= shape[k] /\ shape[k] <= range.max[k]
    <3>1. k \in DOMAIN spec.shape
      BY <1>5
    <3>2. CASE k \in DynamicAxes(spec)
      BY <1>6, <1>8, <3>1, <3>2
    <3>3. CASE k \notin DynamicAxes(spec)
      <4>1. range.min[k] \in Int
        <5>1. range.min \in Seq(Int) /\ k \in DOMAIN range.min
          BY <2>2, <3>1
        <5>2. QED
          BY <5>1
      <4>2. range.min[k] = spec.shape[k].size /\ range.max[k] = spec.shape[k].size
        BY <2>2, <3>1, <3>3
      <4>3. shape[k] = spec.shape[k].size
        BY <1>6, <3>1, <3>3
      <4>4. QED
        BY <4>1, <4>2, <4>3
    <3>4. QED
      BY <3>2, <3>3
  <2>4. Inside(shape, range)
    <3>1. Len(range.min) = Len(spec.shape)
      BY <2>2
    <3>2. QED
      BY <1>7, <2>3, <3>1 DEF Inside
  <2>5. QED
    BY <1>3, <2>1, <2>4 DEF SetInputOK, b
<1>10. CASE ~ IsDynamic(spec)
  <2>1. ~ Dynamic(b) /\ b.shape = EngineShape(spec.shape)
    BY <1>10, BindingIs
  <2>2. \A k \in DOMAIN spec.shape : ~ IsDynamicDim(spec.shape[k])
    BY <1>10 DEF IsDynamic, DynamicAxes
  <2>3. shape = EngineShape(spec.shape)
    BY <2>2 DEF ConcreteShape, EngineShape
  <2> HIDE DEF shape, b, spec
  <2>4. QED
    BY <1>3, <2>1, <2>3 DEF SetInputOK, b
<1>11. QED
  BY <1>9, <1>10

\* A batch size that batch_inputs lets through fits the first profile on every input.
LEMMA BatchFits ==
    ASSUME NEW c, Typed(c), Accepts(c), ~ ProfileShapesFail(c), ~ SignatureConflict(c),
           NEW info, info.inputs = Bindings(c), NEW batch, ~ BatchRefused(c, batch)
    PROVE  BindOK(info, BatchInputs(c, batch))
<1> DEFINE lead == Tensor(c, 1).shape[1]
           opt == Sizes(c, "opt")
           sizes == IF IsDynamicDim(lead) THEN [opt EXCEPT ![lead.sym] = batch] ELSE opt
<1>1. 1 \in DOMAIN c.model.inputs
  <2>1. c.model.inputs \in Seq(Range(c.model.inputs)) /\ c.model.inputs # << >>
    BY DEF Typed, IsList, Accepts, ModelOK
  <2>2. QED
    BY <2>1
<1>2. 1 \in DOMAIN Tensor(c, 1).shape
  <2>1. Tensor(c, 1).shape # << >>
    BY <1>1 DEF Accepts, ModelOK, TensorSpecOK, Tensor
  <2>2. IsList(Tensor(c, 1).shape)
    BY <1>1 DEF Typed, Range, Tensor
  <2>3. QED
    BY <2>1, <2>2 DEF IsList
<1>3. \A which \in Which : ~ Conflicting(c, which)
  BY DEF SignatureConflict, Which
<1>4. DOMAIN opt = Symbols(c.model)
  BY DEF Sizes, SizesWith
<1>5. BatchInputs(c, batch) = InputShapes(c, sizes)
  BY DEF BatchInputs, Tensor
<1>6. ASSUME NEW i \in DOMAIN c.model.inputs, NEW k \in DynamicAxes(Tensor(c, i))
      PROVE  /\ First(c, i).min[k] <= sizes[Sym(c, i, k)]
             /\ sizes[Sym(c, i, k)] <= First(c, i).max[k]
  <2>1. IsDynamic(Tensor(c, i)) /\ k \in DOMAIN Tensor(c, i).shape
    BY DEF IsDynamic, DynamicAxes
  <2>2. Sym(c, i, k) \in Symbols(c.model) /\ opt[Sym(c, i, k)] = First(c, i)["opt"][k]
    BY <1>3, SizeOfAxis DEF Which
  <2>3. First(c, i).min[k] <= First(c, i).opt[k] /\ First(c, i).opt[k] <= First(c, i).max[k]
    BY <2>1, FirstProfile
  <2>4. CASE IsDynamicDim(lead) /\ lead.sym = Sym(c, i, k)
    <3>1. 1 \in DynamicAxes(Tensor(c, 1)) /\ Sym(c, 1, 1) = lead.sym
      BY <1>2, <2>4 DEF DynamicAxes, Sym
    <3>2. /\ First(c, 1)["min"][1] = First(c, i)["min"][k]
          /\ First(c, 1)["max"][1] = First(c, i)["max"][k]
      BY <1>1, <1>3, <2>4, <3>1, OneRange DEF Which
    <3>3. c.profiles # << >> /\ Tensor(c, 1).name \in DOMAIN c.profiles[1]
      BY <1>1, <3>1, FirstProfile DEF IsDynamic
    <3>4. First(c, 1).min[1] <= batch /\ batch <= First(c, 1).max[1]
      BY <2>4, <3>3 DEF BatchRefused, Tensor, First
    <3>5. sizes[Sym(c, i, k)] = batch
      BY <1>4, <2>2, <2>4
    <3>6. QED
      BY <3>2, <3>4, <3>5
  <2>5. CASE ~ (IsDynamicDim(lead) /\ lead.sym = Sym(c, i, k))
    <3>1. sizes[Sym(c, i, k)] = opt[Sym(c, i, k)]
      BY <1>4, <2>2, <2>5
    <3>2. QED
      BY <2>2, <2>3, <3>1
  <2>6. QED
    BY <2>4, <2>5
<1> HIDE DEF sizes
<1>7. QED
  BY <1>5, <1>6, SizesFit

-----------------------------------------------------------------------------
(* Stages *)

\* What is known of the configuration at each stage.
Control ==
    /\ \E c \in Cases : config = c.config
    /\ at \in 0 .. 10
    /\ at \in 1 .. 9 => Accepts(config)
    /\ at \in 2 .. 9 \/ signature # None => Accepts(config) /\ ~ SignatureConflict(config)

\* Every engine has the inputs and profiles of the configuration.
EnginesAreBuilt ==
    /\ IsList(engines)
    /\ engines # << >> => Accepts(config) /\ ~ ProfileShapesFail(config)
    /\ \A i \in DOMAIN engines : engines[i].info.inputs = Bindings(config)

LEMMA Places == Len(Order) = 9 /\ DOMAIN Order = 1 .. 9
  BY DEF Order

\* Only the first stage runs before the signature is known to be free of conflicts.
LEMMA StageIsAt ==
    ASSUME NEW name, Stage(name)
    PROVE  at \in 1 .. 9 /\ (name # "inspect" => at \in 2 .. 9)
<1>1. at \in 1 .. 9 /\ Order[at] = name
  BY Places DEF Stage
<1>2. Order[1] = "inspect"
  BY DEF Order
<1>3. QED
  BY <1>1, <1>2

\* A stage that runs has an accepted configuration without conflicts.
LEMMA StageIsKnown ==
    ASSUME Control, NEW name, name # "inspect", Stage(name)
    PROVE  at \in 2 .. 9 /\ Accepts(config) /\ ~ SignatureConflict(config)
  BY StageIsAt DEF Control

\* A stage leads to the next one or to the end, and leaves the configuration alone.
LEMMA StageMoves ==
    ASSUME Control, NEW name, name # "inspect", Stage(name), config' = config,
           signature' = signature, at' = at + 1 \/ at' = Len(Order) + 1
    PROVE  Control'
<1>1. at \in 2 .. 9 /\ Accepts(config) /\ ~ SignatureConflict(config)
  BY StageIsKnown
<1>2. at' \in 0 .. 10
  BY <1>1, Places
<1>3. QED
  BY <1>1, <1>2 DEF Control

LEMMA ControlStep == Control /\ [Next]_vars => Control'
<1> SUFFICES ASSUME Control, [Next]_vars PROVE Control'
  OBVIOUS
<1> USE DEF case
<1>1. CASE Load
  <2>1. CASE Accepts(config)
    BY <1>1, <2>1, Places DEF Load, Control, Advance
  <2>2. CASE ~ Accepts(config)
    BY <1>1, <2>2, Places DEF Load, Control, Fail
  <2>3. QED
    BY <2>1, <2>2
<1>2. CASE PassOver
  BY <1>2, Places DEF PassOver, Control, Advance
<1>3. CASE Again
  BY <1>3 DEF Again, Control
<1>4. CASE Inspect
  <2>1. at \in 1 .. 9 /\ Accepts(config)
    BY <1>4, StageIsAt DEF Inspect, Control
  <2>2. CASE Advance /\ ~ SignatureConflict(config)
    BY <2>1, <2>2 DEF Control, Advance
  <2>3. CASE (\E e \in {"ConfigError", "ModelError"} : Fail(e)) /\ signature' = signature
    BY <2>3, Places DEF Control, Fail
  <2>4. QED
    BY <1>4, <2>2, <2>3 DEF Inspect
<1>5. CASE Export
  BY <1>5, StageMoves DEF Export, Advance, Fail
<1>6. CASE OptimizeStage
  BY <1>6, StageMoves DEF OptimizeStage, Advance, Fail
<1>7. CASE ValidateOnnx
  BY <1>7, StageMoves DEF ValidateOnnx, Advance, Fail
<1>8. CASE Calibrate
  BY <1>8, StageMoves DEF Calibrate, Advance, Fail
<1>9. CASE Build
  BY <1>9, StageMoves DEF Build, Advance, Fail
<1>10. CASE ValidateEngine
  BY <1>10, StageMoves DEF ValidateEngine, Advance, Fail
<1>11. ASSUME NEW batch, Benchmark(batch) PROVE Control'
  BY <1>11, StageMoves DEF Benchmark
<1>12. ASSUME NEW triton, Package(triton) PROVE Control'
  BY <1>12, StageMoves DEF Package, Advance, Fail
<1>13. CASE UNCHANGED vars
  BY <1>13 DEF vars, Control
<1>14. QED
  BY <1>1, <1>2, <1>3, <1>4, <1>5, <1>6, <1>7, <1>8, <1>9, <1>10, <1>11, <1>12, <1>13 DEF Next

\* The configuration never changes, and the engines only by a build, which adds some.
LEMMA EnginesOnlyGrow ==
    ASSUME [Next]_vars
    PROVE  /\ config' = config /\ model' = model
           /\ engines' = engines \/ Build
  BY DEF Next, vars, case, Load, PassOver, Again, Inspect, Export, OptimizeStage, ValidateOnnx,
         Calibrate, Build, ValidateEngine, Benchmark, Package, Advance, Fail

LEMMA TypedConfig == Control => Typed(config)
  BY DeploymentAssumption DEF Control

LEMMA SeqIn ==
    ASSUME NEW S, NEW T, S \subseteq T, NEW s \in Seq(S)
    PROVE  s \in Seq(T)
<1>1. s = [i \in 1 .. Len(s) |-> s[i]] /\ \A i \in 1 .. Len(s) : s[i] \in T
  OBVIOUS
<1>2. QED
  BY <1>1

LEMMA SeqIsList ==
    ASSUME NEW S, NEW s \in Seq(S)
    PROVE  IsList(s)
<1>1. \A i \in 1 .. Len(s) : s[i] \in Range(s)
  BY DEF Range
<1>2. QED
  BY <1>1 DEF IsList

\* What a build adds are engines of the configuration, and the old ones keep their places.
LEMMA BuildAppends ==
    ASSUME Control, EnginesAreBuilt, Build
    PROVE  /\ EnginesAreBuilt'
           /\ \A i \in DOMAIN engines : i \in DOMAIN engines' /\ engines'[i] = engines[i]
<1>1. PICK n \in 0 .. Len(config.precisions) :
         /\ \A i \in 1 .. n : ~ CannotBuild(config.precisions[i])
         /\ engines' = engines \o [i \in 1 .. n |-> Engine(config.precisions[i])]
  BY DEF Build
<1> DEFINE new == [i \in 1 .. n |-> Engine(config.precisions[i])]
<1>2. n \in Nat /\ new \in Seq(Range(new)) /\ Len(new) = n
  BY DEF Range
<1>3. engines \in Seq(Range(engines)) /\ Len(engines) \in Nat /\ DOMAIN engines = 1 .. Len(engines)
  BY DEF EnginesAreBuilt, IsList
<1>4. Accepts(config) /\ config' = config
  BY StageIsKnown DEF Build, Advance, Fail, case
<1>5. \A i \in 1 .. n : new[i].info.inputs = Bindings(config)
  BY DEF Engine, EngineInfo, Bindings
<1>6. n > 0 => ~ ProfileShapesFail(config)
  BY <1>1 DEF CannotBuild
<1> HIDE DEF new
<1>7. /\ DOMAIN engines' = 1 .. (Len(engines) + n)
      /\ Len(engines') = Len(engines) + n
      /\ \A i \in 1 .. Len(engines) : engines'[i] = engines[i]
      /\ \A i \in (Len(engines) + 1) .. (Len(engines) + n) : engines'[i] = new[i - Len(engines)]
  BY <1>1, <1>2, <1>3 DEF new
<1>8. IsList(engines')
  <2> DEFINE All == Range(engines) \cup Range(new)
  <2>1. engines \in Seq(All) /\ new \in Seq(All)
    BY <1>2, <1>3, SeqIn
  <2> HIDE DEF All
  <2>2. engines \o new \in Seq(All)
    BY <2>1
  <2>3. IsList(engines \o new)
    BY <2>2, SeqIsList
  <2>4. QED
    BY <1>1, <2>3 DEF new
<1>9. \A i \in DOMAIN engines' : engines'[i].info.inputs = Bindings(config)
  <2>1. ASSUME NEW i \in DOMAIN engines' PROVE engines'[i].info.inputs = Bindings(config)
    <3>1. CASE i \in 1 .. Len(engines)
      BY <1>3, <1>7, <3>1 DEF EnginesAreBuilt
    <3>2. CASE i \in (Len(engines) + 1) .. (Len(engines) + n)
      <4>1. i - Len(engines) \in 1 .. n
        BY <1>2, <1>3, <3>2
      <4>2. QED
        BY <1>5, <1>7, <3>2, <4>1
    <3>3. QED
      BY <1>2, <1>3, <1>7, <3>1, <3>2
  <2>2. QED
    BY <2>1
<1>10. engines' # << >> => ~ ProfileShapesFail(config)
  <2>1. CASE n > 0
    BY <1>6, <2>1
  <2>2. CASE n = 0
    BY <1>2, <1>3, <1>7, <2>2 DEF EnginesAreBuilt
  <2>3. QED
    BY <1>2, <2>1, <2>2
<1>11. QED
  BY <1>3, <1>4, <1>7, <1>8, <1>9, <1>10 DEF EnginesAreBuilt

LEMMA EnginesStep == Control /\ EnginesAreBuilt /\ [Next]_vars => EnginesAreBuilt'
<1> SUFFICES ASSUME Control, EnginesAreBuilt, [Next]_vars PROVE EnginesAreBuilt'
  OBVIOUS
<1>1. CASE Build
  BY <1>1, BuildAppends
<1>2. CASE engines' = engines
  BY <1>2, EnginesOnlyGrow DEF EnginesAreBuilt
<1>3. QED
  BY <1>1, <1>2, EnginesOnlyGrow

LEMMA ControlAndEngines == Spec => [](Control /\ EnginesAreBuilt)
<1>1. Init => Control /\ EnginesAreBuilt
  <2> SUFFICES ASSUME Init PROVE Control /\ EnginesAreBuilt
    OBVIOUS
  <2>1. Control
    BY DEF Init, Control
  <2>2. engines = << >>
    BY DEF Init
  <2>3. IsList(<< >>)
    BY DEF IsList
  <2>4. QED
    BY <2>1, <2>2, <2>3 DEF EnginesAreBuilt
<1>2. QED
  BY <1>1, ControlStep, EnginesStep, PTL DEF Spec

-----------------------------------------------------------------------------
(* What is measured *)

\* Of a non-empty set of places in a list, one is the last.
LEMMA LastExists ==
    ASSUME NEW N \in Nat, NEW T \in SUBSET (1 .. N), T # {}
    PROVE  Max(T) \in T /\ \A y \in T : y <= Max(T)
<1>1. \E x \in T : \A y \in T : x >= y
  <2>1. PICK x \in T : \A y \in T : y <= x
    BY GreatestExists
  <2>2. QED
    BY <2>1
<1>2. Max(T) \in T /\ \A y \in T : Max(T) >= y
  BY <1>1 DEF Max
<1>3. QED
  BY <1>2

LEMMA LastIs ==
    ASSUME NEW N \in Nat, NEW T \in SUBSET (1 .. N), N \in T
    PROVE  Max(T) = N
<1>1. Max(T) \in T /\ N <= Max(T)
  BY LastExists
<1>2. ASSUME NEW x \in T, N <= x PROVE x = N
  BY <1>2
<1>3. QED
  BY <1>1, <1>2, Zenon

\* Every precision that was built has a newest engine.
LEMMA LatestIs ==
    ASSUME IsList(engines), NEW p \in Built
    PROVE  /\ LatestEngine(p) \in DOMAIN engines /\ engines[LatestEngine(p)].precision = p
           /\ \A i \in DOMAIN engines : engines[i].precision = p => i <= LatestEngine(p)
<1> DEFINE places == {i \in DOMAIN engines : engines[i].precision = p}
<1>1. Len(engines) \in Nat /\ DOMAIN engines = 1 .. Len(engines)
  BY DEF IsList
<1>2. places \in SUBSET (1 .. Len(engines)) /\ places # {}
  BY <1>1 DEF Built
<1>3. LatestEngine(p) = Max(places)
  BY DEF LatestEngine
<1> HIDE DEF places
<1>4. Max(places) \in places /\ \A y \in places : y <= Max(places)
  BY <1>1, <1>2, LastExists
<1>5. QED
  BY <1>3, <1>4 DEF places

(* BenchmarkFits holds in every behavior: an engine is only measured at shapes    *)
(* that its first profile allows on every input, although batch_inputs             *)
(* (benchmark/targets.py) compares only the first input with it.                   *)
THEOREM BenchmarkFitsCorrect == Spec => []BenchmarkFits
<1>1. Init => BenchmarkFits
  BY DeploymentAssumption DEF Init, BenchmarkFits
<1>2. Control /\ EnginesAreBuilt /\ BenchmarkFits /\ [Next]_vars => BenchmarkFits'
  <2> SUFFICES ASSUME Control, EnginesAreBuilt, BenchmarkFits, [Next]_vars PROVE BenchmarkFits'
    OBVIOUS
  <2>1. ASSUME NEW batch, Benchmark(batch) PROVE BenchmarkFits'
    <3>1. Accepts(config) /\ ~ SignatureConflict(config)
      BY <2>1, StageIsKnown DEF Benchmark
    <3>2. ~ ProfileShapesFail(config)
      BY <2>1 DEF Benchmark, EnginesAreBuilt
    <3>3. CASE BatchRefused(config, batch)
      BY <2>1, <3>3 DEF Benchmark, BenchmarkFits
    <3>4. CASE ~ BatchRefused(config, batch)
      <4>1. ASSUME NEW p \in Built
            PROVE  BindOK(engines[LatestEngine(p)].info, BatchInputs(config, batch))
        <5>1. engines[LatestEngine(p)].info.inputs = Bindings(config)
          BY LatestIs DEF EnginesAreBuilt
        <5>2. QED
          BY <3>1, <3>2, <3>4, <5>1, TypedConfig, BatchFits
      <4>2. error' = None
        BY <2>1, <3>4, <4>1 DEF Benchmark
      <4>3. QED
        BY <4>2, DeploymentAssumption DEF BenchmarkFits
    <3>5. QED
      BY <3>3, <3>4
  <2>2. ASSUME ~ \E batch : Benchmark(batch) PROVE BenchmarkFits'
    <3>1. \/ error' \in {None, "ConfigError", "ModelError", "EnvironmentUnavailableError",
                         "ExportError", "ValidationFailedError", "CalibrationError",
                         "EngineBuildError", "TritonError"}
          \/ error' = error
      BY <2>2 DEF Next, vars, Load, PassOver, Again, Inspect, Export, OptimizeStage, ValidateOnnx,
         Calibrate, Build, BuildError, ValidateEngine, Package, Advance, Fail
    <3>2. QED
      BY <3>1, DeploymentAssumption DEF BenchmarkFits
  <2>3. QED
    BY <2>1, <2>2
<1>3. QED
  BY <1>1, <1>2, ControlAndEngines, PTL DEF Spec

-----------------------------------------------------------------------------
(* What is packaged *)

\* A report is about engines that exist, and an engine that the newest report is not
\* about, although an older one is, has a newer engine of its precision.
ReportsInOrder ==
    /\ IsList(reports)
    /\ \A i \in DOMAIN reports : \A e \in reports[i].engines :
         /\ e \in DOMAIN engines
         /\ \/ e \in Last(reports).engines
            \/ \E f \in DOMAIN engines : e < f /\ engines[f].precision = engines[e].precision

\* What is packaged exists, and config.pbtxt could be written for it.
RepositoryIsRendered ==
    repository # None =>
      /\ repository.engine \in DOMAIN engines
      /\ repository.reports \in 0 .. Len(reports)
      /\ repository.settings \in Settings
      /\ ~ RenderFails(engines[repository.engine].info, repository.settings)

LEMMA EnginesKeep ==
    ASSUME Control, EnginesAreBuilt, [Next]_vars
    PROVE  \A i \in DOMAIN engines : i \in DOMAIN engines' /\ engines'[i] = engines[i]
  BY EnginesOnlyGrow, BuildAppends

LEMMA ReportsOnlyGrow ==
    ASSUME [Next]_vars
    PROVE  /\ reports' = reports \/ (ValidateEngine /\ engines' = engines)
           /\ repository' = repository
                \/ (reports' = reports /\ engines' = engines /\ \E triton \in Settings : Package(triton))
  BY DEF Next, vars, case, Load, PassOver, Again, Inspect, Export, OptimizeStage, ValidateOnnx,
         Calibrate, Build, ValidateEngine, Benchmark, Package, Advance, Fail

\* A new report comes after the others, which keep their places.
LEMMA ReportAppended ==
    ASSUME IsList(reports), ValidateEngine
    PROVE  \E seen \in [Built -> Observed(config)] :
             LET report == Report(seen, Points(seen)) IN
             /\ reports' = Append(reports, report) /\ IsList(reports')
             /\ Len(reports') = Len(reports) + 1 /\ Last(reports') = report
             /\ reports'[Len(reports) + 1] = report
             /\ \A i \in 1 .. Len(reports) : reports'[i] = reports[i]
<1>1. PICK seen \in [Built -> Observed(config)] :
         reports' = Append(reports, Report(seen, Points(seen)))
  BY DEF ValidateEngine
<1> DEFINE report == Report(seen, Points(seen))
           All == Range(reports) \cup {report}
<1> HIDE DEF report
<1>2. reports \in Seq(All) /\ report \in All /\ reports \in Seq(Range(reports))
  BY SeqIn DEF IsList
<1>3. reports' = Append(reports, report)
  BY <1>1 DEF report
<1> HIDE DEF All
<1>4. Append(reports, report) \in Seq(All)
  BY <1>2
<1>5. IsList(reports')
  BY <1>3, <1>4, SeqIsList
<1>6. /\ Len(reports') = Len(reports) + 1
      /\ reports'[Len(reports) + 1] = report
      /\ \A i \in 1 .. Len(reports) : reports'[i] = reports[i]
  BY <1>2, <1>3
<1>7. Last(reports') = report
  BY <1>6 DEF Last
<1>8. QED
  BY <1>3, <1>5, <1>6, <1>7 DEF report

LEMMA ReportsStep ==
    Control /\ EnginesAreBuilt /\ ReportsInOrder /\ [Next]_vars => ReportsInOrder'
<1> SUFFICES ASSUME Control, EnginesAreBuilt, ReportsInOrder, [Next]_vars PROVE ReportsInOrder'
  OBVIOUS
<1>1. CASE ValidateEngine /\ engines' = engines
  <2>1. PICK seen \in [Built -> Observed(config)] :
          /\ IsList(reports') /\ Len(reports') = Len(reports) + 1
          /\ Last(reports') = Report(seen, Points(seen))
          /\ reports'[Len(reports) + 1] = Report(seen, Points(seen))
          /\ \A i \in 1 .. Len(reports) : reports'[i] = reports[i]
    BY <1>1, ReportAppended DEF ReportsInOrder
  <2>2. Last(reports').engines = {LatestEngine(p) : p \in Built}
    BY <2>1 DEF Report
  <2>3. reports'[Len(reports) + 1].engines = {LatestEngine(p) : p \in Built}
    BY <2>1 DEF Report
  <2>4. /\ Len(reports) \in Nat /\ DOMAIN reports = 1 .. Len(reports)
        /\ DOMAIN reports' = 1 .. (Len(reports) + 1)
    BY <2>1 DEF ReportsInOrder, IsList
  <2>5. ASSUME NEW i \in DOMAIN reports', NEW e \in reports'[i].engines
        PROVE  /\ e \in DOMAIN engines
               /\ \/ e \in Last(reports').engines
                  \/ \E f \in DOMAIN engines : e < f /\ engines[f].precision = engines[e].precision
    <3>1. e \in DOMAIN engines
      <4>1. CASE i \in 1 .. Len(reports)
        BY <2>1, <2>4, <2>5, <4>1 DEF ReportsInOrder
      <4>2. CASE i = Len(reports) + 1
        BY <2>3, <2>5, <4>2, LatestIs DEF EnginesAreBuilt
      <4>3. QED
        BY <2>4, <4>1, <4>2
    <3> DEFINE p == engines[e].precision
    <3>2. p \in Built
      BY <3>1 DEF Built
    <3>3. /\ LatestEngine(p) \in DOMAIN engines /\ engines[LatestEngine(p)].precision = p
          /\ e <= LatestEngine(p)
      BY <3>1, <3>2, LatestIs DEF EnginesAreBuilt
    <3>4. CASE e = LatestEngine(p)
      BY <2>2, <3>1, <3>2, <3>4
    <3>5. CASE e # LatestEngine(p)
      <4>1. e \in Nat /\ LatestEngine(p) \in Nat
        BY <3>1, <3>3 DEF EnginesAreBuilt, IsList
      <4>2. e < LatestEngine(p)
        BY <3>3, <3>5, <4>1
      <4>3. QED
        BY <3>1, <3>3, <4>2
    <3>6. QED
      BY <3>4, <3>5
  <2>6. QED
    BY <1>1, <2>1, <2>5 DEF ReportsInOrder
<1>2. CASE reports' = reports
  <2>1. ASSUME NEW i \in DOMAIN reports', NEW e \in reports'[i].engines
        PROVE  /\ e \in DOMAIN engines'
               /\ \/ e \in Last(reports').engines
                  \/ \E f \in DOMAIN engines' : e < f /\ engines'[f].precision = engines'[e].precision
    <3>1. /\ e \in DOMAIN engines
          /\ \/ e \in Last(reports).engines
             \/ \E f \in DOMAIN engines : e < f /\ engines[f].precision = engines[e].precision
      BY <1>2, <2>1 DEF ReportsInOrder
    <3>2. QED
      BY <1>2, <3>1, EnginesKeep
  <2>2. QED
    BY <1>2, <2>1 DEF ReportsInOrder
<1>3. QED
  BY <1>1, <1>2, ReportsOnlyGrow

\* What package chooses is the newest engine of its precision.
LEMMA ChosenIsLatest ==
    ASSUME EnginesAreBuilt, engines # << >>, ~ Ambiguous
    PROVE  Wanted \in Built
<1>1. \E p \in Built : TRUE
  <2>1. 1 \in DOMAIN engines
    BY DEF EnginesAreBuilt, IsList
  <2>2. QED
    BY <2>1 DEF Built
<1>2. QED
  BY <1>1 DEF Wanted, Ambiguous

\* A packaging that succeeds.
LEMMA PackageWrites ==
    ASSUME EnginesAreBuilt, NEW triton, Package(triton), repository' # repository
    PROVE  /\ repository' = [engine |-> LatestEngine(Wanted), settings |-> triton,
                             reports |-> Len(reports)]
           /\ Wanted \in Built /\ ~ Rejected
           /\ ~ RenderFails(engines[LatestEngine(Wanted)].info, triton)
<1>1. engines # << >> /\ ~ Ambiguous /\ ~ Rejected
  BY DEF Package
<1>2. QED
  BY <1>1, ChosenIsLatest DEF Package

LEMMA RepositoryStep ==
    Control /\ EnginesAreBuilt /\ ReportsInOrder /\ RepositoryIsRendered /\ [Next]_vars
      => RepositoryIsRendered'
<1> SUFFICES ASSUME Control, EnginesAreBuilt, ReportsInOrder, RepositoryIsRendered, [Next]_vars,
                    repository' # None
             PROVE  /\ repository'.engine \in DOMAIN engines'
                    /\ repository'.reports \in 0 .. Len(reports')
                    /\ repository'.settings \in Settings
                    /\ ~ RenderFails(engines'[repository'.engine].info, repository'.settings)
  BY DEF RepositoryIsRendered
<1>1. Len(reports) \in Nat
  BY DEF ReportsInOrder, IsList
<1>2. CASE repository' = repository
  <2>1. /\ repository.engine \in DOMAIN engines /\ repository.reports \in 0 .. Len(reports)
        /\ repository.settings \in Settings
        /\ ~ RenderFails(engines[repository.engine].info, repository.settings)
    BY <1>2 DEF RepositoryIsRendered
  <2>2. Len(reports') \in Nat /\ Len(reports) <= Len(reports')
    <3>1. CASE reports' = reports
      BY <1>1, <3>1
    <3>2. CASE ValidateEngine
      BY <1>1, <3>2, ReportAppended DEF ReportsInOrder
    <3>3. QED
      BY <3>1, <3>2, ReportsOnlyGrow
  <2>3. QED
    BY <1>1, <1>2, <2>1, <2>2, EnginesKeep
<1>3. CASE repository' # repository
  <2>1. PICK triton \in Settings : Package(triton) /\ reports' = reports /\ engines' = engines
    BY <1>3, ReportsOnlyGrow
  <2>2. /\ repository'.engine = LatestEngine(Wanted) /\ repository'.settings = triton
        /\ repository'.reports = Len(reports) /\ Wanted \in Built
        /\ ~ RenderFails(engines[LatestEngine(Wanted)].info, triton)
    BY <1>3, <2>1, PackageWrites
  <2>3. LatestEngine(Wanted) \in DOMAIN engines
    BY <2>2, LatestIs DEF EnginesAreBuilt
  <2>4. QED
    BY <1>1, <2>1, <2>2, <2>3
<1>4. QED
  BY <1>2, <1>3

LEMMA ReportsAndRepository ==
    Spec => [](Control /\ EnginesAreBuilt /\ ReportsInOrder /\ RepositoryIsRendered)
<1>1. Init => ReportsInOrder /\ RepositoryIsRendered
  <2> SUFFICES ASSUME Init PROVE ReportsInOrder /\ RepositoryIsRendered
    OBVIOUS
  <2>1. reports = << >> /\ repository = None
    BY DEF Init
  <2>2. IsList(<< >>) /\ DOMAIN << >> = {}
    BY DEF IsList
  <2>3. QED
    BY <2>1, <2>2 DEF ReportsInOrder, RepositoryIsRendered
<1>2. QED
  BY <1>1, ControlAndEngines, ReportsStep, RepositoryStep, PTL DEF Spec

(* RejectedNeverPackaged holds in every behavior: whatever is rebuilt, validated  *)
(* and packaged again in whatever order, the newest report about the packaged      *)
(* engine passed.  Package looks at the newest report only (_check_validation,     *)
(* pipeline/stages/package_stage.py); that is enough, because it packages the      *)
(* newest engine of a precision and each report is about the newest ones.          *)
THEOREM RejectedNeverPackagedCorrect == Spec => []RejectedNeverPackaged
<1> DEFINE About(r, rs) == {i \in 1 .. r.reports : r.engine \in rs[i].engines}
<1>1. Init => RejectedNeverPackaged
  BY DEF Init, RejectedNeverPackaged
<1>2. Control /\ EnginesAreBuilt /\ ReportsInOrder /\ RepositoryIsRendered
        /\ RejectedNeverPackaged /\ [Next]_vars => RejectedNeverPackaged'
  <2> SUFFICES ASSUME Control, EnginesAreBuilt, ReportsInOrder, RepositoryIsRendered,
                      RejectedNeverPackaged, [Next]_vars,
                      repository' # None, About(repository', reports') # {}
               PROVE  reports'[Max(About(repository', reports'))].passed
    BY DEF RejectedNeverPackaged
  <2>1. Len(reports) \in Nat /\ DOMAIN reports = 1 .. Len(reports)
    BY DEF ReportsInOrder, IsList
  <2>2. CASE repository' = repository
    <3>1. repository.reports \in 0 .. Len(reports)
      BY <2>2 DEF RepositoryIsRendered
    <3>2. \A i \in 1 .. Len(reports) : reports'[i] = reports[i]
      <4>1. CASE reports' = reports
        BY <4>1
      <4>2. CASE ValidateEngine
        BY <4>2, ReportAppended DEF ReportsInOrder
      <4>3. QED
        BY <4>1, <4>2, ReportsOnlyGrow
    <3>3. \A i \in 1 .. repository.reports : reports'[i] = reports[i]
      BY <2>1, <3>1, <3>2
    <3>4. About(repository', reports') = About(repository, reports)
      BY <2>2, <3>3
    <3>5. reports[Max(About(repository, reports))].passed
      BY <2>2, <3>4 DEF RejectedNeverPackaged
    <3>6. Max(About(repository, reports)) \in 1 .. repository.reports
      <4> DEFINE about == About(repository, reports)
      <4>1. about \in SUBSET (1 .. repository.reports) /\ about # {} /\ repository.reports \in Nat
        BY <2>1, <3>1, <3>4
      <4> HIDE DEF about
      <4>2. Max(about) \in about
        BY <4>1, LastExists
      <4>3. QED
        BY <4>1, <4>2 DEF about
    <3>7. QED
      BY <3>3, <3>4, <3>5, <3>6
  <2>3. CASE repository' # repository
    <3>1. PICK triton \in Settings : Package(triton) /\ reports' = reports /\ engines' = engines
      BY <2>3, ReportsOnlyGrow
    <3> DEFINE chosen == LatestEngine(Wanted)
               about == {i \in 1 .. Len(reports) : chosen \in reports[i].engines}
    <3>2. /\ repository'.engine = chosen /\ repository'.reports = Len(reports)
          /\ Wanted \in Built /\ ~ Rejected
      BY <2>3, <3>1, PackageWrites
    <3>3. About(repository', reports') = about
      BY <3>1, <3>2
    <3>4. about # {}
      BY <3>3
    <3>5. PICK i \in 1 .. Len(reports) : chosen \in reports[i].engines
      BY <3>4
    <3>6. /\ chosen \in DOMAIN engines /\ engines[chosen].precision = Wanted
          /\ \A f \in DOMAIN engines : engines[f].precision = Wanted => f <= chosen
      BY <3>2, LatestIs DEF EnginesAreBuilt
    <3> HIDE DEF chosen
    <3>7. chosen \in Last(reports).engines
      <4>1. \/ chosen \in Last(reports).engines
            \/ \E f \in DOMAIN engines : chosen < f /\ engines[f].precision = Wanted
        BY <2>1, <3>5, <3>6 DEF ReportsInOrder
      <4>2. \A f \in DOMAIN engines : f \in Nat
        BY DEF EnginesAreBuilt, IsList
      <4>3. QED
        BY <3>6, <4>1, <4>2
    <3>8. Last(reports) = reports[Len(reports)] /\ Len(reports) \in 1 .. Len(reports)
      BY <2>1, <3>5 DEF Last
    <3>9. Len(reports) \in about
      BY <3>7, <3>8
    <3>10. Max(about) = Len(reports)
      <4>1. about \in SUBSET (1 .. Len(reports))
        OBVIOUS
      <4> HIDE DEF about
      <4>2. QED
        BY <2>1, <3>9, <4>1, LastIs
    <3>11. Last(reports).passed
      <4>1. reports # << >>
        BY <2>1, <3>5
      <4>2. QED
        BY <3>2, <4>1 DEF Rejected
    <3>12. QED
      BY <3>1, <3>3, <3>8, <3>10, <3>11
  <2>4. QED
    BY <2>2, <2>3
<1>3. QED
  BY <1>1, <1>2, ReportsAndRepository, PTL DEF Spec

-----------------------------------------------------------------------------
(* What Triton is told *)

\* With one profile that the engine accepts, a batch that config.pbtxt may declare is at
\* most the largest one of every input.
LEMMA DeclaredFits ==
    ASSUME NEW c, Typed(c), Accepts(c), ~ ProfileShapesFail(c), Len(c.profiles) = 1,
           NEW info, info.inputs = Bindings(c),
           NEW settings \in Settings, ~ RenderFails(info, settings),
           NEW request \in Requests(info, settings),
           NEW t \in Range(info.inputs), t.profiles[1].min[1] = 1
    PROVE  SetInputOK(t, request[t])
<1> DEFINE batch == DeclaredBatch(info, settings)
           limit(u) == Max({u.profiles[p].max[1] : p \in DOMAIN u.profiles})
           limits == {limit(u) : u \in Range(info.inputs)}
           fixed == \E u \in Range(info.inputs) : u.shape[1] >= 0 \/ u.profiles = << >>
<1>1. MaxBatchSize(info) = IF fixed THEN 0 ELSE Min(limits)
  BY DEF MaxBatchSize
<1>2. ~ (batch > MaxBatchSize(info))
  BY DEF RenderFails
<1>3. batch # 0
  BY DEF Requests
<1>4. PICK b \in 1 .. batch : request = [u \in Range(info.inputs) |-> <<b>> \o Tail(u.profiles[1].opt)]
  BY <1>3 DEF Requests
<1>5. batch = MaxBatchSize(info) \/ batch \in Nat
  BY DeploymentAssumption DEF DeclaredBatch
<1> HIDE DEF batch, fixed, limits
<1>6. ~ fixed /\ MaxBatchSize(info) = Min(limits)
  <2>1. ASSUME fixed PROVE FALSE
    BY <1>1, <1>2, <1>3, <1>5, <2>1
  <2>2. QED
    BY <1>1, <2>1
<1>7. DOMAIN Bindings(c) = DOMAIN c.model.inputs
  BY DEF Bindings, EngineInfo
<1>8. ASSUME NEW i \in DOMAIN c.model.inputs
      PROVE  /\ Dynamic(Binding(c, i)) /\ Binding(c, i).profiles[1] = First(c, i)
             /\ First(c, i) \in [{"min", "opt", "max"} -> Seq(Int)]
             /\ \A which \in {"min", "opt", "max"} :
                  /\ Len(First(c, i)[which]) = Len(Tensor(c, i).shape)
                  /\ DOMAIN First(c, i)[which] = DOMAIN Tensor(c, i).shape
             /\ Len(Tensor(c, i).shape) \in Nat \ {0}
             /\ limit(Binding(c, i)) = First(c, i).max[1]
             /\ limit(Binding(c, i)) \in Nat
             /\ \A k \in DOMAIN Tensor(c, i).shape :
                  First(c, i).min[k] <= First(c, i).opt[k] /\ First(c, i).opt[k] <= First(c, i).max[k]
  <2>1. Binding(c, i) \in Range(info.inputs)
    BY <1>7 DEF Range, Binding
  <2>2. Binding(c, i).profiles # << >>
    BY <1>6, <2>1 DEF fixed
  <2>3. IsDynamic(Tensor(c, i))
    BY <2>2, BindingIs
  <2>4. /\ Dynamic(Binding(c, i)) /\ Binding(c, i).profiles[1] = First(c, i)
        /\ DOMAIN Binding(c, i).profiles = DOMAIN c.profiles
    BY <2>3, BindingIs
  <2>5. DOMAIN c.profiles = {1}
    BY DEF Typed, IsList
  <2>6. {Binding(c, i).profiles[p].max[1] : p \in DOMAIN Binding(c, i).profiles}
          = {First(c, i).max[1]}
    BY <2>4, <2>5
  <2>7. /\ First(c, i) \in [{"min", "opt", "max"} -> Seq(Int)]
        /\ \A which \in {"min", "opt", "max"} :
             /\ Len(First(c, i)[which]) = Len(Tensor(c, i).shape)
             /\ DOMAIN First(c, i)[which] = DOMAIN Tensor(c, i).shape
        /\ \A k \in DOMAIN Tensor(c, i).shape :
             First(c, i).min[k] <= First(c, i).opt[k] /\ First(c, i).opt[k] <= First(c, i).max[k]
    BY <2>3, FirstProfile
  <2>8. Len(Tensor(c, i).shape) \in Nat \ {0} /\ 1 \in DOMAIN Tensor(c, i).shape
    <3>1. Tensor(c, i).shape # << >>
      BY DEF Accepts, ModelOK, TensorSpecOK, Tensor
    <3>2. IsList(Tensor(c, i).shape)
      BY DEF Typed, Range, Tensor
    <3>3. QED
      BY <3>1, <3>2 DEF IsList
  <2>9. First(c, i).max[1] \in Int /\ First(c, i).max[1] >= 1
    <3>1. ShapeRangeOK(First(c, i))
      BY <2>3, <2>4, <2>5, FirstProfile DEF Accepts, ProfilesOK, First, Range
    <3>2. 1 <= First(c, i).min[1] /\ First(c, i).min[1] <= First(c, i).opt[1]
          /\ First(c, i).opt[1] <= First(c, i).max[1]
      BY <2>7, <2>8, <3>1 DEF ShapeRangeOK
    <3>3. First(c, i).min[1] \in Int /\ First(c, i).opt[1] \in Int /\ First(c, i).max[1] \in Int
      <4>1. \A which \in {"min", "opt", "max"} :
              First(c, i)[which] \in Seq(Int) /\ 1 \in DOMAIN First(c, i)[which]
        BY <2>7, <2>8
      <4>2. QED
        BY <4>1
    <3>4. QED
      BY <3>2, <3>3
  <2>10. Max({First(c, i).max[1]}) = First(c, i).max[1]
    BY <2>9 DEF Max
  <2>11. limit(Binding(c, i)) = First(c, i).max[1]
    BY <2>6, <2>10
  <2> HIDE DEF limit
  <2>12. QED
    BY <2>4, <2>7, <2>8, <2>9, <2>11
<1>9. PICK i \in DOMAIN c.model.inputs : t = Binding(c, i)
  BY <1>7 DEF Range, Binding
<1>10. limits \in SUBSET Nat /\ limit(t) \in limits
  <2>1. \A u \in Range(info.inputs) : \E j \in DOMAIN c.model.inputs : u = Binding(c, j)
    BY <1>7 DEF Range, Binding
  <2>2. \A u \in Range(info.inputs) : limit(u) \in Nat
    BY <1>8, <2>1
  <2>3. QED
    BY <2>2 DEF limits
<1>11. Min(limits) \in Nat /\ Min(limits) <= limit(t)
  <2> HIDE DEF limit
  <2>1. PICK x \in limits : \A y \in limits : x <= y
    BY <1>10, LeastExists
  <2>2. Min(limits) \in limits /\ \A y \in limits : Min(limits) <= y
    BY <2>1 DEF Min
  <2>3. QED
    BY <1>10, <2>2
<1> DEFINE range == First(c, i)
           shape == <<b>> \o Tail(range.opt)
<1>12. limit(t) = range.max[1] /\ Dynamic(t) /\ t.profiles[1] = range
  BY <1>8, <1>9
<1> HIDE DEF limit
<1>13. b \in Int /\ 1 <= b /\ b <= range.max[1]
  <2>1. MaxBatchSize(info) \in Nat /\ MaxBatchSize(info) <= limit(t)
    BY <1>6, <1>11
  <2>2. batch \in Nat /\ batch <= MaxBatchSize(info)
    BY <1>2, <1>5, <2>1
  <2>3. limit(t) \in Nat
    BY <1>10
  <2>4. b \in Int /\ 1 <= b /\ b <= limit(t)
    BY <2>1, <2>2, <2>3
  <2>5. QED
    BY <1>12, <2>4
<1>14. request[t] = shape
  BY <1>4, <1>12
<1>15. /\ range.opt \in Seq(Int) /\ Len(range.opt) = Len(range.min) /\ Len(range.opt) \in Nat \ {0}
       /\ \A k \in 1 .. Len(range.opt) :
            range.min[k] <= range.opt[k] /\ range.opt[k] <= range.max[k]
  <2>1. /\ range \in [{"min", "opt", "max"} -> Seq(Int)]
        /\ Len(range["opt"]) = Len(Tensor(c, i).shape) /\ Len(range["min"]) = Len(Tensor(c, i).shape)
        /\ DOMAIN range["opt"] = DOMAIN Tensor(c, i).shape
        /\ Len(Tensor(c, i).shape) \in Nat \ {0}
        /\ \A k \in DOMAIN Tensor(c, i).shape :
             range.min[k] <= range.opt[k] /\ range.opt[k] <= range.max[k]
    BY <1>8
  <2> HIDE DEF range
  <2>2. range.opt \in Seq(Int) /\ DOMAIN range.opt = 1 .. Len(range.opt)
    BY <2>1
  <2>3. QED
    BY <2>1, <2>2
<1> HIDE DEF range
<1>16. /\ Len(shape) = Len(range.min) /\ DOMAIN shape = 1 .. Len(range.opt)
       /\ shape[1] = b /\ \A k \in 2 .. Len(range.opt) : shape[k] = range.opt[k]
  <2> DEFINE rest == Tail(range.opt)
  <2>1. /\ rest \in Seq(Int) /\ Len(rest) = Len(range.opt) - 1
        /\ \A k \in 1 .. Len(rest) : rest[k] = range.opt[k + 1]
    BY <1>15
  <2> HIDE DEF rest
  <2>2. /\ <<b>> \o rest \in Seq(Int) /\ Len(<<b>> \o rest) = Len(range.opt)
        /\ (<<b>> \o rest)[1] = b
        /\ \A k \in 2 .. Len(range.opt) : (<<b>> \o rest)[k] = rest[k - 1]
    BY <1>13, <1>15, <2>1
  <2>3. \A k \in 2 .. Len(range.opt) : rest[k - 1] = range.opt[k]
    BY <1>15, <2>1
  <2>4. shape = <<b>> \o rest
    BY DEF rest
  <2> HIDE DEF shape
  <2>5. QED
    BY <1>15, <2>2, <2>3, <2>4
<1> HIDE DEF shape
<1>17. Inside(shape, range)
  <2>1. ASSUME NEW k \in DOMAIN shape PROVE range.min[k] <= shape[k] /\ shape[k] <= range.max[k]
    <3>1. CASE k = 1
      BY <1>12, <1>13, <1>16, <3>1
    <3>2. CASE k \in 2 .. Len(range.opt)
      BY <1>15, <1>16, <3>2
    <3>3. QED
      BY <1>15, <1>16, <3>1, <3>2
  <2>2. QED
    BY <1>16, <2>1 DEF Inside
<1>18. QED
  BY <1>12, <1>14, <1>17 DEF SetInputOK

(* DeclaredBatchesFit holds in every behavior: what triton/config.py declares is   *)
(* never more than the engine takes on any input, derived from the profile or      *)
(* configured, if there is one profile and it starts at a batch of one.            *)
THEOREM DeclaredBatchesFitCorrect == Spec => []DeclaredBatchesFit
<1>1. Control /\ EnginesAreBuilt /\ RepositoryIsRendered => DeclaredBatchesFit
  <2> SUFFICES ASSUME Control, EnginesAreBuilt, RepositoryIsRendered,
                      repository # None, Len(config.profiles) = 1,
                      NEW request \in Requests(engines[repository.engine].info, repository.settings),
                      NEW t \in Range(engines[repository.engine].info.inputs),
                      t.profiles[1].min[1] = 1
               PROVE  SetInputOK(t, request[t])
    BY DEF DeclaredBatchesFit
  <2>1. /\ repository.engine \in DOMAIN engines /\ repository.settings \in Settings
        /\ ~ RenderFails(engines[repository.engine].info, repository.settings)
    BY DEF RepositoryIsRendered
  <2>2. /\ engines[repository.engine].info.inputs = Bindings(config)
        /\ Accepts(config) /\ ~ ProfileShapesFail(config)
    BY <2>1 DEF EnginesAreBuilt
  <2>3. QED
    BY <2>1, <2>2, TypedConfig, DeclaredFits
<1>2. QED
  BY <1>1, ReportsAndRepository, PTL

-----------------------------------------------------------------------------
(* What a validation shows *)

\* A tensor without a failed criterion has the shape of the reference and is close to it.
LEMMA TensorPasses ==
    ASSUME NEW ref, NEW cand, NEW tolerance,
           CompareTensors(ref, cand, tolerance).failures = {},
           IsFiniteSet(Elements(ref)), Elements(ref) = Elements(cand)
    PROVE  ref.shape = cand.shape /\ Close(ref, cand, tolerance)
<1>1. ref.shape = cand.shape /\ Failures(ref, cand, tolerance) = {}
  <2>1. CASE ref.shape # cand.shape
    BY <2>1 DEF CompareTensors, Mismatch
  <2>2. CASE ref.shape = cand.shape
    BY <2>2 DEF CompareTensors
  <2>3. QED
    BY <2>1, <2>2
<1>2. /\ ~ (NonFiniteMore(ref, cand) > 0)
      /\ \A e \in BothFinite(ref, cand) : ~ Violation(ref, cand, tolerance, e)
  <2>1. /\ {f \in {"non_finite"} : NonFiniteMore(ref, cand) > 0} = {}
        /\ {f \in {"violations"} :
              \E e \in BothFinite(ref, cand) : Violation(ref, cand, tolerance, e)} = {}
    BY <1>1 DEF Failures
  <2>2. QED
    BY <2>1
<1>3. ASSUME AllFinite(ref) PROVE AllFinite(cand)
  <2> DEFINE Lost(t) == {e \in Elements(t) : ~ Finite(t, e)}
  <2>1. Lost(ref) = {}
    BY <1>3 DEF AllFinite
  <2>2. Cardinality(Lost(ref)) = 0
    BY <2>1, FS_EmptySet
  <2>3. IsFiniteSet(Lost(cand))
    <3>1. IsFiniteSet(Elements(cand)) /\ Lost(cand) \subseteq Elements(cand)
      OBVIOUS
    <3>2. QED
      BY <3>1, FS_Subset
  <2>4. Cardinality(Lost(cand)) \in Nat
    BY <2>3, FS_CardinalityType
  <2>5. NonFiniteMore(ref, cand) = Max({0, Cardinality(Lost(cand)) - Cardinality(Lost(ref))})
    BY DEF NonFiniteMore
  <2> HIDE DEF Lost
  <2>6. ASSUME NEW n \in Nat PROVE Max({0, n}) = n
    <3>1. \E x \in {0, n} : \A y \in {0, n} : x >= y
      BY <2>6
    <3>2. Max({0, n}) \in {0, n} /\ \A y \in {0, n} : Max({0, n}) >= y
      BY <3>1 DEF Max
    <3>3. ASSUME NEW x \in {0, n}, x >= 0, x >= n PROVE x = n
      BY <3>3
    <3>4. QED
      BY <3>2, <3>3
  <2>7. NonFiniteMore(ref, cand) = Cardinality(Lost(cand))
    BY <2>2, <2>4, <2>5, <2>6
  <2>8. Cardinality(Lost(cand)) = 0
    BY <1>2, <2>4, <2>7
  <2>9. Lost(cand) = {}
    BY <2>3, <2>8, FS_EmptySet
  <2>10. QED
    BY <2>9 DEF Lost, AllFinite
<1>4. QED
  BY <1>1, <1>2, <1>3 DEF Close, BothFinite, AllFinite

\* Whether values are close does not depend on the shape they are given.
LEMMA CloseIsOfValues ==
    ASSUME NEW ref, NEW cand, NEW ref2, NEW cand2, NEW tolerance, Close(ref, cand, tolerance),
           ref2.rows = ref.rows, ref2.dtype = ref.dtype, cand2.rows = cand.rows
    PROVE  Close(ref2, cand2, tolerance)
<1>1. Elements(ref2) = Elements(ref) /\ Elements(cand2) = Elements(cand)
  BY DEF Elements
<1>2. \A e : Entry(ref2, e) = Entry(ref, e) /\ Entry(cand2, e) = Entry(cand, e)
  BY DEF Entry
<1>3. /\ AllFinite(ref2) <=> AllFinite(ref)
      /\ AllFinite(cand2) <=> AllFinite(cand)
  BY <1>1, <1>2 DEF AllFinite, Finite
<1>4. \A e : Violation(ref2, cand2, tolerance, e) <=> Violation(ref, cand, tolerance, e)
  BY <1>2 DEF Violation, Diff
<1>5. QED
  BY <1>1, <1>3, <1>4 DEF Close

\* Of a point that passed, every output of every sample passed.
LEMMA PointPasses ==
    ASSUME NEW samples, NEW tolerance, RunPoint(samples, tolerance).passed,
           NEW i \in DOMAIN samples,
           NEW name \in DOMAIN samples[i].reference \cup DOMAIN samples[i].candidate
    PROVE  /\ name \in DOMAIN samples[i].reference /\ name \in DOMAIN samples[i].candidate
           /\ CompareTensors(samples[i].reference[name], samples[i].candidate[name],
                             tolerance).failures = {}
<1> DEFINE results == [j \in DOMAIN samples |->
                         CompareOutputs(samples[j].reference, samples[j].candidate, tolerance)]
           passing == {j \in DOMAIN results : \A n \in DOMAIN results[j] : Passed(results[j][n])}
<1>1. passing = DOMAIN results
  BY DEF RunPoint
<1>2. i \in passing
  BY <1>1
<1>3. \A n \in DOMAIN results[i] : Passed(results[i][n])
  BY <1>2
<1>4. results[i] = CompareOutputs(samples[i].reference, samples[i].candidate, tolerance)
  OBVIOUS
<1> HIDE DEF results, passing
<1>5. name \in DOMAIN results[i]
  BY <1>4 DEF CompareOutputs
<1>6. results[i][name].failures = {}
  BY <1>3, <1>5 DEF Passed
<1>7. results[i][name] =
        IF name \notin DOMAIN samples[i].candidate THEN Mismatch("missing")
        ELSE IF name \notin DOMAIN samples[i].reference THEN Mismatch("unexpected")
        ELSE CompareTensors(samples[i].reference[name], samples[i].candidate[name], tolerance)
  BY <1>4 DEF CompareOutputs
<1>8. Mismatch("missing").failures # {} /\ Mismatch("unexpected").failures # {}
  BY DEF Mismatch
<1>9. QED
  BY <1>6, <1>7, <1>8

\* What PassMeansClose says of one report.
Shows(report) ==
    /\ \A sizes \in ShapePoints(config) : OutputShape(model, sizes) = OutputShape(GraphOutputs, sizes)
    /\ \A p \in report.precisions : \A sample \in Range(report.seen[p]) :
         /\ DOMAIN sample.reference = DOMAIN sample.candidate
         /\ \A name \in DOMAIN sample.reference :
              Close(sample.reference[name], sample.candidate[name], Tolerances[p])

LEMMA PointsExist == ShapePoints(config) # {}
  BY DEF ShapePoints, ProbeSizes

LEMMA ReportShows ==
    ASSUME Control, EnginesAreBuilt, engines # << >>, NEW seen \in [Built -> Observed(config)],
           Report(seen, Points(seen)).passed
    PROVE  Shows(Report(seen, Points(seen)))
<1> DEFINE report == Report(seen, Points(seen))
           At(p, i, sizes) == [reference |-> Shaped(seen[p][i].reference, model, sizes),
                               candidate |-> Shaped(seen[p][i].candidate, GraphOutputs, sizes)]
           Samples(p, sizes) == [i \in DOMAIN seen[p] |-> At(p, i, sizes)]
<1>1. ASSUME NEW p \in Built, NEW sizes \in ShapePoints(config)
      PROVE  RunPoint(Samples(p, sizes), Tolerances[p]).passed
  <2>1. EnginePoint(p, seen[p], sizes) \in Points(seen)
    BY DEF Points
  <2>2. EnginePoint(p, seen[p], sizes).passed
    BY <2>1 DEF Report
  <2>3. BindOK(engines[LatestEngine(p)].info, InputShapes(config, sizes))
    BY <2>2 DEF EnginePoint
  <2>4. EnginePoint(p, seen[p], sizes) = RunPoint(Samples(p, sizes), Tolerances[p])
    BY <2>3 DEF EnginePoint
  <2>5. QED
    BY <2>2, <2>4
<1>2. ASSUME NEW p \in Built
      PROVE  seen[p] # << >> /\ IsList(seen[p]) /\ \A i \in DOMAIN seen[p] : Comparable(seen[p][i])
  <2>1. seen[p] \in Observed(config)
    OBVIOUS
  <2>2. QED
    BY <2>1, DeploymentAssumption DEF Control, Range
<1>3. ASSUME NEW p \in Built, NEW sizes \in ShapePoints(config), NEW i \in DOMAIN seen[p],
             NEW name \in DOMAIN seen[p][i].reference \cup DOMAIN seen[p][i].candidate
      PROVE  /\ name \in DOMAIN seen[p][i].reference /\ name \in DOMAIN seen[p][i].candidate
             /\ OutputShape(model, sizes) = OutputShape(GraphOutputs, sizes)
             /\ Close(seen[p][i].reference[name], seen[p][i].candidate[name], Tolerances[p])
  <2> DEFINE ref == seen[p][i].reference
             cand == seen[p][i].candidate
             ref2 == Shaped(ref, model, sizes)
             cand2 == Shaped(cand, GraphOutputs, sizes)
  <2>1. DOMAIN ref2 = DOMAIN ref /\ DOMAIN cand2 = DOMAIN cand
    BY DEF Shaped
  <2>2. /\ i \in DOMAIN Samples(p, sizes)
        /\ Samples(p, sizes)[i].reference = ref2 /\ Samples(p, sizes)[i].candidate = cand2
    OBVIOUS
  <2> HIDE DEF Samples
  <2>3. /\ name \in DOMAIN ref /\ name \in DOMAIN cand
        /\ CompareTensors(ref2[name], cand2[name], Tolerances[p]).failures = {}
    <3>1. RunPoint(Samples(p, sizes), Tolerances[p]).passed
      BY <1>1
    <3>2. name \in DOMAIN ref2 \cup DOMAIN cand2
      BY <2>1
    <3> HIDE DEF ref, cand, ref2, cand2
    <3>3. /\ name \in DOMAIN ref2 /\ name \in DOMAIN cand2
          /\ CompareTensors(ref2[name], cand2[name], Tolerances[p]).failures = {}
      BY <2>2, <3>1, <3>2, PointPasses
    <3>4. QED
      BY <2>1, <3>3
  <2>4. /\ ref2[name].rows = ref[name].rows /\ ref2[name].dtype = ref[name].dtype
        /\ ref2[name].shape = OutputShape(model, sizes)
        /\ cand2[name].rows = cand[name].rows
        /\ cand2[name].shape = OutputShape(GraphOutputs, sizes)
    BY <2>3 DEF Shaped
  <2>5. IsFiniteSet(Elements(ref[name])) /\ Elements(ref[name]) = Elements(cand[name])
    BY <1>2, <2>3 DEF Comparable
  <2> HIDE DEF ref, cand, ref2, cand2
  <2>6. IsFiniteSet(Elements(ref2[name])) /\ Elements(ref2[name]) = Elements(cand2[name])
    BY <2>4, <2>5 DEF Elements
  <2>7. ref2[name].shape = cand2[name].shape /\ Close(ref2[name], cand2[name], Tolerances[p])
    BY <2>3, <2>6, TensorPasses
  <2>8. Close(ref[name], cand[name], Tolerances[p])
    BY <2>4, <2>7, CloseIsOfValues
  <2>9. QED
    BY <2>3, <2>4, <2>7, <2>8 DEF ref, cand
<1> HIDE DEF Samples
<1>4. ASSUME NEW sizes \in ShapePoints(config)
      PROVE  OutputShape(model, sizes) = OutputShape(GraphOutputs, sizes)
  <2>1. PICK p \in Built : TRUE
    <3>1. 1 \in DOMAIN engines
      BY DEF EnginesAreBuilt, IsList
    <3>2. QED
      BY <3>1 DEF Built
  <2>2. 1 \in DOMAIN seen[p]
    BY <1>2 DEF IsList
  <2>3. PICK name \in DOMAIN seen[p][1].reference : TRUE
    BY <1>2, <2>2 DEF Comparable
  <2>4. QED
    BY <1>3, <2>2, <2>3
<1>5. report.precisions = Built /\ report.seen = seen
  BY DEF Report
<1>6. ASSUME NEW p \in Built, NEW sample \in Range(seen[p])
      PROVE  /\ DOMAIN sample.reference = DOMAIN sample.candidate
             /\ \A name \in DOMAIN sample.reference :
                  Close(sample.reference[name], sample.candidate[name], Tolerances[p])
  <2>1. PICK i \in DOMAIN seen[p] : sample = seen[p][i]
    BY DEF Range
  <2>2. PICK sizes \in ShapePoints(config) : TRUE
    BY PointsExist
  <2>3. QED
    BY <1>3, <2>1, <2>2
<1> HIDE DEF report
<1>7. QED
  BY <1>4, <1>5, <1>6 DEF Shows, report

\* Reports are only made of an exported graph, which stays what it is.
GraphIsExported == reports # << >> => onnx # None

LEMMA GraphStays ==
    ASSUME ReportsInOrder, GraphIsExported, [Next]_vars
    PROVE  /\ GraphIsExported' /\ config' = config /\ model' = model
           /\ onnx' = onnx \/ (reports = << >> /\ reports' = << >>)
<1>1. config' = config /\ model' = model
  BY EnginesOnlyGrow
<1>2. onnx' = onnx \/ (Export /\ reports' = reports)
  BY DEF Next, vars, Load, PassOver, Again, Inspect, Export, OptimizeStage, ValidateOnnx,
         Calibrate, Build, ValidateEngine, Benchmark, Package
<1>3. CASE Export /\ reports' = reports
  <2>1. reports = << >>
    BY <1>3 DEF Export, GraphIsExported
  <2>2. QED
    BY <1>1, <1>3, <2>1 DEF GraphIsExported
<1>4. CASE onnx' = onnx
  <2>1. reports' = reports \/ onnx # None
    BY ReportsOnlyGrow DEF ValidateEngine
  <2>2. QED
    BY <1>1, <1>4, <2>1 DEF GraphIsExported
<1>5. QED
  BY <1>2, <1>3, <1>4

(* PassMeansClose holds in every behavior: the reports that passed say what they   *)
(* seem to say of every engine, output and sample, values that are not finite, an  *)
(* output that is missing and the worst of several samples included                *)
(* (validation/metrics.py, validation/engine.py).                                  *)
THEOREM PassMeansCloseCorrect == Spec => []PassMeansClose
<1>1. Init => GraphIsExported /\ PassMeansClose
  <2> SUFFICES ASSUME Init PROVE GraphIsExported /\ PassMeansClose
    OBVIOUS
  <2>1. reports = << >> /\ Range(<< >>) = {}
    BY DEF Init, Range
  <2>2. QED
    BY <2>1 DEF GraphIsExported, PassMeansClose
<1>2. Control /\ EnginesAreBuilt /\ ReportsInOrder /\ GraphIsExported /\ PassMeansClose /\ [Next]_vars
        => GraphIsExported' /\ PassMeansClose'
  <2> SUFFICES ASSUME Control, EnginesAreBuilt, ReportsInOrder, GraphIsExported, PassMeansClose,
                      [Next]_vars
               PROVE  PassMeansClose'
    BY GraphStays
  <2>1. \A i \in DOMAIN reports : reports[i].passed => Shows(reports[i])
    BY DEF PassMeansClose, Shows, Range
  <2>2. SUFFICES ASSUME NEW report \in Range(reports'), report.passed
                 PROVE  Shows(report)'
    BY DEF PassMeansClose, Shows
  <2> PICK i \in DOMAIN reports' : report = reports'[i]
    BY DEF Range
  <2>3. config' = config /\ model' = model /\ onnx' = onnx
    <3>1. reports' # << >>
      BY <2>2
    <3>2. QED
      BY <3>1, GraphStays
  <2>4. Shows(report)
    <3>1. CASE reports' = reports
      BY <2>1, <2>2, <3>1
    <3>2. CASE ValidateEngine
      <4>1. PICK seen \in [Built -> Observed(config)] :
              /\ IsList(reports') /\ Len(reports') = Len(reports) + 1
              /\ reports'[Len(reports) + 1] = Report(seen, Points(seen))
              /\ \A j \in 1 .. Len(reports) : reports'[j] = reports[j]
        BY <3>2, ReportAppended DEF ReportsInOrder
      <4>2. /\ Len(reports) \in Nat /\ DOMAIN reports = 1 .. Len(reports)
            /\ DOMAIN reports' = 1 .. (Len(reports) + 1)
        BY <4>1 DEF ReportsInOrder, IsList
      <4>3. CASE i \in 1 .. Len(reports)
        BY <2>1, <2>2, <4>1, <4>2, <4>3
      <4>4. CASE i = Len(reports) + 1
        <5>1. engines # << >>
          BY <3>2 DEF ValidateEngine
        <5>2. QED
          BY <2>2, <4>1, <4>4, <5>1, ReportShows
      <4>5. QED
        BY <4>2, <4>3, <4>4
    <3>3. QED
      BY <3>1, <3>2, ReportsOnlyGrow
  <2>5. GraphOutputs' = GraphOutputs
    BY <2>3 DEF GraphOutputs, Traced
  <2>6. QED
    BY <2>3, <2>4, <2>5 DEF Shows
<1>3. QED
  BY <1>1, <1>2, ReportsAndRepository, PTL DEF Spec

-----------------------------------------------------------------------------
(* What calibration feeds *)

\* A list is its first element and the rest.
LEMMA HeadAndTail ==
    ASSUME NEW S, NEW s \in Seq(S), s # << >>, NEW h, h = s[1]
    PROVE  <<h>> \o Tail(s) = s
<1>1. Len(s) \in Nat \ {0} /\ h \in S
  OBVIOUS
<1>2. Tail(s) \in Seq(S) /\ Len(Tail(s)) = Len(s) - 1 /\ <<h>> \in Seq(S) /\ Len(<<h>>) = 1
  BY <1>1
<1>3. <<h>> \o Tail(s) \in Seq(S) /\ Len(<<h>> \o Tail(s)) = Len(s)
  BY <1>1, <1>2
<1>4. \A i \in 1 .. Len(s) : (<<h>> \o Tail(s))[i] = s[i]
  BY <1>1, <1>2
<1>5. QED
  BY <1>3, <1>4, SeqEqual

\* The calibrated input is one of the model.
LEMMA CalibratedInput ==
    ASSUME Typed(config), Accepts(config), "int8" \in Range(config.precisions)
    PROVE  \E i \in DOMAIN config.model.inputs : CalibrationInput = Tensor(config, i)
<1>1. CASE config.calibration.input_name # None
  <2>1. config.calibration.input_name \in InputNames(config.model)
    BY <1>1 DEF Accepts, CalibrationOK
  <2>2. PICK i \in DOMAIN config.model.inputs :
          config.calibration.input_name = config.model.inputs[i].name
    BY <2>1 DEF InputNames
  <2>3. QED
    BY <1>1, <2>2, InputIs DEF CalibrationInput, Tensor
<1>2. CASE config.calibration.input_name = None
  <2>1. 1 \in DOMAIN config.model.inputs
    BY DEF Typed, IsList, Accepts, ModelOK
  <2>2. QED
    BY <1>2, <2>1 DEF CalibrationInput, Tensor
<1>3. QED
  BY <1>1, <1>2

\* Every batch is a set of inputs at BatchSizes.
LEMMA FedIsShaped ==
    ASSUME Typed(config), Accepts(config), "int8" \in Range(config.precisions), ~ CalibrationRefused
    PROVE  Fed = InputShapes(config, BatchSizes)
<1>1. PICK i \in DOMAIN config.model.inputs : CalibrationInput = Tensor(config, i)
  BY CalibratedInput
<1> DEFINE spec == Tensor(config, i)
           shape == ConcreteShape(spec, BatchSizes)
           size == config.calibration.batch_size
<1>2. IsList(spec.shape) /\ spec.shape # << >>
  BY DEF Typed, Range, Tensor, Accepts, ModelOK, TensorSpecOK
<1>3. 1 \in DOMAIN spec.shape /\ Len(spec.shape) \in Nat /\ DOMAIN spec.shape = 1 .. Len(spec.shape)
  BY <1>2 DEF IsList
<1>4. shape[1] = size
  <2>1. CASE IsDynamicDim(Lead(spec))
    <3>1. Lead(spec).sym \in Symbols(config.model)
      <4>1. spec \in Range(config.model.inputs) /\ 1 \in DynamicAxes(spec)
        BY <1>3, <2>1 DEF Range, Tensor, Lead, DynamicAxes
      <4>2. QED
        BY <4>1 DEF Symbols, SpecSymbols, Lead
    <3>2. BatchSizes[Lead(spec).sym] = size
      BY <1>1, <2>1, <3>1 DEF BatchSizes
    <3>3. QED
      BY <1>3, <2>1, <3>2 DEF ConcreteShape, Lead
  <2>2. CASE ~ IsDynamicDim(Lead(spec))
    <3>1. Lead(spec).size = size
      BY <1>1, <2>2 DEF CalibrationRefused
    <3>2. QED
      BY <1>3, <2>2, <3>1 DEF ConcreteShape, Lead
  <2>3. QED
    BY <2>1, <2>2
<1>5. shape \in Seq(Range(shape)) /\ shape # << >>
  <2>1. DOMAIN shape = 1 .. Len(spec.shape)
    BY <1>3 DEF ConcreteShape
  <2>2. \A k \in 1 .. Len(spec.shape) : shape[k] \in Range(shape)
    BY <2>1 DEF Range
  <2>3. shape = [k \in 1 .. Len(spec.shape) |-> shape[k]]
    BY <1>3 DEF ConcreteShape
  <2> HIDE DEF shape
  <2>4. shape \in Seq(Range(shape))
    BY <1>3, <2>2, <2>3
  <2>5. QED
    BY <1>3, <2>1, <2>4
<1>6. <<size>> \o Tail(shape) = shape
  <2> HIDE DEF shape, size
  <2>1. QED
    BY <1>4, <1>5, HeadAndTail
<1>7. SampleShape(spec) = Tail(shape)
  BY DEF SampleShape
<1>8. spec.name \in InputNames(config.model) /\ Input(config.model, spec.name) = spec
  BY InputIs DEF Tensor
<1>9. \A name \in InputNames(config.model) :
        (IF name = spec.name THEN <<size>> \o SampleShape(spec)
         ELSE ConcreteShape(Input(config.model, name), BatchSizes))
          = ConcreteShape(Input(config.model, name), BatchSizes)
  BY <1>6, <1>7, <1>8
<1> HIDE DEF spec, shape, size
<1>10. Fed = [name \in InputNames(config.model) |->
               IF name = spec.name THEN <<size>> \o SampleShape(spec)
               ELSE ConcreteShape(Input(config.model, name), BatchSizes)]
  BY <1>1 DEF Fed, spec, size
<1>11. QED
  BY <1>9, <1>10 DEF InputShapes

\* Each of these sizes is the size of some axis.
LEMMA ShapedFromAxes ==
    ASSUME Typed(config), Accepts(config), NEW sizes, DOMAIN sizes = Symbols(config.model),
           sizes = [s \in Symbols(config.model) |-> sizes[s]]
    PROVE  LET fed == InputShapes(config, sizes)
           IN sizes \in [Symbols(config.model) -> UNION {Range(fed[name]) : name \in DOMAIN fed}]
<1> DEFINE fed == InputShapes(config, sizes)
<1>1. ASSUME NEW s \in Symbols(config.model)
      PROVE  \E name \in DOMAIN fed : sizes[s] \in Range(fed[name])
  <2>1. PICK i \in DOMAIN config.model.inputs : \E k \in DynamicAxes(Tensor(config, i)) :
           s = Tensor(config, i).shape[k].sym
    BY DEF Symbols, SpecSymbols, Range, Tensor
  <2>2. PICK k \in DynamicAxes(Tensor(config, i)) : s = Tensor(config, i).shape[k].sym
    BY <2>1
  <2> DEFINE spec == Tensor(config, i)
  <2>3. spec.name \in InputNames(config.model) /\ Input(config.model, spec.name) = spec
    BY InputIs DEF Tensor
  <2>4. spec.name \in DOMAIN fed /\ fed[spec.name] = ConcreteShape(spec, sizes)
    BY <2>3 DEF InputShapes
  <2>5. k \in DOMAIN spec.shape /\ IsDynamicDim(spec.shape[k])
    BY DEF DynamicAxes
  <2>6. k \in DOMAIN ConcreteShape(spec, sizes) /\ ConcreteShape(spec, sizes)[k] = sizes[s]
    BY <2>2, <2>5 DEF ConcreteShape
  <2> HIDE DEF fed, spec
  <2>7. QED
    BY <2>4, <2>6 DEF Range
<1> HIDE DEF fed
<1>2. \A s \in Symbols(config.model) : sizes[s] \in UNION {Range(fed[name]) : name \in DOMAIN fed}
  BY <1>1
<1>3. QED
  BY <1>2 DEF fed

(* CalibrationIsConsistent holds in every behavior: get_batch (calibration/         *)
(* calibrator.py) takes the calibrated input from the data, the others from the    *)
(* profile, and both agree on every symbol.                                         *)
THEOREM CalibrationIsConsistentCorrect == Spec => []CalibrationIsConsistent
<1>1. Init => CalibrationIsConsistent
  BY DEF Init, CalibrationIsConsistent
<1>2. Control /\ CalibrationIsConsistent /\ [Next]_vars => CalibrationIsConsistent'
  <2> SUFFICES ASSUME Control, CalibrationIsConsistent, [Next]_vars PROVE CalibrationIsConsistent'
    OBVIOUS
  <2>1. config' = config
    BY EnginesOnlyGrow
  <2>2. CASE cache' = cache
    BY <2>1, <2>2 DEF CalibrationIsConsistent, FedSizes
  <2>3. CASE Calibrate /\ cache' # cache
    <3>1. /\ "int8" \in Range(config.precisions) /\ ~ CalibrationRefused
          /\ cache'.fed = Fed
      BY <2>3 DEF Calibrate, Batches
    <3>2. Accepts(config) /\ Typed(config)
      BY <2>3, StageIsKnown, TypedConfig DEF Calibrate
    <3>3. cache'.fed = InputShapes(config, BatchSizes)
      BY <3>1, <3>2, FedIsShaped
    <3>4. DOMAIN BatchSizes = Symbols(config.model)
          /\ BatchSizes = [s \in Symbols(config.model) |-> BatchSizes[s]]
      BY DEF BatchSizes
    <3>5. BatchSizes \in [Symbols(config.model) ->
                            UNION {Range(cache'.fed[name]) : name \in DOMAIN cache'.fed}]
      BY <3>2, <3>3, <3>4, ShapedFromAxes
    <3>6. QED
      BY <2>1, <3>3, <3>5 DEF CalibrationIsConsistent, FedSizes
  <2>4. cache' = cache \/ Calibrate
    BY DEF Next, vars, Load, PassOver, Again, Inspect, Export, OptimizeStage, ValidateOnnx,
       Calibrate, Build, ValidateEngine, Benchmark, Package
  <2>5. QED
    BY <2>2, <2>3, <2>4
<1>3. QED
  BY <1>1, <1>2, ControlAndEngines, PTL DEF Spec

-----------------------------------------------------------------------------
(* Folds over sets *)

\* A finite set of numbers has a greatest element: the sets above its elements are finite.
LEMMA MaxIs ==
    ASSUME NEW T \in SUBSET Nat, T # {}, IsFiniteSet(T)
    PROVE  Max(T) \in T /\ \A y \in T : y <= Max(T)
<1> DEFINE R == StrictSubsetOrdering(T)
           Above(x) == {y \in T : x < y}
           Sets == {Above(x) : x \in T}
<1>1. IsWellFoundedOn(R, FiniteSubsetsOf(T))
  BY FS_StrictSubsetOrderingWellFounded
<1>2. Sets \subseteq FiniteSubsetsOf(T) /\ Sets # {}
  <2>1. \A x \in T : Above(x) \subseteq T /\ IsFiniteSet(Above(x))
    BY FS_Subset
  <2>2. QED
    BY <2>1 DEF FiniteSubsetsOf
<1>3. \E b \in Sets : \A c \in Sets : ~ (<<c, b>> \in R)
  <2> HIDE DEF R, Sets
  <2>1. QED
    BY <1>1, <1>2, WFMin
<1>4. PICK x \in T : \A y \in T : ~ (<<Above(y), Above(x)>> \in R)
  BY <1>3
<1>5. ASSUME NEW y \in T, x < y PROVE FALSE
  <2>0. \A z \in T : z \in Int
    OBVIOUS
  <2>1. Above(y) \subseteq Above(x) /\ y \in Above(x) /\ y \notin Above(y)
    <3>1. x \in Int /\ y \in Int
      BY <2>0
    <3>2. \A z \in T : y < z => x < z
      BY <1>5, <2>0, <3>1
    <3>3. ~ (y < y)
      BY <3>1
    <3>4. QED
      BY <1>5, <3>2, <3>3
  <2>2. Above(y) \in SUBSET T /\ Above(x) \in SUBSET T
    OBVIOUS
  <2>3. <<Above(y), Above(x)>> \in R
    BY <2>1, <2>2 DEF StrictSubsetOrdering
  <2>4. QED
    BY <1>4, <2>3
<1>6. \A y \in T : x >= y
  <2>1. \A y \in T : x \in Nat /\ y \in Nat /\ ~ (x < y)
    BY <1>5
  <2>2. QED
    BY <2>1
<1>7. QED
  BY <1>6 DEF Max

LEMMA MinIs ==
    ASSUME NEW T \in SUBSET Nat, T # {}
    PROVE  Min(T) \in T /\ \A y \in T : Min(T) <= y
BY LeastExists DEF Min

\* What a fold says of every set of places, for each of the folds here.
Chosen(way, s) ==
    CASE way = "factor" -> CHOOSE x \in s : TRUE
      [] way = "visit" -> Min(s)
      [] OTHER -> Max(s)
Combined(way, data, x, y) ==
    CASE way = "factor" -> data[x] * y
      [] way = "visit" -> Visit(data, x, y)
      [] way = "node" -> EvalNode(y, data[x])
      [] way = "inner" -> EvalSimple(y, data[x])
      [] way = "identity" -> EliminateAt(y, x)
      [] OTHER -> RunPass(y, data, PASS_ORDER[x])
Rest(way, s) == s \ {Chosen(way, s)}
Folded(way, data, base, f, T) ==
    [s \in T |-> IF s = {} THEN base ELSE Combined(way, data, Chosen(way, s), f[Rest(way, s)])]

\* There is such a function: one more place at a time.
LEMMA FoldExists ==
    ASSUME NEW way, NEW data, NEW base, NEW D, IsFiniteSet(D), way = "factor" \/ D \subseteq Nat
    PROVE  \E f : f = Folded(way, data, base, f, SUBSET D)
<1> DEFINE Level(n) == {s \in SUBSET D : Cardinality(s) <= n}
           Known(n) == \E f : f = Folded(way, data, base, f, Level(n))
           Unknown == {n \in Nat : ~ Known(n)}
<1>1. \A s \in SUBSET D : IsFiniteSet(s) /\ Cardinality(s) \in Nat /\ Cardinality(s) <= Cardinality(D)
  BY FS_Subset, FS_CardinalityType
<1>2. \A s \in SUBSET D : s # {} =>
        Rest(way, s) \in SUBSET D /\ Cardinality(Rest(way, s)) = Cardinality(s) - 1
  <2>1. ASSUME NEW s \in SUBSET D, s # {}
        PROVE  Rest(way, s) \in SUBSET D /\ Cardinality(Rest(way, s)) = Cardinality(s) - 1
    <3>1. Chosen(way, s) \in s
      BY <1>1, <2>1, MaxIs, MinIs DEF Chosen
    <3>2. Cardinality(s \ {Chosen(way, s)}) = Cardinality(s) - 1
      BY <1>1, <3>1, FS_RemoveElement
    <3>3. QED
      BY <3>1, <3>2 DEF Rest
  <2>2. QED
    BY <2>1
<1>3. Known(0)
  <2>1. \A s \in Level(0) : s = {}
    BY <1>1, FS_EmptySet
  <2>2. [s \in Level(0) |-> base] = Folded(way, data, base, [s \in Level(0) |-> base], Level(0))
    BY <2>1 DEF Folded
  <2>3. QED
    BY <2>2
<1>4. ASSUME NEW n \in Nat, Known(n) PROVE Known(n + 1)
  <2> PICK f : f = Folded(way, data, base, f, Level(n))
    BY <1>4
  <2> DEFINE g == Folded(way, data, base, f, Level(n + 1))
  <2>1. \A s \in Level(n) : s \in Level(n + 1) /\ g[s] = f[s]
    <3>1. \A s \in Level(n) : s \in Level(n + 1)
      BY <1>1
    <3>2. \A s \in Level(n) : f[s] = Folded(way, data, base, f, Level(n))[s]
      OBVIOUS
    <3> HIDE DEF Level
    <3>3. QED
      BY <3>1, <3>2 DEF Folded
  <2>2. \A s \in Level(n + 1) : s # {} => g[Rest(way, s)] = f[Rest(way, s)]
    <3>1. ASSUME NEW s \in Level(n + 1), s # {} PROVE Rest(way, s) \in Level(n)
      BY <1>1, <1>2, <3>1
    <3> HIDE DEF Level, g
    <3>2. QED
      BY <2>1, <3>1
  <2>3. g = Folded(way, data, base, g, Level(n + 1))
    <3>1. g = [s \in Level(n + 1) |->
                 IF s = {} THEN base ELSE Combined(way, data, Chosen(way, s), f[Rest(way, s)])]
      BY DEF Folded
    <3> HIDE DEF Level, g
    <3>2. QED
      BY <2>2, <3>1 DEF Folded
  <2>4. QED
    BY <2>3
<1>5. Unknown = {}
  <2> SUFFICES ASSUME Unknown # {} PROVE FALSE
    OBVIOUS
  <2>1. PICK n \in Unknown : \A m \in Unknown : n <= m
    <3>1. Unknown \in SUBSET Nat
      OBVIOUS
    <3> HIDE DEF Unknown
    <3>2. QED
      BY <3>1, LeastExists
  <2> HIDE DEF Known
  <2>2. n \in Nat /\ n # 0 /\ ~ Known(n)
    BY <1>3
  <2>3. n - 1 \in Nat /\ n - 1 < n /\ (n - 1) + 1 = n
    BY <2>2
  <2>4. Known(n - 1)
    BY <2>1, <2>3
  <2>5. QED
    BY <1>4, <2>2, <2>3, <2>4
<1>6. Known(Cardinality(D))
  <2>1. Cardinality(D) \in Nat
    BY FS_CardinalityType
  <2> HIDE DEF Known
  <2>2. QED
    BY <1>5, <2>1
<1>7. Level(Cardinality(D)) = SUBSET D
  BY <1>1
<1>8. QED
  BY <1>6, <1>7

\* Sets of places from the smallest up.
LEMMA SmallestOf ==
    ASSUME NEW D, IsFiniteSet(D), NEW Bad \in SUBSET (SUBSET D), Bad # {}
    PROVE  \E s \in Bad : \A x \in s : s \ {x} \notin Bad
<1> DEFINE R == StrictSubsetOrdering(D)
<1>1. IsWellFoundedOn(R, FiniteSubsetsOf(D))
  BY FS_StrictSubsetOrderingWellFounded
<1>2. Bad \subseteq FiniteSubsetsOf(D)
  <2>1. \A s \in SUBSET D : IsFiniteSet(s)
    BY FS_Subset
  <2>2. QED
    BY <2>1 DEF FiniteSubsetsOf
<1>3. PICK s \in Bad : \A t \in Bad : ~ (<<t, s>> \in R)
  <2> HIDE DEF R
  <2>1. QED
    BY <1>1, <1>2, WFMin
<1>4. ASSUME NEW x \in s PROVE <<s \ {x}, s>> \in R
  BY DEF StrictSubsetOrdering
<1> HIDE DEF R
<1>5. QED
  BY <1>3, <1>4

-----------------------------------------------------------------------------
(* Products over sets of symbols *)

\* What a fold says of every subset: the product of a subset takes one factor off it.
Taken(s) == CHOOSE x \in s : TRUE
Multiplied(f, base, sizes, T) ==
    [s \in T |-> IF s = {} THEN base ELSE sizes[Taken(s)] * f[s \ {Taken(s)}]]
Products(base, sizes, D) == CHOOSE f : f = Multiplied(f, base, sizes, SUBSET D)

LEMMA EvalUnfolds ==
    ASSUME NEW dim, NEW sizes
    PROVE  Eval(dim, sizes) = Products(dim.factor, sizes, dim.syms)[dim.syms]
BY DEF Eval, FoldSet, MapThenFoldSet, Products, Multiplied, Taken

LEMMA ProductsExist ==
    ASSUME NEW base, NEW sizes, NEW D, IsFiniteSet(D)
    PROVE  \E f : f = Multiplied(f, base, sizes, SUBSET D)
<1>1. PICK f : f = Folded("factor", sizes, base, f, SUBSET D)
  BY FoldExists
<1>2. ASSUME NEW t, NEW x
      PROVE  /\ Combined("factor", sizes, x, f[t]) = sizes[x] * f[t]
             /\ Chosen("factor", t) = Taken(t) /\ Rest("factor", t) = t \ {Taken(t)}
  BY DEF Combined, Chosen, Rest, Taken
<1>3. f = [s \in SUBSET D |-> IF s = {} THEN base
             ELSE Combined("factor", sizes, Chosen("factor", s), f[Rest("factor", s)])]
  BY <1>1 DEF Folded
<1>4. ASSUME NEW s
      PROVE  Combined("factor", sizes, Chosen("factor", s), f[Rest("factor", s)])
               = sizes[Taken(s)] * f[s \ {Taken(s)}]
  BY <1>2
<1>5. f = Multiplied(f, base, sizes, SUBSET D)
  BY <1>3, <1>4 DEF Multiplied
<1>6. QED
  BY <1>5

LEMMA ProductsAre ==
    ASSUME NEW base, NEW sizes, NEW D, IsFiniteSet(D), NEW s \in SUBSET D
    PROVE  Products(base, sizes, D)[s]
             = IF s = {} THEN base
               ELSE sizes[Taken(s)] * Products(base, sizes, D)[s \ {Taken(s)}]
<1> DEFINE P == Products(base, sizes, D)
<1>1. P = Multiplied(P, base, sizes, SUBSET D)
  BY ProductsExist DEF Products
<1> HIDE DEF P
<1>2. P[s] = Multiplied(P, base, sizes, SUBSET D)[s]
  BY <1>1
<1>3. QED
  BY <1>2 DEF Multiplied, P

LEMMA ProductOfNone ==
    ASSUME NEW base, NEW sizes, NEW D, IsFiniteSet(D)
    PROVE  Products(base, sizes, D)[{}] = base
<1> DEFINE P == Products(base, sizes, D)
<1>1. \A s \in SUBSET D :
        P[s] = IF s = {} THEN base ELSE sizes[Taken(s)] * P[s \ {Taken(s)}]
  <2>1. ASSUME NEW s \in SUBSET D
        PROVE  P[s] = IF s = {} THEN base ELSE sizes[Taken(s)] * P[s \ {Taken(s)}]
    BY ProductsAre
  <2>2. QED
    BY <2>1
<1> HIDE DEF P
<1>2. {} \in SUBSET D
  OBVIOUS
<1>3. P[{}] = base
  BY <1>1, <1>2
<1>4. QED
  BY <1>3 DEF P

\* A product with larger factors is not smaller.
LEMMA EvalIsMonotone ==
    ASSUME NEW dim, IsFiniteSet(dim.syms), dim.factor \in Nat, NEW a, NEW b,
           \A s \in dim.syms : a[s] \in Nat /\ b[s] \in Nat /\ a[s] <= b[s]
    PROVE  Eval(dim, a) \in Nat /\ Eval(dim, b) \in Nat /\ Eval(dim, a) <= Eval(dim, b)
<1> DEFINE D == dim.syms
           P == Products(dim.factor, a, D)
           Q == Products(dim.factor, b, D)
           Good(s) == P[s] \in Nat /\ Q[s] \in Nat /\ P[s] <= Q[s]
           Bad == {s \in SUBSET D : ~ Good(s)}
           R == StrictSubsetOrdering(D)
<1>1. IsWellFoundedOn(R, FiniteSubsetsOf(D))
  BY FS_StrictSubsetOrderingWellFounded
<1>2. Bad \subseteq FiniteSubsetsOf(D)
  <2>1. \A s \in SUBSET D : IsFiniteSet(s)
    BY FS_Subset
  <2>2. QED
    BY <2>1 DEF FiniteSubsetsOf
<1>3. P[{}] = dim.factor /\ Q[{}] = dim.factor
  BY ProductOfNone
<1>4. ASSUME NEW s \in SUBSET D, s # {}
      PROVE  /\ Taken(s) \in s
             /\ P[s] = a[Taken(s)] * P[s \ {Taken(s)}]
             /\ Q[s] = b[Taken(s)] * Q[s \ {Taken(s)}]
  <2>1. Taken(s) \in s
    BY <1>4 DEF Taken
  <2>2. P[s] = IF s = {} THEN dim.factor ELSE a[Taken(s)] * P[s \ {Taken(s)}]
    BY ProductsAre
  <2>3. Q[s] = IF s = {} THEN dim.factor ELSE b[Taken(s)] * Q[s \ {Taken(s)}]
    BY ProductsAre
  <2> HIDE DEF P, Q
  <2>4. QED
    BY <1>4, <2>1, <2>2, <2>3
<1> HIDE DEF P, Q
<1>5. ASSUME NEW s \in SUBSET D, s # {}, Good(s \ {Taken(s)}) PROVE Good(s)
  <2> DEFINE t == Taken(s)
             p == P[s \ {t}]
             q == Q[s \ {t}]
  <2>1. t \in D
    BY <1>4, <1>5
  <2>2. a[t] \in Nat /\ b[t] \in Nat /\ a[t] <= b[t]
    BY <2>1
  <2>3. p \in Nat /\ q \in Nat /\ p <= q
    BY <1>5
  <2>4. P[s] = a[t] * p /\ Q[s] = b[t] * q
    BY <1>4, <1>5
  <2>5. ASSUME NEW x \in Nat, NEW y \in Nat, NEW u \in Nat, NEW v \in Nat, x <= y, u <= v
        PROVE  x * u \in Nat /\ y * v \in Nat /\ x * u <= y * v
    <3>1. x * u <= y * u
      BY <2>5
    <3>2. y * u <= y * v
      BY <2>5
    <3>3. x * u \in Nat /\ y * u \in Nat /\ y * v \in Nat
      OBVIOUS
    <3>4. QED
      BY <3>1, <3>2, <3>3
  <2> HIDE DEF t, p, q
  <2>6. a[t] * p \in Nat /\ b[t] * q \in Nat /\ a[t] * p <= b[t] * q
    BY <2>2, <2>3, <2>5
  <2>7. QED
    BY <2>4, <2>6
<1>6. Bad = {}
  <2> SUFFICES ASSUME Bad # {} PROVE FALSE
    OBVIOUS
  <2>1. PICK s \in Bad : \A t \in Bad : ~ (<<t, s>> \in R)
    <3> HIDE DEF Bad, R
    <3>1. QED
      BY <1>1, <1>2, WFMin
  <2>2. s \in SUBSET D /\ s # {}
    BY <1>3
  <2>3. Taken(s) \in s
    BY <1>4, <2>2
  <2>4. s \ {Taken(s)} \in SUBSET D /\ <<s \ {Taken(s)}, s>> \in R
    BY <2>2, <2>3 DEF StrictSubsetOrdering
  <2>5. Good(s \ {Taken(s)})
    <3> HIDE DEF Good, R
    <3>1. QED
      BY <2>1, <2>4
  <2>6. QED
    <3> HIDE DEF Good, R
    <3>1. QED
      BY <1>5, <2>2, <2>5
<1>7. Good(D)
  <2> HIDE DEF Good
  <2>1. QED
    BY <1>6
<1>8. QED
  BY <1>7, EvalUnfolds DEF P, Q

\* A dimension without symbols is its factor, and one symbol is its size.
LEMMA EvalOfNone ==
    ASSUME NEW n, NEW sizes
    PROVE  Eval([syms |-> {}, factor |-> n], sizes) = n
<1>1. IsFiniteSet({})
  BY FS_EmptySet
<1>2. Products(n, sizes, {})[{}] = n
  BY <1>1, ProductsAre
<1>3. QED
  BY <1>2, EvalUnfolds

LEMMA EvalOfOne ==
    ASSUME NEW s, NEW sizes, sizes[s] \in Int
    PROVE  Eval([syms |-> {s}, factor |-> 1], sizes) = sizes[s]
<1>1. IsFiniteSet({s})
  BY FS_Singleton
<1>2. Taken({s}) = s
  BY DEF Taken
<1>3. {s} \ {s} = {}
  OBVIOUS
<1> DEFINE P == Products(1, sizes, {s})
<1>4. P[{}] = 1
  BY <1>1, ProductOfNone
<1>5. ASSUME NEW D, IsFiniteSet(D), NEW t \in SUBSET D
      PROVE  Products(1, sizes, D)[t]
               = IF t = {} THEN 1 ELSE sizes[Taken(t)] * Products(1, sizes, D)[t \ {Taken(t)}]
  BY <1>5, ProductsAre
<1>6. Eval([syms |-> {s}, factor |-> 1], sizes) = P[{s}]
  BY EvalUnfolds
<1> HIDE DEF P
<1>7. P[{s}] = sizes[s] * 1
  <2>1. {s} \in SUBSET {s} /\ {s} # {}
    OBVIOUS
  <2>2. P[{s}] = sizes[Taken({s})] * P[{s} \ {Taken({s})}]
    BY <1>1, <1>5, <2>1 DEF P
  <2>3. QED
    BY <1>2, <1>3, <1>4, <2>2
<1>8. QED
  BY <1>6, <1>7

-----------------------------------------------------------------------------
(* What the signature says *)

\* The first of some symbols is one of them.
LEMMA FirstIsOne ==
    ASSUME NEW symbols, symbols # {}, symbols \subseteq Range(SymbolOrder)
    PROVE  FirstOf(symbols) \in symbols
<1> DEFINE ranks == {Rank(s) : s \in symbols}
<1>1. \A s \in symbols : Rank(s) \in Nat
  <2>1. SymbolOrder \in Seq(Range(SymbolOrder))
    BY DeploymentAssumption DEF IsList
  <2>2. \A s \in Range(SymbolOrder) : \E i \in DOMAIN SymbolOrder : SymbolOrder[i] = s
    BY DEF Range
  <2>3. \A s \in Range(SymbolOrder) : Rank(s) \in DOMAIN SymbolOrder
    BY <2>2 DEF Rank
  <2>4. \A i \in DOMAIN SymbolOrder : i \in Nat
    BY <2>1
  <2>5. QED
    BY <2>3, <2>4
<1>2. PICK r \in ranks : \A q \in ranks : r <= q
  <2>1. ranks \in SUBSET Nat /\ ranks # {}
    BY <1>1
  <2> HIDE DEF ranks
  <2>2. QED
    BY <2>1, LeastExists
<1>3. \E s \in symbols : \A t \in symbols : Rank(s) <= Rank(t)
  BY <1>2
<1>4. QED
  BY <1>3 DEF FirstOf

\* The probe sizes are numbers, and two in a row differ.
LEMMA ProbesDiffer ==
    ASSUME NEW k \in Nat
    PROVE  Probe(k) \in Nat /\ Probe(k + 1) \in Nat /\ Probe(k) # Probe(k + 1)
<1> DEFINE r == k % 10
<1>1. r \in 0 .. 9 /\ (k + 1) % 10 = IF r = 9 THEN 0 ELSE r + 1
  OBVIOUS
<1>2. Len(PROBE_SIZES) = 10
  BY DEF PROBE_SIZES
<1>3. /\ Probe(k) = PROBE_SIZES[r + 1]
      /\ Probe(k + 1) = PROBE_SIZES[(IF r = 9 THEN 0 ELSE r + 1) + 1]
  BY <1>1, <1>2 DEF Probe
<1> HIDE DEF r
<1>4. QED
  BY <1>1, <1>3 DEF PROBE_SIZES

\* The number of symbols before one is a number.
LEMMA IndexIsNumber ==
    ASSUME NEW symbols, symbols \subseteq Range(SymbolOrder), NEW s \in symbols
    PROVE  Index(s, symbols) \in Nat
<1>1. Rank(s) \in Int
  <2>1. SymbolOrder \in Seq(Range(SymbolOrder))
    BY DeploymentAssumption DEF IsList
  <2>2. \E i \in DOMAIN SymbolOrder : SymbolOrder[i] = s
    BY DEF Range
  <2>3. Rank(s) \in DOMAIN SymbolOrder
    BY <2>2 DEF Rank
  <2>4. QED
    BY <2>1, <2>3
<1>2. IsFiniteSet(1 .. (Rank(s) - 1))
  BY <1>1, FS_Interval
<1>3. IsFiniteSet({i \in 1 .. (Rank(s) - 1) : SymbolOrder[i] \in symbols})
  BY <1>2, FS_Subset
<1>4. QED
  BY <1>3, FS_CardinalityType DEF Index

\* The first profile gives numbers, and gives the same symbols a size every time.
LEMMA GivenAre ==
    ASSUME NEW c, Typed(c), Accepts(c), NEW which \in Which
    PROVE  /\ \A g \in Given(c, which) : g[2] \in Int
           /\ \A s : (\E g \in Given(c, which) : g[1] = s) <=> s \in Covered(c)
<1>1. CASE c.profiles = << >>
  BY <1>1 DEF Given, Covered
<1>2. CASE c.profiles # << >>
  <2> DEFINE P == c.profiles[1]
             Spec1(name) == Input(c.model, name)
             Pair(name, i, w) == <<Spec1(name).shape[i].sym, P[name][w][i]>>
  <2>1. P \in Range(c.profiles)
    <3>1. c.profiles \in Seq(Range(c.profiles))
      BY DEF Typed, IsList
    <3>2. 1 \in DOMAIN c.profiles
      BY <1>2, <3>1
    <3>3. QED
      BY <3>2 DEF Range
  <2>2. ASSUME NEW name \in DOMAIN P, NEW i \in DynamicAxes(Spec1(name))
        PROVE  P[name][which][i] \in Int
    <3>1. P[name] \in [{"min", "opt", "max"} -> Seq(Int)]
      BY <2>1 DEF Typed
    <3>2. /\ ShapeRangeOK(P[name]) /\ name \in InputNames(c.model)
          /\ RangeFitsSpec(P[name], Spec1(name))
      BY <2>1 DEF Accepts, ProfilesOK
    <3>3. Spec1(name) \in Range(c.model.inputs)
      BY <3>2 DEF InputNames, Input, Range
    <3>4. IsList(Spec1(name).shape)
      BY <3>3 DEF Typed
    <3>5. i \in DOMAIN Spec1(name).shape
      BY DEF DynamicAxes
    <3> HIDE DEF P, Spec1
    <3>6. i \in DOMAIN P[name][which]
      BY <3>1, <3>2, <3>4, <3>5 DEF ShapeRangeOK, RangeFitsSpec, IsList, Which
    <3>7. QED
      BY <3>1, <3>6 DEF Which
  <2>3. ASSUME NEW w \in Which
        PROVE  Given(c, w) = UNION {{Pair(name, i, w) : i \in DynamicAxes(Spec1(name))} :
                                    name \in DOMAIN P}
    BY <1>2 DEF Given
  <2>4. ASSUME NEW w \in Which, NEW s
        PROVE  (\E g \in Given(c, w) : g[1] = s)
                 <=> \E name \in DOMAIN P : \E i \in DynamicAxes(Spec1(name)) :
                       Spec1(name).shape[i].sym = s
    <3> HIDE DEF P, Spec1
    <3>1. ASSUME NEW g \in Given(c, w)
          PROVE  \E name \in DOMAIN P : \E i \in DynamicAxes(Spec1(name)) : g = Pair(name, i, w)
      <4> HIDE DEF Pair
      <4>1. QED
        BY <2>3
    <3>2. ASSUME NEW name \in DOMAIN P, NEW i \in DynamicAxes(Spec1(name))
          PROVE  Pair(name, i, w) \in Given(c, w)
      <4> HIDE DEF Pair
      <4>1. QED
        BY <2>3
    <3>3. \A name, i : Pair(name, i, w)[1] = Spec1(name).shape[i].sym
      OBVIOUS
    <3> HIDE DEF Pair
    <3>4. ASSUME NEW g \in Given(c, w), g[1] = s
          PROVE  \E name \in DOMAIN P : \E i \in DynamicAxes(Spec1(name)) :
                   Spec1(name).shape[i].sym = s
      BY <3>1, <3>3, <3>4
    <3>5. ASSUME NEW name \in DOMAIN P, NEW i \in DynamicAxes(Spec1(name)),
                 Spec1(name).shape[i].sym = s
          PROVE  \E g \in Given(c, w) : g[1] = s
      BY <3>2, <3>3, <3>5
    <3>6. QED
      BY <3>4, <3>5
  <2>5. \A g \in Given(c, which) : g[2] \in Int
    <3> HIDE DEF P, Spec1
    <3>1. ASSUME NEW g \in Given(c, which)
          PROVE  \E name \in DOMAIN P : \E i \in DynamicAxes(Spec1(name)) : g = Pair(name, i, which)
      <4> HIDE DEF Pair
      <4>1. QED
        BY <2>3
    <3>2. QED
      BY <2>2, <3>1
  <2>6. \A s : s \in Covered(c) <=> \E g \in Given(c, "min") : g[1] = s
    BY DEF Covered
  <2>7. "min" \in Which
    BY DEF Which
  <2> HIDE DEF P, Spec1, Pair
  <2>8. QED
    BY <2>4, <2>5, <2>6, <2>7
<1>3. QED
  BY <1>1, <1>2

\* A symbol that the profile covers has its size from there, another one from the fallback.
LEMMA SizeIs ==
    ASSUME NEW c, Typed(c), Accepts(c), NEW which \in Which, NEW fallback,
           NEW s \in Symbols(c.model)
    PROVE  /\ s \in Covered(c) => /\ SizesWith(c, which, fallback)[s] = Sizes(c, which)[s]
                                  /\ Sizes(c, which)[s] \in Int
           /\ s \notin Covered(c) =>
                SizesWith(c, which, fallback)[s] =
                  IF s \in DOMAIN fallback THEN fallback[s]
                  ELSE Probe(Index(s, Symbols(c.model)))
<1> DEFINE given == Given(c, which)
           one == (CHOOSE g \in given : g[1] = s)[2]
<1>1. ASSUME NEW f
      PROVE  SizesWith(c, which, f)[s] =
               IF \E g \in given : g[1] = s THEN one
               ELSE IF s \in DOMAIN f THEN f[s] ELSE Probe(Index(s, Symbols(c.model)))
  BY DEF SizesWith
<1>2. (\E g \in given : g[1] = s) <=> s \in Covered(c)
  BY GivenAre
<1>3. s \in Covered(c) => one \in Int
  <2> SUFFICES ASSUME s \in Covered(c) PROVE one \in Int
    OBVIOUS
  <2>1. \E g \in given : g[1] = s
    BY <1>2
  <2>2. \A g \in given : g[2] \in Int
    BY GivenAre
  <2> HIDE DEF given
  <2>3. QED
    BY <2>1, <2>2
<1> HIDE DEF given, one
<1>4. QED
  BY <1>1, <1>2, <1>3 DEF Sizes

\* The two sizes of a symbol differ unless the first profile pins it.
LEMMA SizesDiffer ==
    ASSUME NEW c, Typed(c), Accepts(c), Symbols(c.model) \subseteq Range(SymbolOrder),
           NEW s \in Symbols(c.model)
    PROVE  LET a == Sizes(c, "opt")
               b == AlternateSizes(c, a)
           IN /\ a[s] \in Int /\ b[s] \in Int
              /\ a[s] = b[s] => s \in Pinned(c)
<1> DEFINE a == Sizes(c, "opt")
           b == AlternateSizes(c, a)
           small == SizesWith(c, "min", OtherProbe(c))
           large == SizesWith(c, "max", OtherProbe(c))
           k == Index(s, Symbols(c.model))
<1>1. b[s] = IF small[s] # a[s] THEN small[s] ELSE large[s]
  BY DEF AlternateSizes
<1>2. "min" \in Which /\ "opt" \in Which /\ "max" \in Which
  BY DEF Which
<1>3. k \in Nat
  BY IndexIsNumber
<1>4. s \in DOMAIN OtherProbe(c) /\ OtherProbe(c)[s] = Probe(k + 1)
  BY DEF OtherProbe
<1>5. CASE s \in Covered(c)
  <2>1. /\ a[s] \in Int /\ small[s] = Sizes(c, "min")[s] /\ large[s] = Sizes(c, "max")[s]
        /\ small[s] \in Int /\ large[s] \in Int
    BY <1>2, <1>5, SizeIs
  <2> HIDE DEF a, b, small, large
  <2>2. a[s] = b[s] => small[s] = large[s]
    BY <1>1
  <2>3. QED
    BY <1>1, <1>5, <2>1, <2>2 DEF Pinned, a, b
<1>6. CASE s \notin Covered(c)
  <2>1. small[s] = Probe(k + 1) /\ large[s] = Probe(k + 1)
    BY <1>2, <1>4, <1>6, SizeIs
  <2>2. a[s] = Probe(k)
    <3>1. DOMAIN << >> = {}
      OBVIOUS
    <3>2. SizesWith(c, "opt", << >>)[s] = IF s \in DOMAIN << >> THEN << >>[s] ELSE Probe(k)
      BY <1>2, <1>6, SizeIs
    <3>3. QED
      BY <3>1, <3>2 DEF Sizes
  <2>3. Probe(k) \in Nat /\ Probe(k + 1) \in Nat /\ Probe(k) # Probe(k + 1)
    BY <1>3, ProbesDiffer
  <2> HIDE DEF a, b, small, large, k
  <2>4. a[s] \in Int /\ b[s] \in Int /\ a[s] # b[s]
    BY <1>1, <2>1, <2>2, <2>3
  <2>5. QED
    BY <2>4 DEF a, b
<1>7. QED
  BY <1>5, <1>6

\* What inspect writes is right, for any model.
LEMMA InferredIsRight ==
    ASSUME Control, Accepts(config), NEW i \in DOMAIN model, NEW s \in Symbols(config.model),
           model[i] = [syms |-> {s}, factor |-> 1], NEW c \in Cases, config = c.config
    PROVE  \/ InferSignature[i] = Symbolic(s)
           \/ InferSignature[i].sym \in Twins(s) \ {s}
           \/ s \in Pinned(config) /\ InferSignature[i] = Static(Sizes(config, "opt")[s])
<1> DEFINE a == Sizes(config, "opt")
           b == AlternateSizes(config, a)
           matches == {t \in DOMAIN a : a[t] = a[s] /\ b[t] = b[s]}
<1>1. Typed(config) /\ Symbols(config.model) \subseteq Range(SymbolOrder)
  BY DeploymentAssumption
<1>2. a[s] \in Int /\ b[s] \in Int /\ (a[s] = b[s] => s \in Pinned(config))
  BY <1>1, SizesDiffer
<1>3. OutputShape(model, a)[i] = a[s] /\ OutputShape(model, b)[i] = b[s]
  <2>1. ASSUME NEW sizes, sizes[s] \in Int PROVE OutputShape(model, sizes)[i] = sizes[s]
    <3>1. OutputShape(model, sizes)[i] = Eval([syms |-> {s}, factor |-> 1], sizes)
      BY DEF OutputShape
    <3>2. QED
      BY <2>1, <3>1, EvalOfOne
  <2> HIDE DEF a, b
  <2>2. QED
    BY <1>2, <2>1
<1>4. InferSignature[i] = Attribute(a[s], b[s], a, b)
  <2>1. InferSignature = AttributeDims(OutputShape(model, a), OutputShape(model, b), a, b)
    BY DEF InferSignature
  <2>2. i \in DOMAIN OutputShape(model, a)
    BY DEF OutputShape
  <2> HIDE DEF a, b
  <2>3. QED
    BY <1>3, <2>1, <2>2 DEF AttributeDims
<1>5. DOMAIN a = Symbols(config.model)
  BY DEF Sizes, SizesWith
<1>6. matches = Twins(s)
  BY <1>5 DEF Twins
<1>7. s \in matches /\ matches \subseteq Range(SymbolOrder)
  BY <1>1, <1>5
<1>8. FirstOf(matches) \in matches
  <2> HIDE DEF matches
  <2>1. QED
    BY <1>7, FirstIsOne
<1>9. CASE a[s] = b[s]
  <2>1. InferSignature[i] = Static(a[s])
    BY <1>4, <1>9 DEF Attribute
  <2>2. QED
    BY <1>2, <1>9, <2>1
<1>10. CASE a[s] # b[s]
  <2>1. InferSignature[i] = Symbolic(IF matches = {} THEN Synthetic ELSE FirstOf(matches))
    BY <1>4, <1>10 DEF Attribute
  <2> HIDE DEF matches
  <2>2. InferSignature[i] = Symbolic(FirstOf(matches))
    BY <1>7, <2>1
  <2>3. InferSignature[i].sym = FirstOf(matches)
    BY <2>2 DEF Symbolic
  <2>4. QED
    BY <1>6, <1>8, <2>2, <2>3
<1>11. QED
  BY <1>9, <1>10

\* What is known of the outputs is what inspect wrote; the case never changes.
SignatureIsInferred ==
    /\ \E c \in Cases : config = c.config /\ model = c.model
    /\ signature # None => signature = InferSignature

LEMMA SignatureStep == SignatureIsInferred /\ [Next]_vars => SignatureIsInferred'
<1> SUFFICES ASSUME SignatureIsInferred, [Next]_vars PROVE SignatureIsInferred'
  OBVIOUS
<1>1. config' = config /\ model' = model
  BY EnginesOnlyGrow
<1>2. InferSignature' = InferSignature
  BY <1>1 DEF InferSignature
<1>3. signature' = signature \/ signature' = InferSignature
  BY DEF Next, vars, Load, PassOver, Again, Inspect, Export, OptimizeStage, ValidateOnnx,
         Calibrate, Build, ValidateEngine, Benchmark, Package
<1>4. QED
  BY <1>1, <1>2, <1>3 DEF SignatureIsInferred

(* AttributionIsRight holds in every behavior: of any model, under any profile and *)
(* with any number of symbols, an output dimension that is one symbol is given     *)
(* that symbol, or another one that took the same two sizes, and is only static    *)
(* if the first profile pins it (models/signature.py, models/inputs.py).           *)
THEOREM AttributionIsRightCorrect == Spec => []AttributionIsRight
<1>1. Init => SignatureIsInferred
  BY DEF Init, SignatureIsInferred
<1>2. Spec => []SignatureIsInferred
  BY <1>1, SignatureStep, PTL DEF Spec
<1>3. Control /\ SignatureIsInferred => AttributionIsRight
  <2> SUFFICES ASSUME Control, SignatureIsInferred, signature # None,
                      NEW i \in DOMAIN model, NEW s \in Symbols(config.model),
                      model[i] = [syms |-> {s}, factor |-> 1]
               PROVE  \/ signature[i] = Symbolic(s)
                      \/ signature[i].sym \in Twins(s) \ {s}
                      \/ s \in Pinned(config) /\ signature[i] = Static(Sizes(config, "opt")[s])
    BY DEF AttributionIsRight
  <2>1. Accepts(config) /\ signature = InferSignature
    BY DEF Control, SignatureIsInferred
  <2>2. PICK c \in Cases : config = c.config
    BY DEF SignatureIsInferred
  <2>3. QED
    BY <2>1, <2>2, InferredIsRight
<1>4. QED
  BY <1>2, <1>3, ControlAndEngines, PTL

-----------------------------------------------------------------------------
(* What a validated graph computes *)

\* Sizes that an execution accepts are within the first profile.
LEMMA SizesAreInside ==
    ASSUME NEW c, Typed(c), Accepts(c), ~ ProfileShapesFail(c),
           NEW info, info.inputs = Bindings(c), NEW sizes, BindOK(info, InputShapes(c, sizes)),
           NEW i \in DOMAIN c.model.inputs, NEW k \in DynamicAxes(Tensor(c, i))
    PROVE  /\ First(c, i).min[k] \in Nat /\ First(c, i).max[k] \in Nat
           /\ First(c, i).min[k] <= sizes[Sym(c, i, k)]
           /\ sizes[Sym(c, i, k)] <= First(c, i).max[k]
<1> DEFINE spec == Tensor(c, i)
           b == Binding(c, i)
           range == First(c, i)
           shape == ConcreteShape(spec, sizes)
<1>1. DOMAIN Bindings(c) = DOMAIN c.model.inputs
  BY DEF Bindings, EngineInfo
<1>2. IsDynamic(spec) /\ k \in DOMAIN spec.shape /\ IsDynamicDim(spec.shape[k])
  BY DEF IsDynamic, DynamicAxes
<1>3. SetInputOK(b, InputShapes(c, sizes)[b.name])
  BY <1>1 DEF BindOK, Range, Binding
<1>4. InputShapes(c, sizes)[b.name] = shape
  <2>1. spec.name \in InputNames(c.model) /\ Input(c.model, spec.name) = spec
    BY InputIs DEF Tensor
  <2>2. b.name = spec.name
    BY BindingIs
  <2>3. QED
    BY <2>1, <2>2 DEF InputShapes
<1>5. Dynamic(b) /\ b.profiles[1] = range
  BY <1>2, BindingIs
<1>6. DOMAIN shape = DOMAIN spec.shape /\ shape[k] = sizes[Sym(c, i, k)]
  BY <1>2 DEF ConcreteShape, Sym
<1>7. range.min[k] <= shape[k] /\ shape[k] <= range.max[k]
  <2> HIDE DEF b, range, shape, spec
  <2>1. Inside(shape, range)
    BY <1>3, <1>4, <1>5 DEF SetInputOK
  <2>2. QED
    BY <1>2, <1>6, <2>1 DEF Inside
<1>8. range.min[k] \in Nat /\ range.max[k] \in Nat
  <2>1. /\ c.profiles # << >> /\ 1 \in DOMAIN c.profiles /\ spec.name \in DOMAIN c.profiles[1]
        /\ range \in [{"min", "opt", "max"} -> Seq(Int)]
        /\ DOMAIN range["min"] = DOMAIN spec.shape /\ DOMAIN range["max"] = DOMAIN spec.shape
        /\ range.min[k] <= range.opt[k] /\ range.opt[k] <= range.max[k]
    BY <1>2, FirstProfile
  <2>2. DOMAIN range["opt"] = DOMAIN spec.shape
    BY <1>2, FirstProfile
  <2>3. c.profiles[1] \in Range(c.profiles)
    BY <2>1 DEF Range
  <2>4. ShapeRangeOK(range)
    BY <2>1, <2>3 DEF Accepts, ProfilesOK, First
  <2> HIDE DEF range, spec
  <2>5. 1 <= range.min[k]
    BY <1>2, <2>1, <2>4 DEF ShapeRangeOK
  <2>6. range.min[k] \in Int /\ range.opt[k] \in Int /\ range.max[k] \in Int
    <3>1. range.min \in Seq(Int) /\ range.opt \in Seq(Int) /\ range.max \in Seq(Int)
      BY <2>1
    <3>2. QED
      BY <1>2, <2>1, <2>2, <3>1
  <2>7. QED
    BY <2>1, <2>5, <2>6
<1>9. QED
  BY <1>6, <1>7, <1>8

\* Every symbol is on an axis of an input.
LEMMA SymbolHasAxis ==
    ASSUME NEW c, NEW s \in Symbols(c.model)
    PROVE  \E i \in DOMAIN c.model.inputs : \E k \in DynamicAxes(Tensor(c, i)) : s = Sym(c, i, k)
<1>1. PICK spec \in Range(c.model.inputs) : s \in SpecSymbols(spec)
  BY DEF Symbols
<1>2. PICK i \in DOMAIN c.model.inputs : spec = Tensor(c, i)
  BY DEF Range, Tensor
<1>3. QED
  BY <1>1, <1>2 DEF SpecSymbols, Sym

LEMMA SymbolsAreDynamic ==
    ASSUME NEW c, Symbols(c.model) # {}
    PROVE  \E i \in DOMAIN c.model.inputs : IsDynamic(Tensor(c, i))
<1>1. PICK s \in Symbols(c.model) : TRUE
  OBVIOUS
<1>2. PICK i \in DOMAIN c.model.inputs : \E k \in DynamicAxes(Tensor(c, i)) : s = Sym(c, i, k)
  BY SymbolHasAxis
<1>3. QED
  BY <1>2 DEF IsDynamic

\* Sizes that an execution accepts are between the smallest and the largest of each symbol.
LEMMA SizesAreBetween ==
    ASSUME NEW c, Typed(c), Accepts(c), ~ ProfileShapesFail(c), ~ SignatureConflict(c),
           NEW info, info.inputs = Bindings(c), NEW sizes, BindOK(info, InputShapes(c, sizes)),
           NEW s \in Symbols(c.model), sizes[s] \in Int
    PROVE  /\ Sizes(c, "min")[s] \in Nat /\ Sizes(c, "max")[s] \in Nat /\ sizes[s] \in Nat
           /\ Sizes(c, "min")[s] <= sizes[s] /\ sizes[s] <= Sizes(c, "max")[s]
<1>1. PICK i \in DOMAIN c.model.inputs : \E k \in DynamicAxes(Tensor(c, i)) : s = Sym(c, i, k)
  BY SymbolHasAxis
<1>2. PICK k \in DynamicAxes(Tensor(c, i)) : s = Sym(c, i, k)
  BY <1>1
<1>3. \A which \in Which : ~ Conflicting(c, which)
  BY DEF SignatureConflict, Which
<1>4. Sizes(c, "min")[s] = First(c, i)["min"][k] /\ Sizes(c, "max")[s] = First(c, i)["max"][k]
  BY <1>2, <1>3, SizeOfAxis DEF Which
<1>5. /\ First(c, i).min[k] \in Nat /\ First(c, i).max[k] \in Nat
      /\ First(c, i).min[k] <= sizes[s] /\ sizes[s] <= First(c, i).max[k]
  BY <1>2, SizesAreInside
<1>6. QED
  BY <1>4, <1>5

\* A dimension with one value at the smallest and at the largest sizes is constant between them.
LEMMA EvalIsConstant ==
    ASSUME NEW dim, IsFiniteSet(dim.syms), dim.factor \in Nat, NEW low, NEW sizes, NEW high,
           \A s \in dim.syms :
             /\ low[s] \in Nat /\ sizes[s] \in Nat /\ high[s] \in Nat
             /\ low[s] <= sizes[s] /\ sizes[s] <= high[s],
           Eval(dim, low) = Eval(dim, high)
    PROVE  Eval(dim, sizes) = Eval(dim, low)
<1>1. Eval(dim, low) \in Nat /\ Eval(dim, sizes) \in Nat /\ Eval(dim, low) <= Eval(dim, sizes)
  BY EvalIsMonotone
<1>2. Eval(dim, high) \in Nat /\ Eval(dim, sizes) <= Eval(dim, high)
  BY EvalIsMonotone
<1>3. QED
  BY <1>1, <1>2

\* A dimension without symbols has one value.
LEMMA EvalOfFactor ==
    ASSUME NEW dim, dim.syms = {}, NEW a, NEW b
    PROVE  Eval(dim, a) = Eval(dim, b)
<1>1. IsFiniteSet({})
  BY FS_EmptySet
<1>2. Products(dim.factor, a, {})[{}] = dim.factor /\ Products(dim.factor, b, {})[{}] = dim.factor
  BY <1>1, ProductOfNone
<1>3. QED
  BY <1>2, EvalUnfolds

\* A graph that agrees with the model at the shape points has its outputs at every size
\* that the engine accepts: the shape points hold the smallest and the largest sizes.
LEMMA AgreeingGraphIsModel ==
    ASSUME Control, NEW c \in Cases, config = c.config, model = c.model, GraphAgrees,
           Accepts(config), ~ ProfileShapesFail(config), ~ SignatureConflict(config),
           NEW info, info.inputs = Bindings(config),
           NEW sizes \in [Symbols(config.model) -> Int],
           BindOK(info, InputShapes(config, sizes))
    PROVE  OutputShape(model, sizes) = OutputShape(GraphOutputs, sizes)
<1>1. Typed(config)
  BY TypedConfig
<1>2. DOMAIN GraphOutputs = DOMAIN model
  BY DEF GraphOutputs
<1>3. SUFFICES ASSUME NEW i \in DOMAIN model
               PROVE  Eval(model[i], sizes) = Eval(GraphOutputs[i], sizes)
  BY <1>2 DEF OutputShape
<1>4. /\ IsFiniteSet(model[i].syms) /\ model[i].syms \subseteq Symbols(config.model)
      /\ model[i].factor \in Nat
  BY DeploymentAssumption
<1>5. CASE i \notin onnx.baked
  BY <1>5 DEF GraphOutputs
<1>6. CASE i \in onnx.baked
  <2> DEFINE low == Sizes(config, "min")
             high == Sizes(config, "max")
  <2>1. GraphOutputs[i] = [syms |-> {}, factor |-> Traced(i)]
    BY <1>6 DEF GraphOutputs
  <2>2. \A any : Eval(GraphOutputs[i], any) = Traced(i)
    <3>1. ASSUME NEW any PROVE Eval([syms |-> {}, factor |-> Traced(i)], any) = Traced(i)
      BY EvalOfNone
    <3>2. QED
      BY <2>1, <3>1
  <2>3. CASE Symbols(config.model) = {}
    <3>1. Traced(i) = Eval(model[i], Sizes(config, "opt"))
      BY DEF Traced
    <3>2. model[i].syms = {}
      BY <1>4, <2>3
    <3>3. Eval(model[i], sizes) = Eval(model[i], Sizes(config, "opt"))
      BY <3>2, EvalOfFactor
    <3>4. QED
      BY <2>2, <3>1, <3>3
  <2>4. CASE Symbols(config.model) # {}
    <3>1. config.profiles # << >>
      <4>3. PICK j \in DOMAIN config.model.inputs : IsDynamic(Tensor(config, j))
        BY <2>4, SymbolsAreDynamic
      <4>4. QED
        BY <1>1, <4>3, FirstProfile
    <3>2. low \in ShapePoints(config) /\ high \in ShapePoints(config)
      BY <2>4, <3>1 DEF ShapePoints
    <3>3. \A point \in ShapePoints(config) : Eval(model[i], point) = Traced(i)
      <4>1. ASSUME NEW point \in ShapePoints(config)
            PROVE  Eval(model[i], point) = Eval(GraphOutputs[i], point)
        <5>1. OutputShape(model, point) = OutputShape(GraphOutputs, point)
          BY DEF GraphAgrees, PointAgrees
        <5>2. OutputShape(model, point)[i] = OutputShape(GraphOutputs, point)[i]
          BY <5>1
        <5>3. QED
          BY <1>2, <5>2 DEF OutputShape
      <4>2. QED
        BY <2>2, <4>1
    <3>4. \A s \in model[i].syms :
            /\ low[s] \in Nat /\ sizes[s] \in Nat /\ high[s] \in Nat
            /\ low[s] <= sizes[s] /\ sizes[s] <= high[s]
      <4>1. ASSUME NEW s \in model[i].syms
            PROVE  /\ low[s] \in Nat /\ sizes[s] \in Nat /\ high[s] \in Nat
                   /\ low[s] <= sizes[s] /\ sizes[s] <= high[s]
        <5>1. s \in Symbols(config.model) /\ sizes[s] \in Int
          BY <1>4
        <5>2. QED
          BY <1>1, <5>1, SizesAreBetween
      <4>2. QED
        BY <4>1
    <3> HIDE DEF low, high
    <3>5. Eval(model[i], low) = Traced(i) /\ Eval(model[i], high) = Traced(i)
      BY <3>2, <3>3
    <3>6. Eval(model[i], sizes) = Eval(model[i], low)
      BY <1>4, <3>4, <3>5, EvalIsConstant
    <3>7. QED
      BY <2>2, <3>5, <3>6
  <2>5. QED
    BY <2>3, <2>4
<1>7. QED
  BY <1>5, <1>6

\* What was checked or optimized, and what an engine was built from after it was, agrees.
GraphIsChecked ==
  /\ engines # << >> => ~ SignatureConflict(config)
  /\ checked \/ optimized # None \/ (\E i \in DOMAIN engines : engines[i].source = "optimized")
       => onnx # None /\ GraphAgrees

LEMMA CheckedStep ==
    Control /\ EnginesAreBuilt /\ GraphIsChecked /\ [Next]_vars => GraphIsChecked'
<1> SUFFICES ASSUME Control, EnginesAreBuilt, GraphIsChecked, [Next]_vars PROVE GraphIsChecked'
  OBVIOUS
<1> DEFINE Due == checked \/ optimized # None
                  \/ \E i \in DOMAIN engines : engines[i].source = "optimized"
<1>1. config' = config /\ model' = model
  BY EnginesOnlyGrow
<1>2. \/ checked' = checked
      \/ onnx # None /\ GraphAgrees
  BY DEF Next, vars, Load, PassOver, Again, Inspect, Export, OptimizeStage, ValidateOnnx,
         Calibrate, Build, ValidateEngine, Benchmark, Package
<1>3. \/ optimized' = optimized
      \/ onnx # None /\ GraphAgrees
  BY DEF Next, vars, Load, PassOver, Again, Inspect, Export, OptimizeStage, ValidateOnnx,
         Calibrate, Build, ValidateEngine, Benchmark, Package
<1>4. ASSUME NEW i \in DOMAIN engines', engines'[i].source = "optimized" PROVE Due
  <2>1. CASE engines' = engines
    BY <1>4, <2>1
  <2>2. CASE Build
    <3>1. PICK n \in 0 .. Len(config.precisions) :
            engines' = engines \o [j \in 1 .. n |-> Engine(config.precisions[j])]
      BY <2>2 DEF Build
    <3> DEFINE new == [j \in 1 .. n |-> Engine(config.precisions[j])]
    <3>2. n \in Nat /\ new \in Seq(Range(new)) /\ Len(new) = n
      <4> DEFINE e(j) == Engine(config.precisions[j])
      <4>1. new = [j \in 1 .. n |-> e(j)] /\ n \in Nat
        OBVIOUS
      <4> HIDE DEF e, new
      <4>2. \A j \in 1 .. n : new[j] \in Range(new)
        BY <4>1 DEF Range
      <4>3. QED
        BY <4>1, <4>2
    <3>3. engines \in Seq(Range(engines)) /\ Len(engines) \in Nat /\ DOMAIN engines = 1 .. Len(engines)
      BY DEF EnginesAreBuilt, IsList
    <3>4. \A j \in 1 .. n : new[j].source = Source
      BY DEF Engine
    <3>5. \/ i \in 1 .. Len(engines) /\ engines'[i] = engines[i]
          \/ i - Len(engines) \in 1 .. n /\ engines'[i] = new[i - Len(engines)]
      <4> HIDE DEF new
      <4>1. engines' = engines \o new
        BY <3>1 DEF new
      <4>2. DOMAIN (engines \o new) = 1 .. (Len(engines) + n)
        BY <3>2, <3>3
      <4>3. i \in 1 .. (Len(engines) + n)
        BY <4>1, <4>2
      <4>4. CASE i \in 1 .. Len(engines)
        BY <3>2, <3>3, <4>1, <4>4
      <4>5. CASE i \notin 1 .. Len(engines)
        <5>1. i - Len(engines) \in 1 .. n
          BY <3>2, <3>3, <4>3, <4>5
        <5>2. (engines \o new)[i] = new[i - Len(engines)]
          BY <3>2, <3>3, <4>3, <4>5
        <5>3. QED
          BY <4>1, <5>1, <5>2
      <4>6. QED
        BY <4>4, <4>5
    <3> HIDE DEF new
    <3>6. CASE i \in 1 .. Len(engines) /\ engines'[i] = engines[i]
      BY <1>4, <3>3, <3>6
    <3>7. CASE i - Len(engines) \in 1 .. n /\ engines'[i] = new[i - Len(engines)]
      <4>1. Source = "optimized"
        BY <1>4, <3>4, <3>7
      <4>2. optimized # None
        BY <4>1 DEF Source
      <4>3. QED
        BY <4>2
    <3>8. QED
      BY <3>5, <3>6, <3>7
  <2>3. QED
    BY <2>1, <2>2, EnginesOnlyGrow
<1>5. engines' # << >> => ~ SignatureConflict(config')
  <2>1. CASE engines' = engines
    BY <1>1, <2>1 DEF GraphIsChecked
  <2>2. CASE Build
    BY <1>1, <2>2, StageIsKnown DEF Build
  <2>3. QED
    BY <2>1, <2>2, EnginesOnlyGrow
<1>6. onnx' = onnx \/ (onnx = None /\ checked' = checked /\ optimized' = optimized /\ engines' = engines)
  BY DEF Next, vars, Load, PassOver, Again, Inspect, Export, OptimizeStage, ValidateOnnx,
         Calibrate, Build, ValidateEngine, Benchmark, Package
<1>7. Due => onnx # None /\ GraphAgrees
  BY DEF GraphIsChecked
<1> HIDE DEF Due
<1>8. Due' => Due \/ (onnx # None /\ GraphAgrees)
  BY <1>2, <1>3, <1>4 DEF Due
<1>9. Due' => onnx # None /\ GraphAgrees
  BY <1>7, <1>8
<1>10. CASE onnx' = onnx
  <2>1. GraphAgrees' <=> GraphAgrees
    BY <1>1, <1>10 DEF GraphAgrees, OtherInputs, PointAgrees, GraphOutputs, Traced
  <2>2. QED
    BY <1>9, <1>10, <1>5, <2>1 DEF GraphIsChecked, Due
<1>11. CASE onnx = None /\ checked' = checked /\ optimized' = optimized /\ engines' = engines
  <2>1. ~ Due
    BY <1>7, <1>11
  <2>2. ~ Due'
    BY <1>11, <2>1 DEF Due
  <2>3. QED
    BY <1>5, <2>2 DEF GraphIsChecked, Due
<1>12. QED
  BY <1>6, <1>10, <1>11

(* ValidatedEngineIsModel holds in every behavior: of any model with any number of   *)
(* symbols and any constant factors, under any profiles and whatever dimensions the  *)
(* exporter made constant, an engine built from a validated graph has the outputs of *)
(* the model at every size its first profile allows, not only at the points that     *)
(* were compared (onnx/validate.py, tensorrt/executor.py).                           *)
THEOREM ValidatedEngineIsModelCorrect == Spec => []ValidatedEngineIsModel
<1>1. Init => SignatureIsInferred /\ GraphIsChecked
  <2> SUFFICES ASSUME Init PROVE SignatureIsInferred /\ GraphIsChecked
    OBVIOUS
  <2>1. DOMAIN engines = {} /\ ~ checked /\ optimized = None
    BY DEF Init
  <2>2. QED
    BY <2>1 DEF Init, SignatureIsInferred, GraphIsChecked
<1>2. Spec => [](SignatureIsInferred /\ GraphIsChecked)
  BY <1>1, SignatureStep, CheckedStep, ControlAndEngines, PTL DEF Spec
<1>3. Control /\ EnginesAreBuilt /\ SignatureIsInferred /\ GraphIsChecked => ValidatedEngineIsModel
  <2> SUFFICES ASSUME Control, EnginesAreBuilt, SignatureIsInferred, GraphIsChecked,
                      NEW engine \in Range(engines), engine.source = "optimized" \/ checked,
                      NEW sizes \in Boxed, BindOK(engine.info, InputShapes(config, sizes))
               PROVE  OutputShape(model, sizes) = OutputShape(GraphOutputs, sizes)
    BY DEF ValidatedEngineIsModel
  <2>1. PICK i \in DOMAIN engines : engine = engines[i]
    BY DEF Range
  <2>2. engines # << >>
    BY <2>1
  <2>3. /\ Accepts(config) /\ ~ ProfileShapesFail(config) /\ ~ SignatureConflict(config)
        /\ engine.info.inputs = Bindings(config)
    BY <2>1, <2>2 DEF EnginesAreBuilt, GraphIsChecked
  <2>4. GraphAgrees
    BY <2>1 DEF GraphIsChecked
  <2>5. PICK c \in Cases : config = c.config /\ model = c.model
    BY DEF SignatureIsInferred
  <2>6. sizes \in [Symbols(config.model) -> Int]
    BY DEF Boxed
  <2>7. QED
    BY <2>3, <2>4, <2>5, <2>6, AgreeingGraphIsModel
<1>4. QED
  BY <1>2, <1>3, ControlAndEngines, PTL

-----------------------------------------------------------------------------
(* The graph passes keep what a graph computes *)

\* The environment after some of the nodes.
EnvAfter(G) ==
    CHOOSE e : e = [s \in SUBSET DOMAIN G.nodes |->
                      IF s = {} THEN Start(G)
                      ELSE EvalNode(e[s \ {Max(s)}], G.nodes[Max(s)])]

LEMMA EnvUnfolds ==
    ASSUME NEW G
    PROVE  Env(G) = EnvAfter(G)[DOMAIN G.nodes]
BY DEF Env, EnvAfter, FoldLeft, MapThenFoldSet

LEMMA EnvAfterIs ==
    ASSUME NEW G, Row(G.nodes), NEW s \in SUBSET DOMAIN G.nodes
    PROVE  EnvAfter(G)[s]
             = IF s = {} THEN Start(G)
               ELSE EvalNode(EnvAfter(G)[s \ {Max(s)}], G.nodes[Max(s)])
<1> DEFINE D == DOMAIN G.nodes
           E == EnvAfter(G)
<1>0. IsFiniteSet(D) /\ D \subseteq Nat
  BY DEF Row
<1>1. PICK f : f = Folded("node", G.nodes, Start(G), f, SUBSET D)
  <2> HIDE DEF D
  <2>1. QED
    BY <1>0, FoldExists
<1>2. ASSUME NEW t, NEW x
      PROVE  /\ Combined("node", G.nodes, x, f[t]) = EvalNode(f[t], G.nodes[x])
             /\ Chosen("node", t) = Max(t) /\ Rest("node", t) = t \ {Max(t)}
  BY DEF Combined, Chosen, Rest
<1>3. f = [t \in SUBSET D |-> IF t = {} THEN Start(G)
                             ELSE EvalNode(f[t \ {Max(t)}], G.nodes[Max(t)])]
  <2>1. f = [t \in SUBSET D |-> IF t = {} THEN Start(G)
                ELSE Combined("node", G.nodes, Chosen("node", t), f[Rest("node", t)])]
    BY <1>1 DEF Folded
  <2>2. ASSUME NEW t
        PROVE  Combined("node", G.nodes, Chosen("node", t), f[Rest("node", t)])
                 = EvalNode(f[t \ {Max(t)}], G.nodes[Max(t)])
    BY <1>2
  <2>3. QED
    BY <2>1, <2>2
<1>4. E = [t \in SUBSET D |-> IF t = {} THEN Start(G)
                             ELSE EvalNode(E[t \ {Max(t)}], G.nodes[Max(t)])]
  BY <1>3 DEF EnvAfter
<1> HIDE DEF E
<1>5. QED
  BY <1>4 DEF E

\* The environment inside a body after some of its nodes.
InnerAfter(env, nodes) ==
    CHOOSE e : e = [s \in SUBSET DOMAIN nodes |->
                      IF s = {} THEN env ELSE EvalSimple(e[s \ {Max(s)}], nodes[Max(s)])]

LEMMA InnerUnfolds ==
    ASSUME NEW env, NEW nodes
    PROVE  FoldLeft(EvalSimple, env, nodes) = InnerAfter(env, nodes)[DOMAIN nodes]
BY DEF InnerAfter, FoldLeft, MapThenFoldSet

LEMMA InnerAfterIs ==
    ASSUME NEW env, NEW nodes, Row(nodes), NEW s \in SUBSET DOMAIN nodes
    PROVE  InnerAfter(env, nodes)[s]
             = IF s = {} THEN env
               ELSE EvalSimple(InnerAfter(env, nodes)[s \ {Max(s)}], nodes[Max(s)])
<1> DEFINE D == DOMAIN nodes
           E == InnerAfter(env, nodes)
<1>0. IsFiniteSet(D) /\ D \subseteq Nat
  BY DEF Row
<1>1. PICK f : f = Folded("inner", nodes, env, f, SUBSET D)
  <2> HIDE DEF D
  <2>1. QED
    BY <1>0, FoldExists
<1>2. ASSUME NEW t, NEW x
      PROVE  /\ Combined("inner", nodes, x, f[t]) = EvalSimple(f[t], nodes[x])
             /\ Chosen("inner", t) = Max(t) /\ Rest("inner", t) = t \ {Max(t)}
  BY DEF Combined, Chosen, Rest
<1>3. f = [t \in SUBSET D |-> IF t = {} THEN env
                             ELSE EvalSimple(f[t \ {Max(t)}], nodes[Max(t)])]
  <2>1. f = [t \in SUBSET D |-> IF t = {} THEN env
                ELSE Combined("inner", nodes, Chosen("inner", t), f[Rest("inner", t)])]
    BY <1>1 DEF Folded
  <2>2. ASSUME NEW t
        PROVE  Combined("inner", nodes, Chosen("inner", t), f[Rest("inner", t)])
                 = EvalSimple(f[t \ {Max(t)}], nodes[Max(t)])
    BY <1>2
  <2>3. QED
    BY <2>1, <2>2
<1>4. E = [t \in SUBSET D |-> IF t = {} THEN env
                             ELSE EvalSimple(E[t \ {Max(t)}], nodes[Max(t)])]
  BY <1>3 DEF InnerAfter
<1> HIDE DEF E
<1>5. QED
  BY <1>4 DEF E

-----------------------------------------------------------------------------
(* What renaming does to a node *)

AllReads(node) == Range(node.ins) \cup NamesUsedInside(node)
Renamed(node, m) == [node EXCEPT !.ins = NewNames(m, @)]

LEMMA FlatRenamed ==
    ASSUME NEW q, NEW m, FlatNodeOK(q)
    PROVE  /\ Renamed(q, m).op = q.op /\ Renamed(q, m).out = q.out
           /\ Renamed(q, m).value = q.value /\ Renamed(q, m).body = q.body
           /\ Renamed(q, m).ins = NewNames(m, q.ins)
           /\ FlatNodeOK(Renamed(q, m))
<1>1. Renamed(q, m) = [op |-> q.op, ins |-> NewNames(m, q.ins), out |-> q.out, body |-> q.body,
                       value |-> q.value]
  BY DEF Renamed, FlatNodeOK
<1>2. DOMAIN NewNames(m, q.ins) = DOMAIN q.ins /\ Row(NewNames(m, q.ins))
  BY DEF NewNames, FlatNodeOK, Row
<1>3. QED
  BY <1>1, <1>2 DEF FlatNodeOK

LEMMA NodeRenamed ==
    ASSUME NEW p, NEW m, NodeOK(p)
    PROVE  LET r == RenameReads(p, m) IN
           /\ r.op = p.op /\ r.out = p.out /\ r.value = p.value
           /\ r.ins = NewNames(m, p.ins)
           /\ r.body.nodes = [i \in DOMAIN p.body.nodes |-> Renamed(p.body.nodes[i], m)]
           /\ r.body.outs = NewNames(m, p.body.outs)
           /\ NodeOK(r) /\ InnerOuts(r) = InnerOuts(p)
<1> DEFINE r == RenameReads(p, m)
           inner == [i \in DOMAIN p.body.nodes |-> Renamed(p.body.nodes[i], m)]
<1>1. r = [op |-> p.op, ins |-> NewNames(m, p.ins), out |-> p.out,
           body |-> [nodes |-> inner, outs |-> NewNames(m, p.body.outs)], value |-> p.value]
  <2>1. p = [op |-> p.op, ins |-> p.ins, out |-> p.out, body |-> p.body, value |-> p.value]
    BY DEF NodeOK, FlatNodeOK
  <2>2. RenameReads(p, m) = [p EXCEPT !.ins = NewNames(m, p.ins),
                                      !.body = [nodes |-> inner, outs |-> NewNames(m, p.body.outs)]]
    BY DEF RenameReads, Renamed
  <2> HIDE DEF inner
  <2>3. QED
    BY <2>1, <2>2
<1>2. /\ Row(NewNames(m, p.ins)) /\ DOMAIN NewNames(m, p.ins) = DOMAIN p.ins
      /\ Row(NewNames(m, p.body.outs))
      /\ Row(inner)
  BY DEF NewNames, NodeOK, FlatNodeOK, Row
<1>3. \A i \in DOMAIN p.body.nodes : FlatNodeOK(inner[i]) /\ inner[i].out = p.body.nodes[i].out
  BY FlatRenamed DEF NodeOK
<1> HIDE DEF inner, r
<1>4. DOMAIN inner = DOMAIN p.body.nodes
  BY DEF inner
<1>5. NodeOK(r)
  BY <1>1, <1>2, <1>3, <1>4 DEF NodeOK, FlatNodeOK
<1>6. InnerOuts(r) = InnerOuts(p)
  BY <1>1, <1>3, <1>4 DEF InnerOuts, Range
<1>7. QED
  BY <1>1, <1>5, <1>6 DEF r, inner

\* Renaming nothing changes nothing.
LEMMA RenamedByNothing ==
    ASSUME NEW p, NEW m, DOMAIN m = {}, NodeOK(p)
    PROVE  RenameReads(p, m) = p
<1>1. ASSUME NEW names, Row(names) PROVE NewNames(m, names) = names
  BY <1>1 DEF NewNames, NewName, Row
<1>2. ASSUME NEW q, FlatNodeOK(q) PROVE Renamed(q, m) = q
  <2>1. NewNames(m, q.ins) = q.ins
    BY <1>1, <1>2 DEF FlatNodeOK
  <2>2. QED
    BY <1>2, <2>1 DEF Renamed, FlatNodeOK
<1> DEFINE inner == [i \in DOMAIN p.body.nodes |-> Renamed(p.body.nodes[i], m)]
<1>3. RenameReads(p, m) =
        [op |-> p.op, ins |-> NewNames(m, p.ins), out |-> p.out,
         body |-> [nodes |-> inner, outs |-> NewNames(m, p.body.outs)], value |-> p.value]
  <2>1. p = [op |-> p.op, ins |-> p.ins, out |-> p.out, body |-> p.body, value |-> p.value]
    BY DEF NodeOK, FlatNodeOK
  <2>2. RenameReads(p, m) = [p EXCEPT !.ins = NewNames(m, p.ins),
                                      !.body = [nodes |-> inner, outs |-> NewNames(m, p.body.outs)]]
    BY DEF RenameReads, Renamed
  <2> HIDE DEF inner
  <2>3. QED
    BY <2>1, <2>2
<1>4. inner = p.body.nodes
  BY <1>2 DEF NodeOK, Row
<1>5. NewNames(m, p.ins) = p.ins /\ NewNames(m, p.body.outs) = p.body.outs
  BY <1>1 DEF NodeOK, FlatNodeOK
<1> HIDE DEF inner
<1>6. QED
  BY <1>3, <1>4, <1>5 DEF NodeOK, FlatNodeOK

\* What a renamed node reads.
LEMMA RenamedReadsAre ==
    ASSUME NEW p, NEW m, NodeOK(p)
    PROVE  AllReads(RenameReads(p, m)) = {NewName(m, n) : n \in AllReads(p)}
<1> DEFINE r == RenameReads(p, m)
<1>1. /\ r.ins = NewNames(m, p.ins)
      /\ r.body.nodes = [i \in DOMAIN p.body.nodes |-> Renamed(p.body.nodes[i], m)]
      /\ r.body.outs = NewNames(m, p.body.outs)
  BY NodeRenamed
<1>2. \A i \in DOMAIN p.body.nodes : Renamed(p.body.nodes[i], m).ins = NewNames(m, p.body.nodes[i].ins)
  BY FlatRenamed DEF NodeOK
<1>3. ASSUME NEW names PROVE Range(NewNames(m, names)) = {NewName(m, n) : n \in Range(names)}
  BY DEF Range, NewNames
<1>4. ASSUME NEW q, NEW x
      PROVE  x \in NamesUsedInside(q)
               <=> \/ \E i \in DOMAIN q.body.nodes : x \in Range(q.body.nodes[i].ins)
                   \/ x \in Range(q.body.outs)
  <2>1. x \in NamesUsedInside(q) <=> \/ \E inner \in Range(q.body.nodes) : x \in Range(inner.ins)
                                     \/ x \in Range(q.body.outs)
    BY DEF NamesUsedInside
  <2>2. (\E inner \in Range(q.body.nodes) : x \in Range(inner.ins))
          <=> \E i \in DOMAIN q.body.nodes : x \in Range(q.body.nodes[i].ins)
    BY DEF Range
  <2>3. QED
    BY <2>1, <2>2
<1> HIDE DEF r
<1>5. ASSUME NEW x PROVE x \in AllReads(r) <=> x \in {NewName(m, n) : n \in AllReads(p)}
  <2> DEFINE I == DOMAIN p.body.nodes
             New(names) == \E n \in names : x = NewName(m, n)
  <2>1. DOMAIN r.body.nodes = I /\ \A i \in I : r.body.nodes[i] = Renamed(p.body.nodes[i], m)
    BY <1>1
  <2>2. \A i \in I : x \in Range(r.body.nodes[i].ins) <=> New(Range(p.body.nodes[i].ins))
    BY <1>2, <1>3, <2>1
  <2>3. x \in Range(r.body.outs) <=> New(Range(p.body.outs))
    BY <1>1, <1>3
  <2>4. x \in Range(r.ins) <=> New(Range(p.ins))
    BY <1>1, <1>3
  <2>5. x \in NamesUsedInside(r) <=> (\E i \in I : New(Range(p.body.nodes[i].ins)))
                                     \/ New(Range(p.body.outs))
    <3> HIDE DEF New
    <3>1. QED
      BY <1>4, <2>1, <2>2, <2>3
  <2>6. New(NamesUsedInside(p)) <=> (\E i \in I : New(Range(p.body.nodes[i].ins)))
                                    \/ New(Range(p.body.outs))
    BY <1>4
  <2>7. New(AllReads(p)) <=> New(Range(p.ins)) \/ New(NamesUsedInside(p))
    BY DEF AllReads
  <2>8. x \in {NewName(m, n) : n \in AllReads(p)} <=> New(AllReads(p))
    OBVIOUS
  <2>9. x \in AllReads(r) <=> x \in Range(r.ins) \/ x \in NamesUsedInside(r)
    BY DEF AllReads
  <2> HIDE DEF New, I
  <2>10. QED
    BY <2>4, <2>5, <2>6, <2>7, <2>8, <2>9
<1>6. QED
  BY <1>5 DEF r

-----------------------------------------------------------------------------
(* What a node computes only depends on what it reads *)

LEMMA SimpleTermIs ==
    ASSUME NEW q, NEW m, FlatNodeOK(q), NEW e1, NEW e2,
           \A n \in Range(q.ins) : Value(e2, NewName(m, n)) = Value(e1, n)
    PROVE  /\ SimpleTerm(e2, Renamed(q, m)) = SimpleTerm(e1, q)
           /\ [i \in DOMAIN NewNames(m, q.ins) |-> Value(e2, NewNames(m, q.ins)[i])]
                = [i \in DOMAIN q.ins |-> Value(e1, q.ins[i])]
<1> DEFINE r == Renamed(q, m)
<1>1. r.op = q.op /\ r.value = q.value /\ r.ins = NewNames(m, q.ins)
  BY FlatRenamed
<1>2. DOMAIN NewNames(m, q.ins) = DOMAIN q.ins
      /\ \A i \in DOMAIN q.ins : NewNames(m, q.ins)[i] = NewName(m, q.ins[i]) /\ q.ins[i] \in Range(q.ins)
  BY DEF NewNames, Range
<1> HIDE DEF r
<1>3. \A i \in DOMAIN q.ins : Value(e2, NewNames(m, q.ins)[i]) = Value(e1, q.ins[i])
  BY <1>2
<1>4. [i \in DOMAIN NewNames(m, q.ins) |-> Value(e2, NewNames(m, q.ins)[i])]
        = [i \in DOMAIN q.ins |-> Value(e1, q.ins[i])]
  BY <1>2, <1>3
<1>5. CASE q.op = "Constant"
  BY <1>1, <1>4, <1>5 DEF SimpleTerm, r
<1>6. CASE q.op = "Identity"
  <2>1. 1 \in DOMAIN q.ins
    BY <1>6 DEF FlatNodeOK
  <2>2. Value(e2, r.ins[1]) = Value(e1, q.ins[1])
    BY <1>1, <1>3, <2>1
  <2>3. QED
    BY <1>1, <1>4, <1>6, <2>2 DEF SimpleTerm, r
<1>7. CASE q.op # "Constant" /\ q.op # "Identity"
  <2>1. SimpleTerm(e2, r) = <<r.op, [i \in DOMAIN r.ins |-> Value(e2, r.ins[i])]>>
    BY <1>1, <1>7 DEF SimpleTerm
  <2>2. SimpleTerm(e1, q) = <<q.op, [i \in DOMAIN q.ins |-> Value(e1, q.ins[i])]>>
    BY <1>7 DEF SimpleTerm
  <2>3. QED
    BY <1>1, <1>4, <2>1, <2>2 DEF r
<1>8. QED
  BY <1>5, <1>6, <1>7

\* A renamed node, where the new names have what the old names had, computes the same.
LEMMA RenamedTerm ==
    ASSUME NEW p, NEW m, NodeOK(p), NEW e1, NEW e2,
           \A n \in AllReads(p) : Value(e2, NewName(m, n)) = Value(e1, n),
           \A n \in InnerOuts(p) : n \notin DOMAIN m,
           \A n \in DOMAIN m : m[n] \notin InnerOuts(p)
    PROVE  NodeTerm(e2, RenameReads(p, m)) = NodeTerm(e1, p)
<1> DEFINE r == RenameReads(p, m)
           D == DOMAIN p.body.nodes
           A(s) == InnerAfter(e1, p.body.nodes)[s]
           B(s) == InnerAfter(e2, r.body.nodes)[s]
           Good(s) == \A n \in AllReads(p) : Value(B(s), NewName(m, n)) = Value(A(s), n)
           Bad == {s \in SUBSET D : ~ Good(s)}
<1>1. /\ r.op = p.op /\ r.value = p.value /\ r.ins = NewNames(m, p.ins)
      /\ r.body.nodes = [i \in DOMAIN p.body.nodes |-> Renamed(p.body.nodes[i], m)]
      /\ r.body.outs = NewNames(m, p.body.outs) /\ NodeOK(r)
  BY NodeRenamed
<1> HIDE DEF r
<1>2. Row(p.body.nodes) /\ Row(r.body.nodes) /\ IsFiniteSet(D) /\ D \subseteq Nat
      /\ DOMAIN r.body.nodes = D
  BY <1>1 DEF NodeOK, Row
<1>3. \A i \in D : Range(p.body.nodes[i].ins) \subseteq AllReads(p)
  BY DEF AllReads, NamesUsedInside, Range
<1>4. Range(p.ins) \subseteq AllReads(p) /\ Range(p.body.outs) \subseteq AllReads(p)
  BY DEF AllReads, NamesUsedInside
<1>5. \A s \in SUBSET D :
        /\ A(s) = IF s = {} THEN e1 ELSE EvalSimple(A(s \ {Max(s)}), p.body.nodes[Max(s)])
        /\ B(s) = IF s = {} THEN e2 ELSE EvalSimple(B(s \ {Max(s)}), r.body.nodes[Max(s)])
  <2>1. ASSUME NEW s \in SUBSET D
        PROVE  A(s) = IF s = {} THEN e1 ELSE EvalSimple(A(s \ {Max(s)}), p.body.nodes[Max(s)])
    <3> DEFINE nodes == p.body.nodes
    <3>1. s \in SUBSET DOMAIN nodes /\ Row(nodes)
      BY <1>2
    <3> HIDE DEF nodes
    <3>2. InnerAfter(e1, nodes)[s]
            = IF s = {} THEN e1 ELSE EvalSimple(InnerAfter(e1, nodes)[s \ {Max(s)}], nodes[Max(s)])
      BY <3>1, InnerAfterIs
    <3>3. QED
      BY <3>2 DEF nodes
  <2>2. ASSUME NEW s \in SUBSET D
        PROVE  B(s) = IF s = {} THEN e2 ELSE EvalSimple(B(s \ {Max(s)}), r.body.nodes[Max(s)])
    <3>1. s \in SUBSET DOMAIN r.body.nodes
      BY <1>2
    <3>2. QED
      BY <1>2, <3>1, InnerAfterIs
  <2> HIDE DEF A, B
  <2>3. QED
    BY <2>1, <2>2
<1>6. \A s \in SUBSET D : s # {} => Max(s) \in s
  BY <1>2, FS_Subset, MaxIs
<1>7. NodeTerm(e1, p) = IF p.op \in {"Constant", "Identity"} THEN SimpleTerm(e1, p)
        ELSE <<p.op, [i \in DOMAIN p.ins |-> Value(e1, p.ins[i])],
                     [i \in DOMAIN p.body.outs |-> Value(A(D), p.body.outs[i])]>>
  BY InnerUnfolds DEF NodeTerm
<1>8. NodeTerm(e2, r) = IF r.op \in {"Constant", "Identity"} THEN SimpleTerm(e2, r)
        ELSE <<r.op, [i \in DOMAIN r.ins |-> Value(e2, r.ins[i])],
                     [i \in DOMAIN r.body.outs |-> Value(B(D), r.body.outs[i])]>>
  <2>1. FoldLeft(EvalSimple, e2, r.body.nodes) = B(D)
    BY <1>2, InnerUnfolds
  <2>2. QED
    BY <2>1 DEF NodeTerm
<1> HIDE DEF A, B
<1>9. ASSUME NEW s \in SUBSET D, s # {}, Good(s \ {Max(s)}) PROVE Good(s)
  <2> DEFINE x == Max(s)
             q == p.body.nodes[x]
             t == s \ {x}
  <2>1. x \in s /\ x \in D
    BY <1>6, <1>9
  <2>2. r.body.nodes[x] = Renamed(q, m)
    BY <1>1, <2>1
  <2>3. FlatNodeOK(q) /\ q.out \in InnerOuts(p)
    BY <2>1 DEF NodeOK, InnerOuts, Range
  <2>4. SimpleTerm(B(t), Renamed(q, m)) = SimpleTerm(A(t), q)
    <3>1. \A n \in Range(q.ins) : Value(B(t), NewName(m, n)) = Value(A(t), n)
      BY <1>3, <1>9, <2>1
    <3> HIDE DEF q, t
    <3>2. QED
      BY <2>3, <3>1, SimpleTermIs
  <2>5. A(s) = Bind(A(t), q.out, SimpleTerm(A(t), q))
    BY <1>5, <1>9 DEF EvalSimple
  <2>6. B(s) = Bind(B(t), q.out, SimpleTerm(A(t), q))
    <3>1. B(s) = EvalSimple(B(t), Renamed(q, m))
      BY <1>5, <1>9, <2>2
    <3>2. Renamed(q, m).out = q.out
      BY <2>3, FlatRenamed
    <3>3. QED
      BY <2>4, <3>1, <3>2 DEF EvalSimple
  <2> HIDE DEF q, t
  <2>7. ASSUME NEW n \in AllReads(p)
        PROVE  Value(B(s), NewName(m, n)) = Value(A(s), n)
    <3>1. CASE n = q.out
      <4>1. NewName(m, n) = n
        BY <2>3, <3>1 DEF NewName
      <4>2. QED
        BY <2>5, <2>6, <3>1, <4>1 DEF Value, Bind
    <3>2. CASE n # q.out
      <4>1. NewName(m, n) # q.out
        BY <2>3, <3>2 DEF NewName
      <4>2. Value(B(s), NewName(m, n)) = Value(B(t), NewName(m, n))
        BY <2>6, <4>1 DEF Value, Bind
      <4>3. Value(A(s), n) = Value(A(t), n)
        BY <2>5, <3>2 DEF Value, Bind
      <4>4. QED
        BY <1>9, <4>2, <4>3 DEF t
    <3>3. QED
      BY <3>1, <3>2
  <2>8. QED
    BY <2>7
<1>10. Good({})
  BY <1>5
<1>11. Bad = {}
  <2> SUFFICES ASSUME Bad # {} PROVE FALSE
    OBVIOUS
  <2> HIDE DEF Good
  <2>1. PICK s \in Bad : \A x \in s : s \ {x} \notin Bad
    <3>1. Bad \in SUBSET (SUBSET D)
      OBVIOUS
    <3> HIDE DEF Bad
    <3>2. QED
      BY <1>2, <3>1, SmallestOf
  <2>2. s \in SUBSET D /\ s # {} /\ Good(s \ {Max(s)})
    BY <1>6, <1>10, <2>1
  <2>3. QED
    BY <1>9, <2>2
<1>12. Good(D)
  <2> HIDE DEF Good
  <2>1. QED
    BY <1>11
<1>13. /\ [i \in DOMAIN r.ins |-> Value(e2, r.ins[i])] = [i \in DOMAIN p.ins |-> Value(e1, p.ins[i])]
       /\ SimpleTerm(e2, Renamed(p, m)) = SimpleTerm(e1, p)
  <2>1. FlatNodeOK(p)
    BY DEF NodeOK
  <2>2. QED
    BY <1>1, <1>4, <2>1, SimpleTermIs
<1>14. p.op \in {"Constant", "Identity"} => SimpleTerm(e2, r) = SimpleTerm(e2, Renamed(p, m))
  <2>1. FlatNodeOK(p)
    BY DEF NodeOK
  <2>2. /\ Renamed(p, m).op = r.op /\ Renamed(p, m).value = r.value /\ Renamed(p, m).ins = r.ins
    BY <1>1, <2>1, FlatRenamed
  <2>3. QED
    BY <2>2 DEF SimpleTerm
<1>15. [i \in DOMAIN r.body.outs |-> Value(B(D), r.body.outs[i])]
         = [i \in DOMAIN p.body.outs |-> Value(A(D), p.body.outs[i])]
  <2>1. DOMAIN r.body.outs = DOMAIN p.body.outs
        /\ \A i \in DOMAIN p.body.outs : r.body.outs[i] = NewName(m, p.body.outs[i])
    BY <1>1 DEF NewNames
  <2>2. \A i \in DOMAIN p.body.outs : p.body.outs[i] \in AllReads(p)
    BY <1>4 DEF Range
  <2>3. \A i \in DOMAIN p.body.outs : Value(B(D), r.body.outs[i]) = Value(A(D), p.body.outs[i])
    BY <1>12, <2>1, <2>2
  <2>4. QED
    BY <2>1, <2>3
<1>16. QED
  BY <1>1, <1>7, <1>8, <1>13, <1>14, <1>15 DEF r

LEMMA TermDepends ==
    ASSUME NEW p, NodeOK(p), NEW e1, NEW e2, \A n \in AllReads(p) : Value(e2, n) = Value(e1, n)
    PROVE  NodeTerm(e2, p) = NodeTerm(e1, p)
<1> DEFINE m == << >>
<1>1. DOMAIN m = {}
  OBVIOUS
<1> HIDE DEF m
<1>2. \A n \in AllReads(p) : Value(e2, NewName(m, n)) = Value(e1, n)
  BY <1>1 DEF NewName
<1>3. NodeTerm(e2, RenameReads(p, m)) = NodeTerm(e1, p)
  BY <1>1, <1>2, RenamedTerm
<1>4. QED
  BY <1>1, <1>3, RenamedByNothing

-----------------------------------------------------------------------------
(* The environment of a graph is the only solution of its equations *)

Supplied(G) == G.inputs \cup DOMAIN G.inits
OutsOf(G, s) == {G.nodes[i].out : i \in s}
Solves(G, env) ==
    /\ env = [n \in Names(G) |-> env[n]]
    /\ \A n \in Supplied(G) : env[n] = Start(G)[n]
    /\ \A i \in DOMAIN G.nodes : env[G.nodes[i].out] = NodeTerm(env, G.nodes[i])

LEMMA NamesAre ==
    ASSUME NEW G
    PROVE  /\ Names(G) = Supplied(G) \cup OutsOf(G, DOMAIN G.nodes)
           /\ \A i : NamesBefore(G, i)
                       = Supplied(G) \cup OutsOf(G, {j \in DOMAIN G.nodes : j < i})
           /\ DOMAIN Start(G) = Supplied(G)
BY DEF Names, NamesBefore, Supplied, OutsOf, Range, Start

\* What a node reads is defined before it, or inside it and nowhere else.
LEMMA ReadsAreKnown ==
    ASSUME NEW G, WellFormed(G), NEW i \in DOMAIN G.nodes,
           NEW n \in AllReads(G.nodes[i])
    PROVE  n \in NamesBefore(G, i) \/ n \notin Names(G)
BY DEF WellFormed, AllReads, Reads

LEMMA EnvSolves ==
    ASSUME NEW G, WellFormed(G)
    PROVE  Solves(G, Env(G))
<1> DEFINE D == DOMAIN G.nodes
           E(s) == EnvAfter(G)[s]
           node(i) == G.nodes[i]
           Closed(s) == \A i \in s : \A j \in D : j < i => j \in s
           Good(s) == Closed(s) =>
             /\ E(s) = [n \in Supplied(G) \cup OutsOf(G, s) |-> E(s)[n]]
             /\ \A n \in Supplied(G) : E(s)[n] = Start(G)[n]
             /\ \A i \in s : E(s)[node(i).out] = NodeTerm(E(s), node(i))
           Bad == {s \in SUBSET D : ~ Good(s)}
<1>1. Row(G.nodes) /\ IsFiniteSet(D) /\ D \subseteq Nat
  BY DEF WellFormed, Row
<1>2. ASSUME NEW s \in SUBSET D
      PROVE  E(s) = IF s = {} THEN Start(G) ELSE EvalNode(E(s \ {Max(s)}), node(Max(s)))
  <2>1. s \in SUBSET DOMAIN G.nodes
    OBVIOUS
  <2>2. QED
    BY <1>1, <2>1, EnvAfterIs
<1>3. \A s \in SUBSET D : s # {} => Max(s) \in s /\ \A j \in s : j <= Max(s)
  BY <1>1, FS_Subset, MaxIs
<1>4. \A i \in D : node(i).out \notin Supplied(G)
  BY DEF WellFormed, Supplied
<1>5. \A i, j \in D : node(i).out = node(j).out => i = j
  BY DEF WellFormed
<1>6. \A i \in D : NodeOK(node(i))
  BY DEF WellFormed
<1>7. ASSUME NEW i \in D, NEW x \in D, ~ (x < i)
      PROVE  \A n \in AllReads(node(i)) : n # node(x).out
  <2>1. node(x).out \in Names(G)
    BY NamesAre DEF OutsOf
  <2>2. node(x).out \notin NamesBefore(G, i)
    BY <1>4, <1>5, <1>7, NamesAre DEF OutsOf
  <2>3. QED
    BY <2>1, <2>2, ReadsAreKnown
<1> HIDE DEF E, node
<1>8. ASSUME NEW s \in SUBSET D, s # {}, Good(s \ {Max(s)}) PROVE Good(s)
  <2> SUFFICES ASSUME Closed(s)
               PROVE  /\ E(s) = [n \in Supplied(G) \cup OutsOf(G, s) |-> E(s)[n]]
                      /\ \A n \in Supplied(G) : E(s)[n] = Start(G)[n]
                      /\ \A i \in s : E(s)[node(i).out] = NodeTerm(E(s), node(i))
    OBVIOUS
  <2> DEFINE x == Max(s)
             t == s \ {x}
             o == node(x).out
             T == NodeTerm(E(t), node(x))
  <2>1. x \in s /\ x \in D /\ \A j \in s : j <= x
    BY <1>3, <1>8
  <2>2. \A i \in s : i \in D /\ i \in Nat /\ x \in Nat
    BY <1>1, <2>1
  <2> HIDE DEF x
  <2>3. Closed(t)
    <3>1. ASSUME NEW i \in t, NEW j \in D, j < i PROVE j \in t
      <4>1. j \in s
        BY <3>1
      <4>2. i <= x /\ i # x
        BY <2>1
      <4>3. j # x
        BY <2>2, <3>1, <4>1, <4>2
      <4>4. QED
        BY <4>1, <4>3
    <3>2. QED
      BY <3>1
  <2> HIDE DEF t, Closed
  <2>4. /\ E(t) = [n \in Supplied(G) \cup OutsOf(G, t) |-> E(t)[n]]
        /\ \A n \in Supplied(G) : E(t)[n] = Start(G)[n]
        /\ \A i \in t : E(t)[node(i).out] = NodeTerm(E(t), node(i))
    BY <1>8, <2>3 DEF x, t
  <2>5. E(s) = [n \in DOMAIN E(t) \cup {o} |-> IF n = o THEN T ELSE E(t)[n]]
    <3>1. E(s) = EvalNode(E(t), node(x))
      BY <1>2, <1>8 DEF t, x
    <3>2. QED
      BY <3>1 DEF EvalNode, Bind
  <2> HIDE DEF o, T
  <2>6. DOMAIN E(t) = Supplied(G) \cup OutsOf(G, t)
    BY <2>4
  <2>7. OutsOf(G, s) = OutsOf(G, t) \cup {o}
    BY <2>1 DEF OutsOf, t, o, node
  <2>8. E(s) = [n \in Supplied(G) \cup OutsOf(G, s) |-> E(s)[n]]
    BY <2>5, <2>6, <2>7
  <2>9. o \notin Supplied(G)
    BY <1>4, <2>1 DEF o
  <2>10. \A n \in Supplied(G) : E(s)[n] = Start(G)[n]
    BY <2>4, <2>5, <2>6, <2>9
  <2>11. ASSUME NEW i \in s PROVE NodeTerm(E(s), node(i)) = NodeTerm(E(t), node(i))
    <3>1. i \in D /\ ~ (x < i)
      BY <2>1, <2>2
    <3>2. \A n \in AllReads(node(i)) : n # o
      BY <1>7, <2>1, <3>1 DEF o
    <3>3. \A n \in AllReads(node(i)) : Value(E(s), n) = Value(E(t), n)
      BY <2>5, <3>2 DEF Value
    <3>4. QED
      BY <1>6, <3>1, <3>3, TermDepends
  <2>12. ASSUME NEW i \in s PROVE E(s)[node(i).out] = NodeTerm(E(s), node(i))
    <3>1. CASE i = x
      BY <2>5, <2>11, <3>1 DEF o, T
    <3>2. CASE i # x
      <4>1. i \in t /\ node(i).out # o
        BY <1>5, <2>1, <2>2, <3>2 DEF t, o
      <4>2. node(i).out \in DOMAIN E(t)
        BY <2>6, <4>1 DEF OutsOf, node
      <4>3. E(s)[node(i).out] = E(t)[node(i).out]
        BY <2>5, <4>1, <4>2
      <4>4. QED
        BY <2>4, <2>11, <4>1, <4>3
    <3>3. QED
      BY <3>1, <3>2
  <2>13. QED
    BY <2>8, <2>10, <2>12
<1>9. Good({})
  <2>1. E({}) = Start(G)
    BY <1>2
  <2>2. OutsOf(G, {}) = {}
    BY DEF OutsOf
  <2>3. Start(G) = [n \in Supplied(G) |-> Start(G)[n]]
    BY DEF Start, Supplied
  <2> HIDE DEF Closed
  <2>4. QED
    BY <2>1, <2>2, <2>3
<1>10. Bad = {}
  <2> SUFFICES ASSUME Bad # {} PROVE FALSE
    OBVIOUS
  <2> HIDE DEF Good
  <2>1. PICK s \in Bad : \A x \in s : s \ {x} \notin Bad
    <3>1. Bad \in SUBSET (SUBSET D)
      OBVIOUS
    <3> HIDE DEF Bad
    <3>2. QED
      BY <1>1, <3>1, SmallestOf
  <2>2. s \in SUBSET D /\ s # {} /\ Good(s \ {Max(s)})
    BY <1>3, <1>9, <2>1
  <2>3. QED
    BY <1>8, <2>2
<1>11. Good(D)
  <2> HIDE DEF Good
  <2>1. QED
    BY <1>10
<1>12. Closed(D) /\ Env(G) = E(D)
  BY EnvUnfolds DEF E
<1>13. QED
  <2> HIDE DEF Closed, D
  <2>1. QED
    BY <1>11, <1>12, NamesAre DEF Solves, D, node

LEMMA SolutionIsEnv ==
    ASSUME NEW G, WellFormed(G), NEW env, Solves(G, env)
    PROVE  env = Env(G)
<1> DEFINE D == DOMAIN G.nodes
           E == Env(G)
           Differ == {i \in D : env[G.nodes[i].out] # E[G.nodes[i].out]}
<1>1. Solves(G, E)
  BY EnvSolves
<1>2. D \subseteq Nat /\ \A i \in D : NodeOK(G.nodes[i])
  BY DEF WellFormed, Row
<1> HIDE DEF E
<1>3. Differ = {}
  <2> SUFFICES ASSUME Differ # {} PROVE FALSE
    OBVIOUS
  <2>1. PICK i \in Differ : \A j \in Differ : i <= j
    <3>1. Differ \in SUBSET Nat
      BY <1>2
    <3> HIDE DEF Differ
    <3>2. QED
      BY <3>1, LeastExists
  <2>2. \A j \in D : j < i => env[G.nodes[j].out] = E[G.nodes[j].out]
    <3>1. ASSUME NEW j \in D, j < i PROVE ~ (i <= j)
      BY <1>2, <3>1
    <3>2. QED
      BY <2>1, <3>1
  <2>3. \A n \in NamesBefore(G, i) : env[n] = E[n] /\ n \in Names(G)
    <3>1. \A n \in Supplied(G) : env[n] = E[n]
      BY <1>1 DEF Solves
    <3>2. QED
      BY <2>2, <3>1, NamesAre DEF OutsOf
  <2>4. DOMAIN env = Names(G) /\ DOMAIN E = Names(G)
    BY <1>1 DEF Solves
  <2>5. \A n \in AllReads(G.nodes[i]) : Value(env, n) = Value(E, n)
    BY <2>3, <2>4, ReadsAreKnown DEF Value
  <2>6. NodeTerm(env, G.nodes[i]) = NodeTerm(E, G.nodes[i])
    BY <1>2, <2>5, TermDepends
  <2>7. QED
    BY <1>1, <2>6 DEF Solves
<1>4. \A n \in Names(G) : env[n] = E[n]
  <2>1. ASSUME NEW n \in Supplied(G) PROVE env[n] = E[n]
    BY <1>1 DEF Solves
  <2>2. ASSUME NEW n \in OutsOf(G, D) PROVE env[n] = E[n]
    <3>1. PICK i \in D : n = G.nodes[i].out
      BY DEF OutsOf
    <3>2. QED
      BY <1>3, <3>1
  <2>3. QED
    BY <2>1, <2>2, NamesAre
<1>5. QED
  BY <1>1, <1>4 DEF Solves, E

-----------------------------------------------------------------------------
(* Rewriting a graph *)

\* Some of the nodes are left, reading other names, and the initializers are others.
Rewritten(G, places, m, inits) ==
    [inputs |-> G.inputs, inits |-> inits,
     nodes |-> [i \in places |-> RenameReads(G.nodes[i], m)], outputs |-> G.outputs]

\* A rewriting in which whatever is read is defined before and has what was read before.
Sound(G, places, m, inits) ==
    LET h == Rewritten(G, places, m, inits) IN
    /\ places \subseteq DOMAIN G.nodes
    /\ inits = [n \in DOMAIN inits |-> inits[n]]
    /\ DOMAIN inits \subseteq Names(G)
    /\ \A n \in DOMAIN inits \ G.inputs : Env(G)[n] = <<"value", inits[n]>>
    /\ \A n \in DOMAIN m : /\ n \in Names(G) /\ m[n] \in Names(G)
                           /\ Env(G)[m[n]] = Env(G)[n]
    /\ \A i \in places : /\ G.nodes[i].out \notin DOMAIN inits
                         /\ \A n \in Reads(G.nodes[i]) : NewName(m, n) \in NamesBefore(h, i)
    /\ G.outputs \subseteq Names(h)

LEMMA SoundRewriting ==
    ASSUME NEW G, WellFormed(G), NEW places, NEW m, NEW inits,
           Sound(G, places, m, inits)
    PROVE  LET h == Rewritten(G, places, m, inits) IN
           WellFormed(h) /\ Meaning(h) = Meaning(G)
<1> DEFINE h == Rewritten(G, places, m, inits)
           E == Env(G)
           node(i) == G.nodes[i]
           F == [n \in Names(h) |-> E[n]]
<1>1. /\ h.inputs = G.inputs /\ h.inits = inits /\ h.outputs = G.outputs
      /\ DOMAIN h.nodes = places
      /\ \A i \in places : h.nodes[i] = RenameReads(node(i), m)
      /\ h = [inputs |-> h.inputs, inits |-> h.inits, nodes |-> h.nodes, outputs |-> h.outputs]
      /\ h.nodes = [i \in DOMAIN h.nodes |-> h.nodes[i]]
  BY DEF Rewritten
<1>2. /\ places \subseteq DOMAIN G.nodes
      /\ inits = [n \in DOMAIN inits |-> inits[n]]
      /\ DOMAIN inits \subseteq Names(G)
      /\ \A n \in DOMAIN inits \ G.inputs : E[n] = <<"value", inits[n]>>
      /\ \A n \in DOMAIN m : n \in Names(G) /\ m[n] \in Names(G) /\ E[m[n]] = E[n]
      /\ \A i \in places : /\ node(i).out \notin DOMAIN inits
                           /\ \A n \in Reads(node(i)) : NewName(m, n) \in NamesBefore(h, i)
      /\ G.outputs \subseteq Names(h)
  BY DEF Sound
<1>3. Solves(G, E)
  BY EnvSolves
<1> HIDE DEF h, E
<1>4. \A i \in DOMAIN G.nodes :
        /\ NodeOK(node(i)) /\ node(i).out \notin Supplied(G)
        /\ InnerOuts(node(i)) \cap Names(G) = {}
        /\ \A j \in DOMAIN G.nodes : node(i).out = node(j).out => i = j
  BY DEF WellFormed, Supplied
<1>5. \A i \in places :
        /\ h.nodes[i].out = node(i).out /\ NodeOK(h.nodes[i])
        /\ InnerOuts(h.nodes[i]) = InnerOuts(node(i))
  <2> HIDE DEF node
  <2>1. ASSUME NEW i \in places
        PROVE  /\ h.nodes[i].out = node(i).out /\ NodeOK(h.nodes[i])
               /\ InnerOuts(h.nodes[i]) = InnerOuts(node(i))
    <3>1. NodeOK(node(i))
      BY <1>2, <1>4
    <3>2. h.nodes[i] = RenameReads(node(i), m)
      BY <1>1
    <3>3. ASSUME NEW p, NodeOK(p)
          PROVE  LET r == RenameReads(p, m) IN
                 r.out = p.out /\ NodeOK(r) /\ InnerOuts(r) = InnerOuts(p)
      BY <3>3, NodeRenamed
    <3>4. QED
      BY <3>1, <3>2, <3>3
  <2>2. QED
    BY <2>1
<1>6. Supplied(h) = G.inputs \cup DOMAIN inits
  BY <1>1 DEF Supplied
<1> HIDE DEF node
<1>7. OutsOf(h, places) = OutsOf(G, places)
  BY <1>5 DEF OutsOf, node
<1>8. Names(h) = Supplied(h) \cup OutsOf(h, places)
  BY <1>1, NamesAre
<1>9. Names(h) \subseteq Names(G)
  <2>1. Names(G) = Supplied(G) \cup OutsOf(G, DOMAIN G.nodes)
    BY NamesAre
  <2>2. OutsOf(G, places) \subseteq OutsOf(G, DOMAIN G.nodes)
    BY <1>2 DEF OutsOf
  <2>3. QED
    BY <1>2, <1>6, <1>7, <1>8, <2>1, <2>2 DEF Supplied
<1>10. ASSUME NEW i \in places PROVE NamesBefore(h, i) \subseteq Names(h)
  BY <1>1, <1>8, NamesAre DEF OutsOf
\* Whatever a renamed node reads of the graph was read before under its old name.
<1>11. ASSUME NEW i \in places
       PROVE  Reads(h.nodes[i]) \subseteq {NewName(m, n) : n \in Reads(node(i))}
  <2> DEFINE p == node(i)
             r == h.nodes[i]
  <2>1. NodeOK(p) /\ InnerOuts(p) \cap Names(G) = {}
    BY <1>2, <1>4
  <2>2. r = RenameReads(p, m) /\ InnerOuts(r) = InnerOuts(p) /\ NodeOK(r)
    BY <1>1, <1>5
  <2>3. \A n \in InnerOuts(p) : NewName(m, n) = n
    BY <1>2, <2>1 DEF NewName
  <2> HIDE DEF p, r
  <2>4. AllReads(r) = {NewName(m, n) : n \in AllReads(p)}
    BY <2>1, <2>2, RenamedReadsAre
  <2>5. r.ins = NewNames(m, p.ins)
    BY <2>1, <2>2, NodeRenamed
  <2>6. Range(r.ins) \subseteq {NewName(m, n) : n \in Range(p.ins)}
    BY <2>5 DEF Range, NewNames
  <2>7. ASSUME NEW x \in NamesUsedInside(r) \ InnerOuts(r)
        PROVE  x \in {NewName(m, n) : n \in Reads(p)}
    <3>1. PICK n \in AllReads(p) : x = NewName(m, n)
      BY <2>4 DEF AllReads
    <3>2. CASE n \in Range(p.ins)
      BY <3>1, <3>2 DEF Reads
    <3>3. CASE n \in NamesUsedInside(p)
      <4>1. n \notin InnerOuts(p)
        BY <2>2, <2>3, <2>7, <3>1
      <4>2. QED
        BY <3>1, <3>3, <4>1 DEF Reads
    <3>4. QED
      BY <3>1, <3>2, <3>3 DEF AllReads
  <2>8. \A x \in Range(p.ins) : x \in Reads(p)
    BY DEF Reads
  <2>9. QED
    BY <2>6, <2>7, <2>8 DEF Reads, p, r
<1>12. WellFormed(h)
  <2>1. Row(h.nodes)
    <3>1. IsFiniteSet(DOMAIN G.nodes) /\ DOMAIN G.nodes \subseteq Nat
      BY DEF WellFormed, Row
    <3>2. IsFiniteSet(places) /\ places \subseteq Nat
      BY <1>2, <3>1, FS_Subset
    <3>3. QED
      BY <1>1, <3>2 DEF Row
  <2>2. ASSUME NEW i \in DOMAIN h.nodes
        PROVE  /\ NodeOK(h.nodes[i])
               /\ h.nodes[i].out \notin h.inputs \cup DOMAIN h.inits
               /\ InnerOuts(h.nodes[i]) \cap Names(h) = {}
               /\ Reads(h.nodes[i]) \subseteq NamesBefore(h, i)
    <3>1. i \in places /\ i \in DOMAIN G.nodes
      BY <1>1, <1>2
    <3>2. NodeOK(h.nodes[i])
      BY <1>5, <3>1
    <3>3. h.nodes[i].out \notin h.inputs \cup DOMAIN h.inits
      BY <1>1, <1>2, <1>4, <1>5, <3>1 DEF Supplied
    <3>4. InnerOuts(h.nodes[i]) \cap Names(h) = {}
      BY <1>4, <1>5, <1>9, <3>1
    <3>5. Reads(h.nodes[i]) \subseteq NamesBefore(h, i)
      BY <1>2, <1>11, <3>1
    <3>6. QED
      BY <3>2, <3>3, <3>4, <3>5
  <2>3. \A i, j \in DOMAIN h.nodes : h.nodes[i].out = h.nodes[j].out => i = j
    BY <1>1, <1>2, <1>4, <1>5
  <2>4. h.inits = [n \in DOMAIN h.inits |-> h.inits[n]] /\ h.outputs \subseteq Names(h)
    BY <1>1, <1>2
  <2>5. QED
    BY <1>1, <2>1, <2>2, <2>3, <2>4 DEF WellFormed
<1>13. Solves(h, F)
  <2>1. \A n \in Supplied(h) : F[n] = Start(h)[n]
    <3>1. ASSUME NEW n \in Supplied(h) PROVE E[n] = Start(h)[n]
      <4>1. Start(h)[n] = IF n \in G.inputs THEN <<"input", n>> ELSE <<"value", inits[n]>>
        BY <1>1, <1>6, <3>1 DEF Start
      <4>2. CASE n \in G.inputs
        <5>1. Start(G)[n] = <<"input", n>>
          BY <4>2 DEF Start
        <5>2. E[n] = Start(G)[n]
          BY <1>3, <4>2 DEF Solves, Supplied
        <5>3. QED
          BY <4>1, <4>2, <5>1, <5>2
      <4>3. CASE n \notin G.inputs
        BY <1>2, <1>6, <3>1, <4>1, <4>3
      <4>4. QED
        BY <4>2, <4>3
    <3>2. QED
      BY <1>8, <3>1
  <2>2. ASSUME NEW i \in DOMAIN h.nodes
        PROVE  F[h.nodes[i].out] = NodeTerm(F, h.nodes[i])
    <3> DEFINE p == node(i)
    <3>1. i \in places /\ i \in DOMAIN G.nodes
      BY <1>1, <1>2
    <3>2. h.nodes[i] = RenameReads(p, m) /\ h.nodes[i].out = p.out
      BY <1>1, <1>5, <3>1
    <3>3. p.out \in Names(h)
      BY <1>7, <1>8, <3>1 DEF OutsOf, node
    <3>4. E[p.out] = NodeTerm(E, p)
      BY <1>3, <3>1 DEF Solves, node
    <3>5. NodeOK(p) /\ InnerOuts(p) \cap Names(G) = {}
      BY <1>4, <3>1
    <3>6. ASSUME NEW n \in AllReads(p) PROVE Value(F, NewName(m, n)) = Value(E, n)
      <4>1. DOMAIN E = Names(G)
        BY <1>3 DEF Solves
      <4>2. n \in Reads(p) \/ n \in InnerOuts(p)
        BY <3>6 DEF AllReads, Reads
      <4>3. CASE n \in Reads(p)
        <5>1. NewName(m, n) \in Names(h)
          BY <1>2, <1>10, <3>1, <4>3
        <5>2. n \in Names(G)
          <6>1. n \in NamesBefore(G, i)
            BY <3>1, <4>3 DEF WellFormed, node
          <6>2. QED
            BY <6>1, NamesAre DEF OutsOf
        <5>3. E[NewName(m, n)] = E[n]
          BY <1>2 DEF NewName
        <5>4. QED
          BY <4>1, <5>1, <5>2, <5>3 DEF Value
      <4>4. CASE n \in InnerOuts(p)
        <5>1. n \notin Names(G) /\ n \notin Names(h)
          BY <1>9, <3>5, <4>4
        <5>2. NewName(m, n) = n
          BY <1>2, <5>1 DEF NewName
        <5>3. QED
          BY <4>1, <5>1, <5>2 DEF Value
      <4>5. QED
        BY <4>2, <4>3, <4>4
    <3> HIDE DEF p, F
    <3>7. \A n \in InnerOuts(p) : n \notin DOMAIN m
      BY <1>2, <3>5
    <3>8. \A n \in DOMAIN m : m[n] \notin InnerOuts(p)
      BY <1>2, <3>5
    <3>9. NodeTerm(F, RenameReads(p, m)) = NodeTerm(E, p)
      BY <3>5, <3>6, <3>7, <3>8, RenamedTerm
    <3>10. F[p.out] = E[p.out]
      BY <3>3 DEF F
    <3>11. QED
      BY <3>2, <3>4, <3>9, <3>10
  <2>3. QED
    BY <2>1, <2>2 DEF Solves
<1>14. F = Env(h)
  BY <1>12, <1>13, SolutionIsEnv
<1>15. Meaning(h) = Meaning(G)
  <2>1. \A n \in G.outputs : n \in Names(h) /\ n \in Names(G)
    BY <1>2, <1>9
  <2>2. DOMAIN E = Names(G)
    BY <1>3 DEF Solves
  <2>3. \A n \in G.outputs : Value(F, n) = Value(E, n)
    BY <2>1, <2>2 DEF Value
  <2> HIDE DEF F
  <2>4. QED
    BY <1>1, <1>14, <2>3 DEF Meaning, E
<1>16. QED
  BY <1>12, <1>15 DEF h

LEMMA RewrittenOuts ==
    ASSUME NEW G, WellFormed(G), NEW places \in SUBSET DOMAIN G.nodes, NEW m, NEW inits,
           NEW s \in SUBSET places
    PROVE  OutsOf(Rewritten(G, places, m, inits), s) = OutsOf(G, s)
<1> DEFINE h == Rewritten(G, places, m, inits)
<1>1. \A i \in places : h.nodes[i] = RenameReads(G.nodes[i], m)
  BY DEF Rewritten
<1>2. \A i \in places : NodeOK(G.nodes[i])
  BY DEF WellFormed
<1>3. ASSUME NEW p, NodeOK(p) PROVE RenameReads(p, m).out = p.out
  BY <1>3, NodeRenamed
<1>4. \A i \in s : h.nodes[i].out = G.nodes[i].out
  BY <1>1, <1>2, <1>3
<1> HIDE DEF h
<1>5. OutsOf(h, s) = OutsOf(G, s)
  BY <1>4 DEF OutsOf
<1>6. QED
  BY <1>5 DEF h

LEMMA RewrittenGiven ==
    ASSUME NEW G, NEW places, NEW m, NEW inits
    PROVE  /\ DOMAIN Rewritten(G, places, m, inits).nodes = places
           /\ Supplied(Rewritten(G, places, m, inits)) = G.inputs \cup DOMAIN inits
BY DEF Rewritten, Supplied

LEMMA RewrittenNames ==
    ASSUME NEW G, WellFormed(G), NEW places \in SUBSET DOMAIN G.nodes, NEW m, NEW inits
    PROVE  Names(Rewritten(G, places, m, inits))
             = G.inputs \cup DOMAIN inits \cup OutsOf(G, places)
<1> DEFINE h == Rewritten(G, places, m, inits)
<1>1. DOMAIN h.nodes = places /\ Supplied(h) = G.inputs \cup DOMAIN inits
  BY RewrittenGiven
<1>2. OutsOf(h, places) = OutsOf(G, places)
  BY RewrittenOuts
<1> HIDE DEF h
<1>3. Names(h) = Supplied(h) \cup OutsOf(h, DOMAIN h.nodes)
  BY NamesAre
<1>4. QED
  BY <1>1, <1>2, <1>3 DEF h

LEMMA RewrittenBefore ==
    ASSUME NEW G, WellFormed(G), NEW places \in SUBSET DOMAIN G.nodes, NEW m, NEW inits,
           NEW i
    PROVE  \A n : n \in NamesBefore(Rewritten(G, places, m, inits), i)
                    <=> \/ n \in G.inputs \cup DOMAIN inits
                        \/ \E j \in places : j < i /\ n = G.nodes[j].out
<1> DEFINE h == Rewritten(G, places, m, inits)
           s == {j \in places : j < i}
<1>1. DOMAIN h.nodes = places /\ Supplied(h) = G.inputs \cup DOMAIN inits
  BY RewrittenGiven
<1>2. OutsOf(h, s) = OutsOf(G, s)
  <2>1. s \in SUBSET places
    OBVIOUS
  <2> HIDE DEF s
  <2>2. QED
    BY <2>1, RewrittenOuts
<1> HIDE DEF h
<1>3. NamesBefore(h, i) = Supplied(h) \cup OutsOf(h, s)
  BY <1>1, NamesAre
<1>4. \A n : n \in OutsOf(G, s) <=> \E j \in places : j < i /\ n = G.nodes[j].out
  BY DEF OutsOf
<1>5. QED
  BY <1>1, <1>2, <1>3, <1>4 DEF h

LEMMA RewrittenByNothing ==
    ASSUME NEW G, WellFormed(G), NEW places \in SUBSET DOMAIN G.nodes, NEW m, NEW inits,
           DOMAIN m = {}
    PROVE  Rewritten(G, places, m, inits)
             = [inputs |-> G.inputs, inits |-> inits,
                nodes |-> [i \in places |-> G.nodes[i]], outputs |-> G.outputs]
<1>1. ASSUME NEW p, NodeOK(p) PROVE RenameReads(p, m) = p
  BY <1>1, RenamedByNothing
<1>2. \A i \in places : RenameReads(G.nodes[i], m) = G.nodes[i]
  BY <1>1 DEF WellFormed
<1>3. [i \in places |-> RenameReads(G.nodes[i], m)] = [i \in places |-> G.nodes[i]]
  BY <1>2
<1>4. QED
  BY <1>3 DEF Rewritten

\* What the environment has for an initializer and for the output of a node.
LEMMA InitIs ==
    ASSUME NEW G, WellFormed(G), NEW n \in DOMAIN G.inits \ G.inputs
    PROVE  Env(G)[n] = <<"value", G.inits[n]>>
<1>1. Env(G)[n] = Start(G)[n]
  BY EnvSolves DEF Solves, Supplied
<1>2. QED
  BY <1>1 DEF Start

LEMMA GraphIs ==
    ASSUME NEW G, WellFormed(G)
    PROVE  /\ G = [inputs |-> G.inputs, inits |-> G.inits, nodes |-> G.nodes,
                       outputs |-> G.outputs]
           /\ G.inits = [n \in DOMAIN G.inits |-> G.inits[n]]
           /\ G.nodes = [i \in DOMAIN G.nodes |-> G.nodes[i]]
           /\ G.outputs \subseteq Names(G)
           /\ Names(G) = G.inputs \cup DOMAIN G.inits \cup OutsOf(G, DOMAIN G.nodes)
           /\ \A i, j \in DOMAIN G.nodes : G.nodes[i].out = G.nodes[j].out => i = j
<1>1. Names(G) = G.inputs \cup DOMAIN G.inits \cup OutsOf(G, DOMAIN G.nodes)
  BY NamesAre DEF Supplied
<1>2. QED
  BY <1>1 DEF WellFormed, Row

LEMMA NodeIs ==
    ASSUME NEW G, WellFormed(G), NEW i \in DOMAIN G.nodes
    PROVE  /\ NodeOK(G.nodes[i])
           /\ G.nodes[i].out \notin G.inputs \cup DOMAIN G.inits
           /\ \A n \in Reads(G.nodes[i]) :
                \/ n \in G.inputs \cup DOMAIN G.inits
                \/ \E j \in DOMAIN G.nodes : j < i /\ n = G.nodes[j].out
<1>1. NamesBefore(G, i) = G.inputs \cup DOMAIN G.inits
                                \cup OutsOf(G, {j \in DOMAIN G.nodes : j < i})
  BY NamesAre DEF Supplied
<1>2. QED
  BY <1>1 DEF WellFormed, OutsOf

LEMMA ConstantsExtracted ==
    ASSUME NEW G, WellFormed(G)
    PROVE  WellFormed(ExtractConstants(G)) /\ Meaning(ExtractConstants(G)) = Meaning(G)
<1> DEFINE D == DOMAIN G.nodes
           E == Env(G)
           taken == Constants(G)
           values == [n \in {G.nodes[i].out : i \in taken} |->
                        (CHOOSE c \in {G.nodes[i] : i \in taken} : c.out = n).value]
           inits == [n \in DOMAIN G.inits \cup DOMAIN values |->
                       IF n \in DOMAIN values THEN values[n] ELSE G.inits[n]]
           m == << >>
           kept == D \ taken
           h == Rewritten(G, kept, m, inits)
<1>0. /\ G.outputs \subseteq Names(G)
      /\ Names(G) = G.inputs \cup DOMAIN G.inits \cup OutsOf(G, D)
      /\ \A i, j \in D : G.nodes[i].out = G.nodes[j].out => i = j
      /\ \A i \in D : G.nodes[i].out \notin G.inputs \cup DOMAIN G.inits
  BY GraphIs, NodeIs
<1>1. taken \subseteq D /\ kept \in SUBSET D /\ DOMAIN m = {}
  BY DEF Constants
<1>2. DOMAIN values = OutsOf(G, taken) /\ DOMAIN inits = DOMAIN G.inits \cup OutsOf(G, taken)
  BY DEF OutsOf
<1>3. ExtractConstants(G) = [G EXCEPT !.inits = inits, !.nodes = Drop(@, taken)]
  BY DEF ExtractConstants
<1>4. ASSUME NEW i \in taken PROVE values[G.nodes[i].out] = G.nodes[i].value
  <2>1. \A c \in {G.nodes[j] : j \in taken} : c.out = G.nodes[i].out => c = G.nodes[i]
    BY <1>0, <1>1
  <2>2. (CHOOSE c \in {G.nodes[j] : j \in taken} : c.out = G.nodes[i].out) = G.nodes[i]
    BY <2>1
  <2>3. QED
    BY <2>2
<1> HIDE DEF values, taken, m
<1>5. h = [inputs |-> G.inputs, inits |-> inits, nodes |-> [i \in kept |-> G.nodes[i]],
           outputs |-> G.outputs]
  <2> HIDE DEF kept, inits
  <2>1. QED
    BY <1>1, RewrittenByNothing
<1>6. ExtractConstants(G) = h
  <2> HIDE DEF inits, h
  <2>1. G = [inputs |-> G.inputs, inits |-> G.inits, nodes |-> G.nodes,
                 outputs |-> G.outputs]
    BY GraphIs
  <2>2. QED
    BY <1>3, <1>5, <2>1 DEF Drop
<1> HIDE DEF inits, E
<1>7. \A n \in DOMAIN inits \ G.inputs : E[n] = <<"value", inits[n]>>
  <2>1. ASSUME NEW i \in taken
        PROVE  E[G.nodes[i].out] = <<"value", inits[G.nodes[i].out]>>
    <3>1. i \in D /\ G.nodes[i].op = "Constant"
      BY DEF taken, Constants
    <3>2. E[G.nodes[i].out] = NodeTerm(E, G.nodes[i])
      BY <3>1, EnvSolves DEF Solves, E
    <3>3. NodeTerm(E, G.nodes[i]) = <<"value", G.nodes[i].value>>
      BY <3>1 DEF NodeTerm, SimpleTerm
    <3>4. G.nodes[i].out \in DOMAIN values
      BY <1>2 DEF OutsOf
    <3>5. inits[G.nodes[i].out] = G.nodes[i].value
      BY <1>4, <3>4 DEF inits
    <3>6. QED
      BY <3>2, <3>3, <3>5
  <2>2. ASSUME NEW n \in DOMAIN G.inits \ G.inputs, n \notin DOMAIN values
        PROVE  E[n] = <<"value", inits[n]>>
    BY <2>2, InitIs DEF inits, E
  <2>3. \A n \in DOMAIN values : \E i \in taken : n = G.nodes[i].out
    BY <1>2 DEF OutsOf
  <2>4. QED
    BY <1>2, <2>1, <2>2, <2>3
<1>8. Names(h) = Names(G)
  <2> HIDE DEF kept
  <2>1. Names(h) = G.inputs \cup DOMAIN inits \cup OutsOf(G, kept)
    BY <1>1, RewrittenNames
  <2>2. OutsOf(G, D) = OutsOf(G, taken) \cup OutsOf(G, kept)
    BY <1>1 DEF OutsOf, kept
  <2>3. QED
    BY <1>0, <1>2, <2>1, <2>2
<1>9. ASSUME NEW i \in kept
      PROVE  /\ G.nodes[i].out \notin DOMAIN inits
             /\ \A n \in Reads(G.nodes[i]) : NewName(m, n) \in NamesBefore(h, i)
  <2>1. i \in D /\ i \notin taken
    OBVIOUS
  <2>2. G.nodes[i].out \notin DOMAIN inits
    <3>1. \A j \in taken : G.nodes[j].out # G.nodes[i].out
      BY <1>0, <1>1, <2>1
    <3>2. G.nodes[i].out \notin OutsOf(G, taken)
      BY <3>1 DEF OutsOf
    <3>3. QED
      BY <1>0, <1>2, <2>1, <3>2
  <2>3. ASSUME NEW n \in Reads(G.nodes[i])
        PROVE  \/ n \in G.inputs \cup DOMAIN inits
               \/ \E j \in kept : j < i /\ n = G.nodes[j].out
    <3>1. \/ n \in G.inputs \cup DOMAIN G.inits
          \/ \E j \in D : j < i /\ n = G.nodes[j].out
      BY <2>1, NodeIs
    <3>2. \A j \in taken : G.nodes[j].out \in DOMAIN inits
      BY <1>2 DEF OutsOf
    <3>3. QED
      BY <1>2, <3>1, <3>2
  <2>4. \A n : n \in NamesBefore(h, i) <=> \/ n \in G.inputs \cup DOMAIN inits
                                           \/ \E j \in kept : j < i /\ n = G.nodes[j].out
    <3> HIDE DEF kept, inits
    <3>1. QED
      BY <1>1, RewrittenBefore
  <2>5. \A n : NewName(m, n) = n
    BY <1>1 DEF NewName
  <2>6. QED
    BY <2>2, <2>3, <2>4, <2>5
<1>10. Sound(G, kept, m, inits)
  <2>1. inits = [n \in DOMAIN inits |-> inits[n]]
    BY DEF inits
  <2>2. DOMAIN inits \subseteq Names(G) /\ G.outputs \subseteq Names(h)
    <3>1. OutsOf(G, taken) \subseteq OutsOf(G, D)
      BY <1>1 DEF OutsOf
    <3>2. QED
      BY <1>0, <1>2, <1>8, <3>1
  <2> HIDE DEF kept
  <2>3. QED
    BY <1>1, <1>7, <1>9, <2>1, <2>2 DEF Sound, E
<1>11. QED
  <2> HIDE DEF kept
  <2>1. QED
    BY <1>6, <1>10, SoundRewriting

LEMMA IdentityEliminated ==
    ASSUME NEW G, WellFormed(G), NEW i
    PROVE  /\ WellFormed(EliminateAt(G, i))
           /\ Meaning(EliminateAt(G, i)) = Meaning(G)
<1> DEFINE D == DOMAIN G.nodes
           E == Env(G)
           node == G.nodes[i]
           o == node.out
           x == node.ins[1]
           m == [n \in {o} |-> x]
           kept == D \ {i}
           h == Rewritten(G, kept, m, G.inits)
<1> SUFFICES ASSUME i \in Identities(G)
             PROVE  /\ WellFormed(EliminateAt(G, i))
                    /\ Meaning(EliminateAt(G, i)) = Meaning(G)
  BY DEF EliminateAt
<1>0. /\ G.outputs \subseteq Names(G)
      /\ Names(G) = G.inputs \cup DOMAIN G.inits \cup OutsOf(G, D)
      /\ \A j, l \in D : G.nodes[j].out = G.nodes[l].out => j = l
      /\ \A j \in D : G.nodes[j].out \notin G.inputs \cup DOMAIN G.inits
      /\ G.inits = [n \in DOMAIN G.inits |-> G.inits[n]]
  BY GraphIs, NodeIs
<1>1. i \in D /\ node.op = "Identity" /\ o \notin G.outputs /\ kept \in SUBSET D
  BY DEF Identities
<1>2. D \subseteq Nat
  BY DEF WellFormed, Row
<1>3. DOMAIN m = {o} /\ m[o] = x
  OBVIOUS
<1>4. EliminateAt(G, i) = h
  <2>1. G = [inputs |-> G.inputs, inits |-> G.inits, nodes |-> G.nodes,
                 outputs |-> G.outputs]
    BY GraphIs
  <2>2. EliminateAt(G, i) = [RenameUses(G, m) EXCEPT !.nodes = Drop(@, {i})]
    BY DEF EliminateAt
  <2> HIDE DEF m
  <2>3. RenameUses(G, m) = [G EXCEPT !.nodes = [j \in D |-> RenameReads(G.nodes[j], m)]]
    BY DEF RenameUses
  <2>4. Drop([j \in D |-> RenameReads(G.nodes[j], m)], {i})
          = [j \in kept |-> RenameReads(G.nodes[j], m)]
    BY DEF Drop
  <2>5. RenameUses(G, m) = [inputs |-> G.inputs, inits |-> G.inits,
                                nodes |-> [j \in D |-> RenameReads(G.nodes[j], m)],
                                outputs |-> G.outputs]
    BY <2>1, <2>3
  <2>6. QED
    BY <2>2, <2>4, <2>5 DEF Rewritten
<1>5. \/ x \in G.inputs \cup DOMAIN G.inits
      \/ \E j \in D : j < i /\ x = G.nodes[j].out
  <2>1. 1 \in DOMAIN node.ins
    BY <1>1, NodeIs DEF NodeOK, FlatNodeOK
  <2>2. x \in Reads(node)
    BY <2>1 DEF Reads, Range
  <2>3. QED
    BY <1>1, <2>2, NodeIs
<1>6. o \in Names(G) /\ x \in Names(G)
  BY <1>0, <1>1, <1>5 DEF OutsOf
<1>7. E[x] = E[o]
  <2>1. E[o] = NodeTerm(E, node) /\ DOMAIN E = Names(G)
    BY <1>1, EnvSolves DEF Solves
  <2>2. NodeTerm(E, node) = Value(E, x)
    BY <1>1 DEF NodeTerm, SimpleTerm
  <2>3. QED
    BY <1>6, <2>1, <2>2 DEF Value
<1> HIDE DEF E, m, o, x
<1>8. ASSUME NEW l \in kept
      PROVE  /\ G.nodes[l].out \notin DOMAIN G.inits
             /\ \A n \in Reads(G.nodes[l]) : NewName(m, n) \in NamesBefore(h, l)
  <2>1. l \in D /\ l # i /\ l \in Nat /\ i \in Nat
    BY <1>1, <1>2
  <2>2. ASSUME NEW n \in Reads(G.nodes[l])
        PROVE  \/ NewName(m, n) \in G.inputs \cup DOMAIN G.inits
               \/ \E j \in kept : j < l /\ NewName(m, n) = G.nodes[j].out
    <3>1. \/ n \in G.inputs \cup DOMAIN G.inits
          \/ \E j \in D : j < l /\ n = G.nodes[j].out
      BY <2>1, NodeIs
    <3>2. CASE n # o
      <4>1. NewName(m, n) = n
        BY <1>3, <3>2 DEF NewName
      <4>2. QED
        BY <3>1, <3>2, <4>1 DEF o
    <3>3. CASE n = o
      <4>1. NewName(m, n) = x
        BY <1>3, <3>3 DEF NewName
      <4>2. i < l
        BY <1>0, <1>1, <3>1, <3>3 DEF o
      <4>3. CASE x \in G.inputs \cup DOMAIN G.inits
        BY <4>1, <4>3
      <4>4. CASE \E j \in D : j < i /\ x = G.nodes[j].out
        <5>1. PICK j \in D : j < i /\ x = G.nodes[j].out
          BY <4>4
        <5>2. j \in Nat /\ j < l /\ j # i
          BY <1>2, <2>1, <4>2, <5>1
        <5>3. QED
          BY <4>1, <5>1, <5>2
      <4>5. QED
        BY <1>5, <4>3, <4>4
    <3>4. QED
      BY <3>2, <3>3
  <2>3. \A n : n \in NamesBefore(h, l) <=> \/ n \in G.inputs \cup DOMAIN G.inits
                                           \/ \E j \in kept : j < l /\ n = G.nodes[j].out
    <3> HIDE DEF kept
    <3>1. QED
      BY <1>1, RewrittenBefore
  <2>4. QED
    BY <1>0, <2>1, <2>2, <2>3
<1>9. G.outputs \subseteq Names(h)
  <2> HIDE DEF kept
  <2>1. Names(h) = G.inputs \cup DOMAIN G.inits \cup OutsOf(G, kept)
    BY <1>1, RewrittenNames
  <2>2. ASSUME NEW n \in OutsOf(G, D), n # o PROVE n \in OutsOf(G, kept)
    BY <2>2 DEF OutsOf, kept, o
  <2>3. QED
    BY <1>0, <1>1, <2>1, <2>2
<1>10. Sound(G, kept, m, G.inits)
  <2>1. \A n \in DOMAIN G.inits \ G.inputs : E[n] = <<"value", G.inits[n]>>
    BY InitIs DEF E
  <2>2. \A n \in DOMAIN m : n \in Names(G) /\ m[n] \in Names(G) /\ E[m[n]] = E[n]
    BY <1>3, <1>6, <1>7
  <2>3. DOMAIN G.inits \subseteq Names(G)
    BY <1>0
  <2> HIDE DEF kept
  <2>4. QED
    BY <1>0, <1>1, <1>8, <1>9, <2>1, <2>2, <2>3 DEF Sound, E
<1>11. QED
  <2> HIDE DEF kept
  <2>1. QED
    BY <1>4, <1>10, SoundRewriting

\* Initializers that are merged have one value.
Mergeable(G) == DOMAIN G.inits \ Fixed(G)
Same(G, n) == {l \in Mergeable(G) : G.inits[l] = G.inits[n]}
Firsts(G) == {CHOOSE l \in Same(G, n) : TRUE : n \in Mergeable(G)}
Merging(G) ==
    [n \in Mergeable(G) \ Firsts(G) |-> CHOOSE l \in Firsts(G) : l \in Same(G, n)]

LEMMA MergingIs ==
    ASSUME NEW G
    PROVE  /\ DeduplicateInitializers(G)
                = [RenameUses(G, Merging(G)) EXCEPT !.inits = Drop(@, DOMAIN Merging(G))]
           /\ Firsts(G) \subseteq Mergeable(G)
           /\ DOMAIN Merging(G) = Mergeable(G) \ Firsts(G)
           /\ \A n \in DOMAIN Merging(G) :
                Merging(G)[n] \in Firsts(G) /\ G.inits[Merging(G)[n]] = G.inits[n]
<1>1. DeduplicateInitializers(G)
        = [RenameUses(G, Merging(G)) EXCEPT !.inits = Drop(@, DOMAIN Merging(G))]
  BY DEF DeduplicateInitializers, Merging, Firsts, Same, Mergeable
<1>2. ASSUME NEW n \in Mergeable(G)
      PROVE  (CHOOSE l \in Same(G, n) : TRUE) \in Same(G, n)
  <2>1. n \in Same(G, n)
    BY DEF Same
  <2>2. QED
    BY <2>1
<1>3. Firsts(G) \subseteq Mergeable(G)
  BY <1>2 DEF Firsts, Same
<1>4. DOMAIN Merging(G) = Mergeable(G) \ Firsts(G)
  BY DEF Merging
<1>5. ASSUME NEW n \in DOMAIN Merging(G)
      PROVE  Merging(G)[n] \in Firsts(G) /\ G.inits[Merging(G)[n]] = G.inits[n]
  <2>1. n \in Mergeable(G)
    BY <1>4
  <2>2. \E l \in Firsts(G) : l \in Same(G, n)
    BY <1>2, <2>1 DEF Firsts
  <2>3. Merging(G)[n] = CHOOSE l \in Firsts(G) : l \in Same(G, n)
    BY <1>4 DEF Merging
  <2>4. Merging(G)[n] \in Firsts(G) /\ Merging(G)[n] \in Same(G, n)
    BY <2>2, <2>3
  <2>5. QED
    BY <2>4 DEF Same
<1>6. QED
  BY <1>1, <1>3, <1>4, <1>5

LEMMA InitializersDeduplicated ==
    ASSUME NEW G, WellFormed(G)
    PROVE  /\ WellFormed(DeduplicateInitializers(G))
           /\ Meaning(DeduplicateInitializers(G)) = Meaning(G)
<1> DEFINE D == DOMAIN G.nodes
           E == Env(G)
           m == Merging(G)
           inits == Drop(G.inits, DOMAIN m)
           h == Rewritten(G, D, m, inits)
<1>0. /\ G.outputs \subseteq Names(G)
      /\ Names(G) = G.inputs \cup DOMAIN G.inits \cup OutsOf(G, D)
      /\ \A j \in D : G.nodes[j].out \notin G.inputs \cup DOMAIN G.inits
  BY GraphIs, NodeIs
<1>1. D \in SUBSET D
  OBVIOUS
<1>2. /\ DOMAIN inits = DOMAIN G.inits \ DOMAIN m
      /\ \A n \in DOMAIN inits : inits[n] = G.inits[n]
      /\ inits = [n \in DOMAIN inits |-> inits[n]]
  BY DEF Drop
<1>3. DOMAIN m \subseteq Mergeable(G)
      /\ \A n \in DOMAIN m : /\ m[n] \in Mergeable(G) /\ m[n] \notin DOMAIN m
                             /\ G.inits[m[n]] = G.inits[n]
  BY MergingIs
<1>4. DeduplicateInitializers(G) = h
  <2>1. G = [inputs |-> G.inputs, inits |-> G.inits, nodes |-> G.nodes,
                 outputs |-> G.outputs]
    BY GraphIs
  <2>2. DeduplicateInitializers(G) = [RenameUses(G, m) EXCEPT !.inits = Drop(@, DOMAIN m)]
    BY MergingIs
  <2> HIDE DEF m
  <2>3. RenameUses(G, m) = [G EXCEPT !.nodes = [j \in D |-> RenameReads(G.nodes[j], m)]]
    BY DEF RenameUses
  <2>4. RenameUses(G, m) = [inputs |-> G.inputs, inits |-> G.inits,
                                nodes |-> [j \in D |-> RenameReads(G.nodes[j], m)],
                                outputs |-> G.outputs]
    BY <2>1, <2>3
  <2>5. QED
    BY <2>2, <2>4 DEF Rewritten
<1> HIDE DEF m, inits, E
<1>5. \A n \in Mergeable(G) : /\ n \in DOMAIN G.inits /\ n \notin G.inputs
                                  /\ n \notin G.outputs /\ E[n] = <<"value", G.inits[n]>>
  <2>1. \A n \in Mergeable(G) : n \in DOMAIN G.inits \ G.inputs /\ n \notin G.outputs
    BY DEF Mergeable, Fixed
  <2>2. QED
    BY <2>1, InitIs DEF E
<1>6. \A n \in DOMAIN inits \ G.inputs : E[n] = <<"value", inits[n]>>
  BY <1>2, InitIs DEF E
<1>7. \A n \in DOMAIN m : n \in Names(G) /\ m[n] \in Names(G) /\ E[m[n]] = E[n]
  BY <1>0, <1>3, <1>5
<1>8. ASSUME NEW l \in D
      PROVE  /\ G.nodes[l].out \notin DOMAIN inits
             /\ \A n \in Reads(G.nodes[l]) : NewName(m, n) \in NamesBefore(h, l)
  <2>1. ASSUME NEW n \in Reads(G.nodes[l])
        PROVE  \/ NewName(m, n) \in G.inputs \cup DOMAIN inits
               \/ \E j \in D : j < l /\ NewName(m, n) = G.nodes[j].out
    <3>1. \/ n \in G.inputs \cup DOMAIN G.inits
          \/ \E j \in D : j < l /\ n = G.nodes[j].out
      BY NodeIs
    <3>2. CASE n \in DOMAIN m
      BY <1>2, <1>3, <1>5, <3>2 DEF NewName
    <3>3. CASE n \notin DOMAIN m
      BY <1>2, <3>1, <3>3 DEF NewName
    <3>4. QED
      BY <3>2, <3>3
  <2>2. \A n : n \in NamesBefore(h, l) <=> \/ n \in G.inputs \cup DOMAIN inits
                                           \/ \E j \in D : j < l /\ n = G.nodes[j].out
    <3>1. \A places \in SUBSET D : \A n :
            n \in NamesBefore(Rewritten(G, places, m, inits), l)
              <=> \/ n \in G.inputs \cup DOMAIN inits
                  \/ \E j \in places : j < l /\ n = G.nodes[j].out
      BY RewrittenBefore
    <3> HIDE DEF D
    <3>2. QED
      BY <1>1, <3>1
  <2>3. QED
    BY <1>0, <1>2, <2>1, <2>2
<1>9. G.outputs \subseteq Names(h)
  <2>1. Names(h) = G.inputs \cup DOMAIN inits \cup OutsOf(G, D)
    BY RewrittenNames
  <2>2. QED
    BY <1>0, <1>2, <1>3, <1>5, <2>1
<1>10. Sound(G, D, m, inits)
  <2>1. DOMAIN inits \subseteq Names(G)
    BY <1>0, <1>2
  <2>2. QED
    BY <1>2, <1>6, <1>7, <1>8, <1>9, <2>1 DEF Sound, E
<1>11. QED
  BY <1>4, <1>10, SoundRewriting

\* What is needed and alive after some of the nodes were visited.
NodePlaces(G) == [i \in DOMAIN G.nodes |-> i]
AliveAfter(G) ==
    CHOOSE e : e = [s \in SUBSET DOMAIN NodePlaces(G) |->
                      IF s = {} THEN [needed |-> G.outputs, alive |-> {}]
                      ELSE Visit(G.nodes, NodePlaces(G)[Min(s)], e[s \ {Min(s)}])]

LEMMA AliveUnfolds ==
    ASSUME NEW G
    PROVE  Alive(G) = AliveAfter(G)[DOMAIN NodePlaces(G)].alive
BY DEF Alive, AliveAfter, FoldRight, MapThenFoldSet, NodePlaces

LEMMA AliveAfterIs ==
    ASSUME NEW G, Row(G.nodes), NEW s \in SUBSET DOMAIN G.nodes
    PROVE  AliveAfter(G)[s]
             = IF s = {} THEN [needed |-> G.outputs, alive |-> {}]
               ELSE Visit(G.nodes, Min(s), AliveAfter(G)[s \ {Min(s)}])
<1> DEFINE D == DOMAIN G.nodes
           E == AliveAfter(G)
           base == [needed |-> G.outputs, alive |-> {}]
<1>0. IsFiniteSet(D) /\ D \subseteq Nat
  BY DEF Row
<1> HIDE DEF base
<1>1. PICK f : f = Folded("visit", G.nodes, base, f, SUBSET D)
  <2> HIDE DEF D
  <2>1. QED
    BY <1>0, FoldExists
<1>2. ASSUME NEW t \in SUBSET D, t # {}
      PROVE  Combined("visit", G.nodes, Chosen("visit", t), f[Rest("visit", t)])
               = Visit(G.nodes, NodePlaces(G)[Min(t)], f[t \ {Min(t)}])
  <2>1. Min(t) \in D
    BY <1>0, <1>2, MinIs
  <2>2. NodePlaces(G)[Min(t)] = Min(t)
    BY <2>1 DEF NodePlaces
  <2>3. Chosen("visit", t) = Min(t) /\ Rest("visit", t) = t \ {Min(t)}
    BY DEF Chosen, Rest
  <2>4. QED
    BY <2>2, <2>3 DEF Combined
<1>3. DOMAIN NodePlaces(G) = D
  BY DEF NodePlaces
<1>4. f = [t \in SUBSET DOMAIN NodePlaces(G) |->
             IF t = {} THEN base ELSE Visit(G.nodes, NodePlaces(G)[Min(t)], f[t \ {Min(t)}])]
  <2>1. f = [t \in SUBSET D |-> IF t = {} THEN base
                ELSE Combined("visit", G.nodes, Chosen("visit", t), f[Rest("visit", t)])]
    BY <1>1 DEF Folded
  <2>2. QED
    BY <1>2, <1>3, <2>1
<1>5. E = [t \in SUBSET DOMAIN NodePlaces(G) |->
             IF t = {} THEN base ELSE Visit(G.nodes, NodePlaces(G)[Min(t)], E[t \ {Min(t)}])]
  BY <1>4 DEF AliveAfter, base
<1> HIDE DEF E
<1>6. E[s] = IF s = {} THEN base ELSE Visit(G.nodes, NodePlaces(G)[Min(s)], E[s \ {Min(s)}])
  BY <1>3, <1>5
<1>7. s # {} => NodePlaces(G)[Min(s)] = Min(s)
  <2>1. s # {} => Min(s) \in D
    BY <1>0, MinIs
  <2>2. QED
    BY <2>1 DEF NodePlaces
<1>8. QED
  BY <1>6, <1>7 DEF E, base

\* The nodes that are left define whatever they and the outputs read, and each is read by
\* a later one or is an output.
LEMMA AliveIs ==
    ASSUME NEW G, WellFormed(G)
    PROVE  /\ Alive(G) \subseteq DOMAIN G.nodes
           /\ \A i \in DOMAIN G.nodes :
                (\/ G.nodes[i].out \in G.outputs
                 \/ \E j \in Alive(G) : G.nodes[i].out \in AllReads(G.nodes[j]))
                  => i \in Alive(G)
           /\ \A i \in Alive(G) :
                \/ G.nodes[i].out \in G.outputs
                \/ \E j \in Alive(G) : i < j /\ G.nodes[i].out \in AllReads(G.nodes[j])
<1> DEFINE D == DOMAIN G.nodes
           A(s) == AliveAfter(G)[s]
           node(i) == G.nodes[i]
           Closed(s) == \A i \in s : \A j \in D : i < j => j \in s
           Good(s) == Closed(s) =>
             /\ A(s).alive \subseteq s
             /\ G.outputs \subseteq A(s).needed
             /\ \A i \in A(s).alive : AllReads(node(i)) \subseteq A(s).needed
             /\ \A n \in A(s).needed : n \in G.outputs \/ \E j \in A(s).alive : n \in AllReads(node(j))
             /\ \A i \in s : node(i).out \in A(s).needed => i \in A(s).alive
             /\ \A i \in A(s).alive : \/ node(i).out \in G.outputs
                                      \/ \E j \in A(s).alive : i < j /\ node(i).out \in AllReads(node(j))
           Bad == {s \in SUBSET D : ~ Good(s)}
<1>1. Row(G.nodes) /\ IsFiniteSet(D) /\ D \subseteq Nat
  BY DEF WellFormed, Row
<1>2. ASSUME NEW s \in SUBSET D
      PROVE  A(s) = IF s = {} THEN [needed |-> G.outputs, alive |-> {}]
                    ELSE Visit(G.nodes, Min(s), A(s \ {Min(s)}))
  <2>1. s \in SUBSET DOMAIN G.nodes
    OBVIOUS
  <2>2. QED
    BY <1>1, <2>1, AliveAfterIs
<1>3. \A s \in SUBSET D : s # {} => Min(s) \in s /\ \A j \in s : Min(s) <= j
  BY <1>1, MinIs
\* A node reads nothing that it or a later one defines.
<1>4. ASSUME NEW i \in D, NEW x \in D, x <= i
      PROVE  node(i).out \notin AllReads(node(x))
  <2>1. \A j \in D : node(i).out = node(j).out => i = j
    BY GraphIs
  <2>2. node(i).out \notin G.inputs \cup DOMAIN G.inits
    BY NodeIs
  <2>3. node(i).out \in Names(G)
    BY NamesAre DEF OutsOf
  <2>4. i \in Nat /\ x \in Nat
    BY <1>1
  <2>5. node(i).out \notin NamesBefore(G, x)
    <3>1. NamesBefore(G, x) = Supplied(G) \cup OutsOf(G, {j \in D : j < x})
      BY NamesAre
    <3>2. ASSUME node(i).out \in OutsOf(G, {j \in D : j < x}) PROVE FALSE
      <4>1. PICK j \in D : j < x /\ node(i).out = node(j).out
        BY <3>2 DEF OutsOf
      <4>2. i < x
        BY <2>1, <4>1
      <4>3. QED
        BY <1>4, <2>4, <4>2
    <3>3. QED
      BY <2>2, <3>1, <3>2 DEF Supplied
  <2>6. QED
    BY <2>3, <2>5, ReadsAreKnown
<1> HIDE DEF A
<1>5. ASSUME NEW s \in SUBSET D, s # {}, Good(s \ {Min(s)}) PROVE Good(s)
  <2> SUFFICES ASSUME Closed(s)
               PROVE  /\ A(s).alive \subseteq s
                      /\ G.outputs \subseteq A(s).needed
                      /\ \A i \in A(s).alive : AllReads(node(i)) \subseteq A(s).needed
                      /\ \A n \in A(s).needed :
                           n \in G.outputs \/ \E j \in A(s).alive : n \in AllReads(node(j))
                      /\ \A i \in s : node(i).out \in A(s).needed => i \in A(s).alive
                      /\ \A i \in A(s).alive :
                           \/ node(i).out \in G.outputs
                           \/ \E j \in A(s).alive : i < j /\ node(i).out \in AllReads(node(j))
    OBVIOUS
  <2> DEFINE x == Min(s)
             t == s \ {x}
  <2>1. x \in s /\ x \in D /\ \A j \in s : x <= j
    BY <1>3, <1>5
  <2>2. \A i \in s : i \in D /\ i \in Nat
    BY <1>1
  <2>3. A(s) = Visit(G.nodes, x, A(t))
    BY <1>2, <1>5
  <2> HIDE DEF x
  <2>4. Closed(t)
    <3>1. ASSUME NEW i \in t, NEW j \in D, i < j PROVE j \in t
      <4>1. j \in s /\ x <= i /\ i \in Nat /\ x \in Nat /\ j \in Nat
        BY <2>1, <2>2, <3>1
      <4>2. j # x
        BY <3>1, <4>1
      <4>3. QED
        BY <4>1, <4>2
    <3>2. QED
      BY <3>1
  <2> HIDE DEF t
  <2>5. /\ A(t).alive \subseteq t
        /\ G.outputs \subseteq A(t).needed
        /\ \A i \in A(t).alive : AllReads(node(i)) \subseteq A(t).needed
        /\ \A n \in A(t).needed : n \in G.outputs \/ \E j \in A(t).alive : n \in AllReads(node(j))
        /\ \A i \in t : node(i).out \in A(t).needed => i \in A(t).alive
        /\ \A i \in A(t).alive : \/ node(i).out \in G.outputs
                                 \/ \E j \in A(t).alive : i < j /\ node(i).out \in AllReads(node(j))
    BY <1>5, <2>4 DEF x, t
  <2> HIDE DEF Closed, node
  <2>6. \A i \in t : i \in s /\ i # x /\ i \in D /\ i \in Nat /\ x \in Nat /\ x < i
    <3>1. \A i \in t : i \in s /\ i # x /\ i \in D /\ i \in Nat /\ x \in Nat /\ x <= i
      BY <2>1, <2>2 DEF t
    <3>2. QED
      BY <3>1
  <2>7. CASE node(x).out \notin A(t).needed
    <3>1. A(s) = A(t)
      BY <2>3, <2>7 DEF Visit, node
    <3>2. \A i \in s : i = x \/ i \in t
      BY DEF t
    <3>3. QED
      BY <2>5, <2>6, <2>7, <3>1, <3>2
  <2>8. CASE node(x).out \in A(t).needed
    <3>1. A(s).needed = A(t).needed \cup AllReads(node(x)) /\ A(s).alive = A(t).alive \cup {x}
      BY <2>3, <2>8 DEF Visit, node, AllReads
    <3>2. A(s).alive \subseteq s /\ G.outputs \subseteq A(s).needed
      BY <2>1, <2>5, <2>6, <3>1
    <3>3. \A i \in A(s).alive : AllReads(node(i)) \subseteq A(s).needed
      BY <2>5, <3>1
    <3>4. \A n \in A(s).needed : n \in G.outputs \/ \E j \in A(s).alive : n \in AllReads(node(j))
      BY <2>5, <3>1
    <3>5. ASSUME NEW i \in s, node(i).out \in A(s).needed PROVE i \in A(s).alive
      <4>1. node(i).out \notin AllReads(node(x))
        BY <1>4, <2>1, <2>2
      <4>2. QED
        BY <2>5, <3>1, <3>5, <4>1 DEF t
    <3>6. ASSUME NEW i \in A(s).alive
          PROVE  \/ node(i).out \in G.outputs
                 \/ \E j \in A(s).alive : i < j /\ node(i).out \in AllReads(node(j))
      <4>1. CASE i \in A(t).alive
        BY <2>5, <3>1, <4>1
      <4>2. CASE i = x
        <5>1. node(x).out \in G.outputs \/ \E j \in A(t).alive : node(x).out \in AllReads(node(j))
          BY <2>5, <2>8
        <5>2. \A j \in A(t).alive : x < j
          BY <2>5, <2>6
        <5>3. QED
          BY <3>1, <4>2, <5>1, <5>2
      <4>3. QED
        BY <3>1, <4>1, <4>2
    <3>7. QED
      BY <3>2, <3>3, <3>4, <3>5, <3>6
  <2>9. QED
    BY <2>7, <2>8
<1>6. Good({})
  <2>1. A({}) = [needed |-> G.outputs, alive |-> {}]
    BY <1>2
  <2> HIDE DEF Closed
  <2>2. QED
    BY <2>1
<1>7. Bad = {}
  <2> SUFFICES ASSUME Bad # {} PROVE FALSE
    OBVIOUS
  <2> HIDE DEF Good
  <2>1. PICK s \in Bad : \A x \in s : s \ {x} \notin Bad
    <3>1. Bad \in SUBSET (SUBSET D)
      OBVIOUS
    <3> HIDE DEF Bad
    <3>2. QED
      BY <1>1, <3>1, SmallestOf
  <2>2. s \in SUBSET D /\ s # {} /\ Good(s \ {Min(s)})
    BY <1>3, <1>6, <2>1
  <2>3. QED
    BY <1>5, <2>2
<1>8. Good(D)
  <2> HIDE DEF Good
  <2>1. QED
    BY <1>7
<1>9. Closed(D) /\ Alive(G) = A(D).alive
  <2>1. DOMAIN NodePlaces(G) = D
    BY DEF NodePlaces
  <2>2. QED
    BY <2>1, AliveUnfolds DEF A
<1>10. QED
  <2> HIDE DEF Closed
  <2>1. QED
    BY <1>8, <1>9

LEMMA DeadNodesEliminated ==
    ASSUME NEW G, WellFormed(G)
    PROVE  /\ WellFormed(EliminateDeadNodes(G))
           /\ Meaning(EliminateDeadNodes(G)) = Meaning(G)
<1> DEFINE D == DOMAIN G.nodes
           E == Env(G)
           m == << >>
           kept == Alive(G)
           h == Rewritten(G, kept, m, G.inits)
<1>0. /\ G.outputs \subseteq Names(G)
      /\ Names(G) = G.inputs \cup DOMAIN G.inits \cup OutsOf(G, D)
      /\ \A j \in D : G.nodes[j].out \notin G.inputs \cup DOMAIN G.inits
      /\ G.inits = [n \in DOMAIN G.inits |-> G.inits[n]]
  BY GraphIs, NodeIs
<1>1. /\ kept \in SUBSET D
      /\ \A i \in D : G.nodes[i].out \in G.outputs => i \in kept
      /\ \A i \in D : \A j \in kept : G.nodes[i].out \in AllReads(G.nodes[j]) => i \in kept
  BY AliveIs
<1>2. DOMAIN m = {}
  OBVIOUS
<1> HIDE DEF kept, m, E
<1>3. EliminateDeadNodes(G) = h
  <2>1. G = [inputs |-> G.inputs, inits |-> G.inits, nodes |-> G.nodes,
                 outputs |-> G.outputs]
    BY GraphIs
  <2>2. h = [inputs |-> G.inputs, inits |-> G.inits,
             nodes |-> [i \in kept |-> G.nodes[i]], outputs |-> G.outputs]
    BY <1>1, <1>2, RewrittenByNothing
  <2>3. Drop(G.nodes, D \ kept) = [i \in kept |-> G.nodes[i]]
    BY <1>1 DEF Drop
  <2>4. EliminateDeadNodes(G) = [G EXCEPT !.nodes = Drop(G.nodes, D \ kept)]
    BY DEF EliminateDeadNodes, kept
  <2> HIDE DEF h
  <2>5. QED
    BY <2>1, <2>2, <2>3, <2>4
<1>4. ASSUME NEW l \in kept
      PROVE  /\ G.nodes[l].out \notin DOMAIN G.inits
             /\ \A n \in Reads(G.nodes[l]) : NewName(m, n) \in NamesBefore(h, l)
  <2>1. ASSUME NEW n \in Reads(G.nodes[l])
        PROVE  \/ n \in G.inputs \cup DOMAIN G.inits
               \/ \E j \in kept : j < l /\ n = G.nodes[j].out
    <3>1. \/ n \in G.inputs \cup DOMAIN G.inits
          \/ \E j \in D : j < l /\ n = G.nodes[j].out
      BY <1>1, NodeIs
    <3>2. n \in AllReads(G.nodes[l])
      BY DEF Reads, AllReads
    <3>3. QED
      BY <1>1, <3>1, <3>2
  <2>2. \A n : n \in NamesBefore(h, l) <=> \/ n \in G.inputs \cup DOMAIN G.inits
                                           \/ \E j \in kept : j < l /\ n = G.nodes[j].out
    BY <1>1, RewrittenBefore
  <2>3. \A n : NewName(m, n) = n
    BY <1>2 DEF NewName
  <2>4. QED
    BY <1>0, <1>1, <2>1, <2>2, <2>3
<1>5. G.outputs \subseteq Names(h)
  <2>1. Names(h) = G.inputs \cup DOMAIN G.inits \cup OutsOf(G, kept)
    BY <1>1, RewrittenNames
  <2>2. ASSUME NEW n \in OutsOf(G, D), n \in G.outputs PROVE n \in OutsOf(G, kept)
    BY <1>1, <2>2 DEF OutsOf
  <2>3. QED
    BY <1>0, <2>1, <2>2
<1>6. Sound(G, kept, m, G.inits)
  <2>1. \A n \in DOMAIN G.inits \ G.inputs : E[n] = <<"value", G.inits[n]>>
    BY InitIs DEF E
  <2>2. DOMAIN G.inits \subseteq Names(G)
    BY <1>0
  <2>3. QED
    BY <1>0, <1>1, <1>2, <1>4, <1>5, <2>1, <2>2 DEF Sound, E
<1>7. QED
  BY <1>3, <1>6, SoundRewriting

LEMMA UsedAre ==
    ASSUME NEW G
    PROVE  UsedNames(G) = G.outputs
                                \cup UNION {AllReads(G.nodes[i]) : i \in DOMAIN G.nodes}
BY DEF UsedNames, AllReads, Range

LEMMA UnusedInitializersEliminated ==
    ASSUME NEW G, WellFormed(G)
    PROVE  /\ WellFormed(EliminateUnusedInitializers(G))
           /\ Meaning(EliminateUnusedInitializers(G)) = Meaning(G)
<1> DEFINE D == DOMAIN G.nodes
           E == Env(G)
           m == << >>
           used == UsedNames(G) \cup G.inputs
           inits == Drop(G.inits, DOMAIN G.inits \ used)
           h == Rewritten(G, D, m, inits)
<1>0. /\ G.outputs \subseteq Names(G)
      /\ Names(G) = G.inputs \cup DOMAIN G.inits \cup OutsOf(G, D)
      /\ \A j \in D : G.nodes[j].out \notin G.inputs \cup DOMAIN G.inits
  BY GraphIs, NodeIs
<1>1. DOMAIN m = {}
  OBVIOUS
<1>2. /\ DOMAIN inits = DOMAIN G.inits \cap used
      /\ \A n \in DOMAIN inits : inits[n] = G.inits[n]
      /\ inits = [n \in DOMAIN inits |-> inits[n]]
  BY DEF Drop
<1>3. G.outputs \subseteq used /\ \A i \in D : AllReads(G.nodes[i]) \subseteq used
  BY UsedAre
<1>4. EliminateUnusedInitializers(G) = [G EXCEPT !.inits = inits]
  BY DEF EliminateUnusedInitializers
<1> HIDE DEF m, E, used, inits
<1>5. EliminateUnusedInitializers(G) = h
  <2>1. /\ G = [inputs |-> G.inputs, inits |-> G.inits, nodes |-> G.nodes,
                    outputs |-> G.outputs]
        /\ G.nodes = [i \in D |-> G.nodes[i]]
    BY GraphIs
  <2>2. h = [inputs |-> G.inputs, inits |-> inits,
             nodes |-> [i \in D |-> G.nodes[i]], outputs |-> G.outputs]
    BY <1>1, RewrittenByNothing
  <2> HIDE DEF h
  <2>3. QED
    BY <1>4, <2>1, <2>2
<1>6. ASSUME NEW l \in D
      PROVE  /\ G.nodes[l].out \notin DOMAIN inits
             /\ \A n \in Reads(G.nodes[l]) : NewName(m, n) \in NamesBefore(h, l)
  <2>1. ASSUME NEW n \in Reads(G.nodes[l])
        PROVE  \/ n \in G.inputs \cup DOMAIN inits
               \/ \E j \in D : j < l /\ n = G.nodes[j].out
    <3>1. \/ n \in G.inputs \cup DOMAIN G.inits
          \/ \E j \in D : j < l /\ n = G.nodes[j].out
      BY NodeIs
    <3>2. n \in AllReads(G.nodes[l])
      BY DEF Reads, AllReads
    <3>3. QED
      BY <1>2, <1>3, <3>1, <3>2
  <2>2. \A n : n \in NamesBefore(h, l) <=> \/ n \in G.inputs \cup DOMAIN inits
                                           \/ \E j \in D : j < l /\ n = G.nodes[j].out
    <3>1. \A places \in SUBSET D : \A n :
            n \in NamesBefore(Rewritten(G, places, m, inits), l)
              <=> \/ n \in G.inputs \cup DOMAIN inits
                  \/ \E j \in places : j < l /\ n = G.nodes[j].out
      BY RewrittenBefore
    <3>2. D \in SUBSET D
      OBVIOUS
    <3> HIDE DEF D
    <3>3. QED
      BY <3>1, <3>2
  <2>3. \A n : NewName(m, n) = n
    BY <1>1 DEF NewName
  <2>4. QED
    BY <1>0, <1>2, <2>1, <2>2, <2>3
<1>7. G.outputs \subseteq Names(h)
  <2>1. Names(h) = G.inputs \cup DOMAIN inits \cup OutsOf(G, D)
    BY RewrittenNames
  <2>2. QED
    BY <1>0, <1>2, <1>3, <2>1
<1>8. Sound(G, D, m, inits)
  <2>1. \A n \in DOMAIN inits \ G.inputs : E[n] = <<"value", inits[n]>>
    BY <1>2, InitIs DEF E
  <2>2. DOMAIN inits \subseteq Names(G)
    BY <1>0, <1>2
  <2>3. QED
    BY <1>1, <1>2, <1>6, <1>7, <2>1, <2>2 DEF Sound, E
<1>9. QED
  BY <1>5, <1>8, SoundRewriting

-----------------------------------------------------------------------------
(* What a pass leaves *)

\* No pass adds a node or changes what one is and defines.
Reduced(h, G) ==
    /\ h.outputs = G.outputs
    /\ DOMAIN h.nodes \subseteq DOMAIN G.nodes
    /\ \A i \in DOMAIN h.nodes : h.nodes[i].op = G.nodes[i].op /\ h.nodes[i].out = G.nodes[i].out

LEMMA ReducedHas ==
    ASSUME NEW G, NEW h, Reduced(h, G)
    PROVE  Constants(h) \subseteq Constants(G) /\ Identities(h) \subseteq Identities(G)
BY DEF Reduced, Constants, Identities

\* Reads are renamed and some nodes are left out.
LEMMA RenamedReduced ==
    ASSUME NEW G, WellFormed(G), NEW m, NEW h, NEW places \in SUBSET DOMAIN G.nodes,
           h.outputs = G.outputs, DOMAIN h.nodes = places,
           \A i \in places : h.nodes[i] = RenameReads(G.nodes[i], m)
    PROVE  Reduced(h, G)
<1>1. \A i \in places : NodeOK(G.nodes[i])
  BY DEF WellFormed
<1>2. ASSUME NEW p, NodeOK(p) PROVE RenameReads(p, m).op = p.op /\ RenameReads(p, m).out = p.out
  BY <1>2, NodeRenamed
<1>3. QED
  BY <1>1, <1>2 DEF Reduced

LEMMA IdentityRemoved ==
    ASSUME NEW G, WellFormed(G), NEW i
    PROVE  /\ Reduced(EliminateAt(G, i), G)
           /\ i \notin Identities(EliminateAt(G, i))
           /\ EliminateAt(G, i).inputs = G.inputs
<1> DEFINE D == DOMAIN G.nodes
           m == [n \in {G.nodes[i].out} |-> G.nodes[i].ins[1]]
           h == EliminateAt(G, i)
<1>0. G = [inputs |-> G.inputs, inits |-> G.inits, nodes |-> G.nodes,
               outputs |-> G.outputs]
  BY GraphIs
<1>1. CASE i \notin Identities(G)
  BY <1>1 DEF EliminateAt, Reduced
<1>2. CASE i \in Identities(G)
  <2>1. h = [RenameUses(G, m) EXCEPT !.nodes = Drop(@, {i})]
    BY <1>2 DEF EliminateAt
  <2> HIDE DEF m, h
  <2>2. RenameUses(G, m) = [inputs |-> G.inputs, inits |-> G.inits,
                                nodes |-> [j \in D |-> RenameReads(G.nodes[j], m)],
                                outputs |-> G.outputs]
    BY <1>0 DEF RenameUses
  <2>3. h.inputs = G.inputs /\ h.outputs = G.outputs
        /\ h.nodes = Drop([j \in D |-> RenameReads(G.nodes[j], m)], {i})
    BY <2>1, <2>2
  <2>4. DOMAIN h.nodes = D \ {i} /\ \A j \in D \ {i} : h.nodes[j] = RenameReads(G.nodes[j], m)
    BY <2>3 DEF Drop
  <2>5. D \ {i} \in SUBSET DOMAIN G.nodes
    OBVIOUS
  <2>6. Reduced(h, G)
    <3> DEFINE places == D \ {i}
    <3> HIDE DEF places, D
    <3>1. QED
      BY <2>3, <2>4, <2>5, RenamedReduced DEF places
  <2>7. i \notin Identities(h)
    BY <2>4 DEF Identities
  <2>8. QED
    BY <2>3, <2>6, <2>7 DEF h
<1>3. QED
  BY <1>1, <1>2

\* The graph after some of the places were looked at.
IdentityAfter(G) ==
    CHOOSE e : e = [s \in SUBSET DOMAIN NodePlaces(G) |->
                      IF s = {} THEN G
                      ELSE EliminateAt(e[s \ {Max(s)}], NodePlaces(G)[Max(s)])]

LEMMA IdentityUnfolds ==
    ASSUME NEW G
    PROVE  EliminateIdentity(G) = IdentityAfter(G)[DOMAIN NodePlaces(G)]
BY DEF EliminateIdentity, IdentityAfter, FoldLeft, MapThenFoldSet, NodePlaces

LEMMA IdentityAfterIs ==
    ASSUME NEW G, Row(G.nodes), NEW s \in SUBSET DOMAIN G.nodes
    PROVE  IdentityAfter(G)[s]
             = IF s = {} THEN G
               ELSE EliminateAt(IdentityAfter(G)[s \ {Max(s)}], Max(s))
<1> DEFINE D == DOMAIN G.nodes
           E == IdentityAfter(G)
<1>0. IsFiniteSet(D) /\ D \subseteq Nat
  BY DEF Row
<1>a. \A t \in SUBSET D : IsFiniteSet(t)
  BY <1>0, FS_Subset
<1>1. PICK f : f = Folded("identity", G.nodes, G, f, SUBSET D)
  <2> HIDE DEF D
  <2>1. QED
    BY <1>0, FoldExists
<1>2. ASSUME NEW t \in SUBSET D, t # {}
      PROVE  Combined("identity", G.nodes, Chosen("identity", t), f[Rest("identity", t)])
               = EliminateAt(f[t \ {Max(t)}], NodePlaces(G)[Max(t)])
  <2>1. Max(t) \in D
    BY <1>0, <1>a, <1>2, MaxIs
  <2>2. NodePlaces(G)[Max(t)] = Max(t)
    BY <2>1 DEF NodePlaces
  <2>3. Chosen("identity", t) = Max(t) /\ Rest("identity", t) = t \ {Max(t)}
    BY DEF Chosen, Rest
  <2>4. QED
    BY <2>2, <2>3 DEF Combined
<1>3. DOMAIN NodePlaces(G) = D
  BY DEF NodePlaces
<1>4. f = [t \in SUBSET DOMAIN NodePlaces(G) |->
             IF t = {} THEN G ELSE EliminateAt(f[t \ {Max(t)}], NodePlaces(G)[Max(t)])]
  <2>1. f = [t \in SUBSET D |-> IF t = {} THEN G
                ELSE Combined("identity", G.nodes, Chosen("identity", t), f[Rest("identity", t)])]
    BY <1>1 DEF Folded
  <2>2. QED
    BY <1>2, <1>3, <2>1
<1>5. E = [t \in SUBSET DOMAIN NodePlaces(G) |->
             IF t = {} THEN G ELSE EliminateAt(E[t \ {Max(t)}], NodePlaces(G)[Max(t)])]
  BY <1>4 DEF IdentityAfter
<1> HIDE DEF E
<1>6. E[s] = IF s = {} THEN G ELSE EliminateAt(E[s \ {Max(s)}], NodePlaces(G)[Max(s)])
  BY <1>3, <1>5
<1>7. s # {} => NodePlaces(G)[Max(s)] = Max(s)
  <2>1. s # {} => Max(s) \in D
    BY <1>0, <1>a, MaxIs
  <2>2. QED
    BY <2>1 DEF NodePlaces
<1>8. QED
  BY <1>6, <1>7 DEF E

\* Looking at every place removes every identity, and changes nothing where there is none.
LEMMA IdentitiesEliminated ==
    ASSUME NEW G, WellFormed(G)
    PROVE  /\ WellFormed(EliminateIdentity(G))
           /\ Meaning(EliminateIdentity(G)) = Meaning(G)
           /\ Reduced(EliminateIdentity(G), G)
           /\ Identities(EliminateIdentity(G)) = {}
           /\ Identities(G) = {} => EliminateIdentity(G) = G
<1> DEFINE D == DOMAIN G.nodes
           A(s) == IdentityAfter(G)[s]
           Good(s) == /\ WellFormed(A(s)) /\ Meaning(A(s)) = Meaning(G)
                      /\ Reduced(A(s), G)
                      /\ Identities(A(s)) \cap s = {}
                      /\ Identities(G) = {} => A(s) = G
           Bad == {s \in SUBSET D : ~ Good(s)}
<1>1. Row(G.nodes) /\ IsFiniteSet(D) /\ D \subseteq Nat
  BY DEF WellFormed, Row
<1>2. ASSUME NEW s \in SUBSET D
      PROVE  A(s) = IF s = {} THEN G ELSE EliminateAt(A(s \ {Max(s)}), Max(s))
  <2>1. s \in SUBSET DOMAIN G.nodes
    OBVIOUS
  <2>2. QED
    BY <1>1, <2>1, IdentityAfterIs
<1>3. \A s \in SUBSET D : s # {} => Max(s) \in s
  <2>1. \A s \in SUBSET D : IsFiniteSet(s)
    BY <1>1, FS_Subset
  <2>2. QED
    BY <1>1, <2>1, MaxIs
<1> HIDE DEF A
<1>4. ASSUME NEW s \in SUBSET D, s # {}, Good(s \ {Max(s)}) PROVE Good(s)
  <2> DEFINE x == Max(s)
             g == A(s \ {x})
  <2>1. A(s) = EliminateAt(g, x) /\ x \in s
    BY <1>2, <1>3, <1>4
  <2>2. WellFormed(g) /\ Meaning(g) = Meaning(G) /\ Reduced(g, G)
        /\ Identities(g) \cap (s \ {x}) = {} /\ (Identities(G) = {} => g = G)
    BY <1>4
  <2> HIDE DEF x, g
  <2>3. WellFormed(A(s)) /\ Meaning(A(s)) = Meaning(G)
    BY <2>1, <2>2, IdentityEliminated
  <2>4. Reduced(A(s), g) /\ x \notin Identities(A(s))
    BY <2>1, <2>2, IdentityRemoved
  <2>5. Reduced(A(s), G)
    BY <2>2, <2>4 DEF Reduced
  <2>6. Identities(A(s)) \cap s = {}
    <3>1. Identities(A(s)) \subseteq Identities(g)
      BY <2>4, ReducedHas
    <3>2. QED
      BY <2>2, <2>4, <3>1
  <2>7. ASSUME Identities(G) = {} PROVE A(s) = G
    BY <2>1, <2>2, <2>7 DEF EliminateAt
  <2>8. QED
    BY <2>3, <2>5, <2>6, <2>7
<1>5. Good({})
  <2>1. A({}) = G
    BY <1>2
  <2>2. Reduced(G, G)
    BY DEF Reduced
  <2>3. QED
    BY <2>1, <2>2
<1>6. Bad = {}
  <2> SUFFICES ASSUME Bad # {} PROVE FALSE
    OBVIOUS
  <2> HIDE DEF Good
  <2>1. PICK s \in Bad : \A x \in s : s \ {x} \notin Bad
    <3>1. Bad \in SUBSET (SUBSET D)
      OBVIOUS
    <3> HIDE DEF Bad
    <3>2. QED
      BY <1>1, <3>1, SmallestOf
  <2>2. s \in SUBSET D /\ s # {} /\ Good(s \ {Max(s)})
    BY <1>3, <1>5, <2>1
  <2>3. QED
    BY <1>4, <2>2
<1>7. Good(D)
  <2> HIDE DEF Good
  <2>1. QED
    BY <1>6
<1>8. EliminateIdentity(G) = A(D)
  <2>1. DOMAIN NodePlaces(G) = D
    BY DEF NodePlaces
  <2>2. QED
    BY <2>1, IdentityUnfolds DEF A
<1>9. Identities(A(D)) \subseteq D
  BY <1>7 DEF Identities, Reduced
<1>10. QED
  BY <1>7, <1>8, <1>9

\* The other passes: what each removes is gone, and where there is nothing to remove it
\* changes nothing.
LEMMA NoConstantsLeft ==
    ASSUME NEW G, WellFormed(G)
    PROVE  /\ Constants(ExtractConstants(G)) = {}
           /\ Constants(G) = {} => ExtractConstants(G) = G
<1> DEFINE D == DOMAIN G.nodes
           taken == Constants(G)
           values == [n \in {G.nodes[i].out : i \in taken} |->
                        (CHOOSE c \in {G.nodes[i] : i \in taken} : c.out = n).value]
           inits == [n \in DOMAIN G.inits \cup DOMAIN values |->
                       IF n \in DOMAIN values THEN values[n] ELSE G.inits[n]]
           h == ExtractConstants(G)
<1>0. /\ G = [inputs |-> G.inputs, inits |-> G.inits, nodes |-> G.nodes,
                  outputs |-> G.outputs]
      /\ G.inits = [n \in DOMAIN G.inits |-> G.inits[n]]
      /\ G.nodes = [i \in D |-> G.nodes[i]]
  BY GraphIs
<1>1. h = [G EXCEPT !.inits = inits, !.nodes = Drop(@, taken)]
  BY DEF ExtractConstants
<1>2. DOMAIN values = {G.nodes[i].out : i \in taken}
  OBVIOUS
<1> HIDE DEF h, values
<1>3. h = [inputs |-> G.inputs, inits |-> inits, nodes |-> [i \in D \ taken |-> G.nodes[i]],
           outputs |-> G.outputs]
  <2>1. Drop(G.nodes, taken) = [i \in D \ taken |-> G.nodes[i]]
    BY DEF Drop
  <2> HIDE DEF inits, taken
  <2>2. QED
    BY <1>0, <1>1, <2>1
<1>4. Constants(h) = {}
  <2>1. \A i \in DOMAIN h.nodes : i \in D /\ i \notin taken /\ h.nodes[i] = G.nodes[i]
    BY <1>3
  <2>2. h.outputs = G.outputs
    BY <1>3
  <2>3. QED
    BY <2>1, <2>2 DEF Constants
<1>5. ASSUME taken = {} PROVE h = G
  <2>1. DOMAIN values = {}
    BY <1>2, <1>5
  <2>2. inits = [n \in DOMAIN G.inits |-> G.inits[n]]
    BY <2>1
  <2>3. [i \in D \ taken |-> G.nodes[i]] = [i \in D |-> G.nodes[i]]
    BY <1>5
  <2> HIDE DEF inits, taken
  <2>4. QED
    BY <1>0, <1>3, <2>2, <2>3
<1>6. QED
  BY <1>4, <1>5 DEF h

\* No two initializers that may be merged have one value.
Merged(G) ==
    \A n, l \in Mergeable(G) : G.inits[n] = G.inits[l] => n = l

LEMMA DeduplicatedIs ==
    ASSUME NEW G, WellFormed(G)
    PROVE  DeduplicateInitializers(G)
             = [inputs |-> G.inputs, inits |-> Drop(G.inits, DOMAIN Merging(G)),
                nodes |-> [j \in DOMAIN G.nodes |-> RenameReads(G.nodes[j], Merging(G))],
                outputs |-> G.outputs]
<1> DEFINE m == Merging(G)
<1>1. G = [inputs |-> G.inputs, inits |-> G.inits, nodes |-> G.nodes,
               outputs |-> G.outputs]
  BY GraphIs
<1>2. DeduplicateInitializers(G) = [RenameUses(G, m) EXCEPT !.inits = Drop(@, DOMAIN m)]
  BY MergingIs
<1> HIDE DEF m
<1>3. RenameUses(G, m) = [inputs |-> G.inputs, inits |-> G.inits,
        nodes |-> [j \in DOMAIN G.nodes |-> RenameReads(G.nodes[j], m)],
        outputs |-> G.outputs]
  BY <1>1 DEF RenameUses
<1>4. QED
  BY <1>2, <1>3 DEF m

LEMMA NothingLeftToMerge ==
    ASSUME NEW G, WellFormed(G)
    PROVE  /\ Merged(DeduplicateInitializers(G))
           /\ Reduced(DeduplicateInitializers(G), G)
           /\ Merged(G) => DeduplicateInitializers(G) = G
<1> DEFINE D == DOMAIN G.nodes
           m == Merging(G)
           h == DeduplicateInitializers(G)
<1>0. /\ G = [inputs |-> G.inputs, inits |-> G.inits, nodes |-> G.nodes,
                  outputs |-> G.outputs]
      /\ G.inits = [n \in DOMAIN G.inits |-> G.inits[n]]
      /\ G.nodes = [i \in D |-> G.nodes[i]]
  BY GraphIs
<1>1. h = [inputs |-> G.inputs, inits |-> Drop(G.inits, DOMAIN m),
           nodes |-> [j \in D |-> RenameReads(G.nodes[j], m)], outputs |-> G.outputs]
  BY DeduplicatedIs
<1>2. /\ Firsts(G) \subseteq Mergeable(G)
      /\ DOMAIN m = Mergeable(G) \ Firsts(G)
  BY MergingIs
<1>3. \A n, l \in Firsts(G) : G.inits[n] = G.inits[l] => n = l
  <2>1. ASSUME NEW n \in Firsts(G)
        PROVE  n = CHOOSE k \in Same(G, n) : TRUE
    <3>1. PICK p \in Mergeable(G) : n = CHOOSE k \in Same(G, p) : TRUE
      BY DEF Firsts
    <3>2. p \in Same(G, p)
      BY DEF Same
    <3>3. n \in Same(G, p)
      BY <3>1, <3>2
    <3>4. Same(G, n) = Same(G, p)
      BY <3>3 DEF Same
    <3>5. QED
      BY <3>1, <3>4
  <2>2. ASSUME NEW n \in Firsts(G), NEW l \in Firsts(G), G.inits[n] = G.inits[l]
        PROVE  n = l
    <3>1. Same(G, n) = Same(G, l)
      BY <2>2 DEF Same
    <3>2. QED
      BY <2>1, <3>1
  <2>3. QED
    BY <2>2
<1> HIDE DEF m, h
<1>4. Merged(h)
  <2>1. DOMAIN h.inits = DOMAIN G.inits \ DOMAIN m /\ \A n \in DOMAIN h.inits : h.inits[n] = G.inits[n]
    BY <1>1 DEF Drop
  <2>2. h.inputs = G.inputs /\ h.outputs = G.outputs
    BY <1>1
  <2>3. Mergeable(h) = Mergeable(G) \ DOMAIN m
    BY <2>1, <2>2 DEF Mergeable, Fixed
  <2>4. \A n \in Mergeable(h) : n \in Firsts(G) /\ n \in DOMAIN h.inits
    BY <1>2, <2>3 DEF Mergeable
  <2>5. QED
    BY <1>3, <2>1, <2>4 DEF Merged
<1>5. Reduced(h, G)
  <2>1. D \in SUBSET DOMAIN G.nodes
    OBVIOUS
  <2>2. h.outputs = G.outputs /\ DOMAIN h.nodes = D
        /\ \A i \in D : h.nodes[i] = RenameReads(G.nodes[i], m)
    BY <1>1
  <2> HIDE DEF D
  <2>3. QED
    BY <2>1, <2>2, RenamedReduced
<1>6. ASSUME Merged(G) PROVE h = G
  <2>1. ASSUME NEW n \in Mergeable(G) PROVE n \in Firsts(G)
    <3>1. Same(G, n) = {n}
      BY <1>6 DEF Same, Merged
    <3>2. (CHOOSE k \in Same(G, n) : TRUE) = n
      BY <3>1
    <3>3. QED
      BY <3>2 DEF Firsts
  <2>2. DOMAIN m = {}
    BY <1>2, <2>1
  <2>3. Drop(G.inits, DOMAIN m) = G.inits
    BY <1>0, <2>2 DEF Drop
  <2>4. ASSUME NEW p, NodeOK(p) PROVE RenameReads(p, m) = p
    BY <2>2, <2>4, RenamedByNothing
  <2>5. \A j \in D : RenameReads(G.nodes[j], m) = G.nodes[j]
    BY <2>4 DEF WellFormed
  <2>6. [j \in D |-> RenameReads(G.nodes[j], m)] = [j \in D |-> G.nodes[j]]
    BY <2>5
  <2>7. QED
    BY <1>0, <1>1, <2>3, <2>6
<1>7. QED
  BY <1>4, <1>5, <1>6 DEF h

\* Every node that is left is needed.
LEMMA NoDeadNodesLeft ==
    ASSUME NEW G, WellFormed(G)
    PROVE  /\ Alive(EliminateDeadNodes(G)) = DOMAIN EliminateDeadNodes(G).nodes
           /\ Reduced(EliminateDeadNodes(G), G)
           /\ Merged(G) => Merged(EliminateDeadNodes(G))
           /\ Alive(G) = DOMAIN G.nodes => EliminateDeadNodes(G) = G
<1> DEFINE D == DOMAIN G.nodes
           h == EliminateDeadNodes(G)
           Missing == Alive(G) \ Alive(h)
<1>0. /\ G = [inputs |-> G.inputs, inits |-> G.inits, nodes |-> G.nodes,
                  outputs |-> G.outputs]
      /\ G.nodes = [i \in D |-> G.nodes[i]]
      /\ D \subseteq Nat /\ IsFiniteSet(D)
  BY GraphIs DEF WellFormed, Row
<1>1. /\ Alive(G) \subseteq D
      /\ \A i \in Alive(G) :
           \/ G.nodes[i].out \in G.outputs
           \/ \E j \in Alive(G) : i < j /\ G.nodes[i].out \in AllReads(G.nodes[j])
  BY AliveIs
<1>2. h = [inputs |-> G.inputs, inits |-> G.inits,
           nodes |-> [i \in Alive(G) |-> G.nodes[i]], outputs |-> G.outputs]
  <2>1. Drop(G.nodes, D \ Alive(G)) = [i \in Alive(G) |-> G.nodes[i]]
    BY <1>1 DEF Drop
  <2>2. h = [G EXCEPT !.nodes = Drop(G.nodes, D \ Alive(G))]
    BY DEF EliminateDeadNodes
  <2> HIDE DEF h
  <2>3. QED
    BY <1>0, <2>1, <2>2
<1>3. WellFormed(h)
  BY DeadNodesEliminated
<1> HIDE DEF h
<1>4. /\ Alive(h) \subseteq DOMAIN h.nodes
      /\ \A i \in DOMAIN h.nodes :
           (\/ h.nodes[i].out \in h.outputs
            \/ \E j \in Alive(h) : h.nodes[i].out \in AllReads(h.nodes[j])) => i \in Alive(h)
  BY <1>3, AliveIs
<1>5. Missing = {}
  <2> SUFFICES ASSUME Missing # {} PROVE FALSE
    OBVIOUS
  <2>1. PICK i \in Missing : \A j \in Missing : j <= i
    <3>1. Missing \in SUBSET Nat /\ IsFiniteSet(Missing)
      <4>1. Missing \subseteq D
        BY <1>1
      <4>2. QED
        BY <1>0, <4>1, FS_Subset
    <3> HIDE DEF Missing
    <3>2. QED
      BY <3>1, MaxIs
  <2>2. i \in Alive(G) /\ i \in DOMAIN h.nodes /\ i \notin Alive(h) /\ h.outputs = G.outputs
        /\ h.nodes[i] = G.nodes[i]
    BY <1>2
  <2>3. PICK j \in Alive(G) : i < j /\ G.nodes[i].out \in AllReads(G.nodes[j])
    BY <1>1, <1>4, <2>2
  <2>4. j \notin Missing
    BY <1>0, <1>1, <2>1, <2>2, <2>3
  <2>5. j \in Alive(h) /\ h.nodes[j] = G.nodes[j]
    BY <1>2, <2>4
  <2>6. QED
    BY <1>4, <2>2, <2>3, <2>5
<1>6. Alive(h) = DOMAIN h.nodes
  BY <1>2, <1>4, <1>5
<1>7. Reduced(h, G)
  BY <1>1, <1>2 DEF Reduced
<1>8. Merged(G) => Merged(h)
  BY <1>2 DEF Merged, Mergeable, Fixed
<1>9. Alive(G) = D => h = G
  BY <1>0, <1>2
<1>10. QED
  BY <1>6, <1>7, <1>8, <1>9 DEF h

\* Every initializer that is left is used, or is the default of an input.
AllUsed(G) == DOMAIN G.inits \subseteq UsedNames(G) \cup G.inputs

LEMMA NoUnusedInitializersLeft ==
    ASSUME NEW G, WellFormed(G)
    PROVE  /\ AllUsed(EliminateUnusedInitializers(G))
           /\ Reduced(EliminateUnusedInitializers(G), G)
           /\ Merged(G) => Merged(EliminateUnusedInitializers(G))
           /\ Alive(EliminateUnusedInitializers(G)) = Alive(G)
           /\ EliminateUnusedInitializers(G).nodes = G.nodes
           /\ AllUsed(G) => EliminateUnusedInitializers(G) = G
<1> DEFINE used == UsedNames(G) \cup G.inputs
           h == EliminateUnusedInitializers(G)
<1>0. /\ G = [inputs |-> G.inputs, inits |-> G.inits, nodes |-> G.nodes,
                  outputs |-> G.outputs]
      /\ G.inits = [n \in DOMAIN G.inits |-> G.inits[n]]
  BY GraphIs
<1>1. h = [G EXCEPT !.inits = Drop(@, DOMAIN G.inits \ used)]
  BY DEF EliminateUnusedInitializers
<1> HIDE DEF h, used
<1>2. h = [inputs |-> G.inputs, inits |-> Drop(G.inits, DOMAIN G.inits \ used),
           nodes |-> G.nodes, outputs |-> G.outputs]
  BY <1>0, <1>1
<1>3. /\ h.inputs = G.inputs /\ h.nodes = G.nodes /\ h.outputs = G.outputs
      /\ DOMAIN h.inits = DOMAIN G.inits \cap used
      /\ \A n \in DOMAIN h.inits : h.inits[n] = G.inits[n]
  BY <1>2 DEF Drop
<1>4. UsedNames(h) = UsedNames(G) /\ Alive(h) = Alive(G)
  BY <1>3 DEF UsedNames, Alive
<1>5. AllUsed(h)
  BY <1>3, <1>4 DEF AllUsed, used
<1>6. Reduced(h, G)
  BY <1>3 DEF Reduced
<1>7. Merged(G) => Merged(h)
  BY <1>3 DEF Merged, Mergeable, Fixed
<1>8. ASSUME AllUsed(G) PROVE h = G
  <2>1. Drop(G.inits, DOMAIN G.inits \ used) = G.inits
    BY <1>0, <1>8 DEF AllUsed, used, Drop
  <2>2. QED
    BY <1>0, <1>2, <2>1
<1>9. QED
  BY <1>3, <1>4, <1>5, <1>6, <1>7, <1>8 DEF h

-----------------------------------------------------------------------------
(* The passes in their order *)

OptimizeAfter(G, passes) ==
    CHOOSE e : e = [s \in SUBSET DOMAIN PASS_ORDER |->
                      IF s = {} THEN G
                      ELSE RunPass(e[s \ {Max(s)}], passes, PASS_ORDER[Max(s)])]

LEMMA OptimizeUnfolds ==
    ASSUME NEW G, NEW passes
    PROVE  Optimize(G, passes) = OptimizeAfter(G, passes)[DOMAIN PASS_ORDER]
BY DEF Optimize, OptimizeAfter, FoldLeft, MapThenFoldSet

LEMMA OptimizeAfterIs ==
    ASSUME NEW G, NEW passes, NEW s \in SUBSET (1 .. 5)
    PROVE  OptimizeAfter(G, passes)[s]
             = IF s = {} THEN G
               ELSE RunPass(OptimizeAfter(G, passes)[s \ {Max(s)}], passes, PASS_ORDER[Max(s)])
<1> DEFINE D == DOMAIN PASS_ORDER
           E == OptimizeAfter(G, passes)
<1>0. D = 1 .. 5 /\ IsFiniteSet(D) /\ D \subseteq Nat
  <2>1. D = 1 .. 5
    BY DEF PASS_ORDER
  <2>2. 1 .. 5 \subseteq Nat /\ \A n \in 1 .. 5 : n <= 5
    OBVIOUS
  <2>3. IsFiniteSet(1 .. 5)
    BY <2>2, FS_BoundedSetOfNaturals
  <2>4. QED
    BY <2>1, <2>2, <2>3
<1>1. PICK f : f = Folded("pass", passes, G, f, SUBSET D)
  <2>1. IsFiniteSet(D) /\ D \subseteq Nat
    BY <1>0
  <2> HIDE DEF D
  <2>2. QED
    BY <2>1, FoldExists
<1>2. ASSUME NEW t, NEW x
      PROVE  /\ Combined("pass", passes, x, f[t]) = RunPass(f[t], passes, PASS_ORDER[x])
             /\ Chosen("pass", t) = Max(t) /\ Rest("pass", t) = t \ {Max(t)}
  BY DEF Combined, Chosen, Rest
<1> HIDE DEF D
<1>3. f = [t \in SUBSET D |-> IF t = {} THEN G
                             ELSE RunPass(f[t \ {Max(t)}], passes, PASS_ORDER[Max(t)])]
  <2>1. f = [t \in SUBSET D |-> IF t = {} THEN G
                ELSE Combined("pass", passes, Chosen("pass", t), f[Rest("pass", t)])]
    BY <1>1 DEF Folded
  <2>2. ASSUME NEW t
        PROVE  Combined("pass", passes, Chosen("pass", t), f[Rest("pass", t)])
                 = RunPass(f[t \ {Max(t)}], passes, PASS_ORDER[Max(t)])
    BY <1>2
  <2>3. QED
    BY <2>1, <2>2
<1>4. E = [t \in SUBSET D |-> IF t = {} THEN G
                             ELSE RunPass(E[t \ {Max(t)}], passes, PASS_ORDER[Max(t)])]
  BY <1>3 DEF OptimizeAfter, D
<1> HIDE DEF E
<1>5. QED
  BY <1>0, <1>4 DEF E

LEMMA OptimizeIs ==
    ASSUME NEW G, NEW passes
    PROVE  Optimize(G, passes)
             = RunPass(RunPass(RunPass(RunPass(RunPass(G, passes, "extract_constants"),
                 passes, "eliminate_identity"), passes, "deduplicate_initializers"),
                 passes, "eliminate_dead_nodes"), passes, "eliminate_unused_initializers")
<1> DEFINE E(k) == OptimizeAfter(G, passes)[1 .. k]
<1>0. ASSUME NEW s \in SUBSET (1 .. 5), s # {}
      PROVE  OptimizeAfter(G, passes)[s]
               = RunPass(OptimizeAfter(G, passes)[s \ {Max(s)}], passes, PASS_ORDER[Max(s)])
  <2>1. OptimizeAfter(G, passes)[s]
          = IF s = {} THEN G
            ELSE RunPass(OptimizeAfter(G, passes)[s \ {Max(s)}], passes, PASS_ORDER[Max(s)])
    BY OptimizeAfterIs
  <2>2. QED
    BY <1>0, <2>1
<1>1. ASSUME NEW k \in 1 .. 5
      PROVE  E(k) = RunPass(E(k - 1), passes, PASS_ORDER[k])
  <2>0. IsFiniteSet(1 .. k)
    BY FS_Interval
  <2>1. 1 .. k \in SUBSET (1 .. 5) /\ 1 .. k # {} /\ 1 .. k \in SUBSET Nat
    OBVIOUS
  <2>2. Max(1 .. k) = k
    <3>1. Max(1 .. k) \in 1 .. k /\ \A y \in 1 .. k : y <= Max(1 .. k)
      BY <2>0, <2>1, MaxIs
    <3>2. QED
      BY <3>1
  <2>3. (1 .. k) \ {k} = 1 .. (k - 1)
    OBVIOUS
  <2>4. OptimizeAfter(G, passes)[1 .. k]
          = RunPass(OptimizeAfter(G, passes)[(1 .. k) \ {Max(1 .. k)}], passes,
                    PASS_ORDER[Max(1 .. k)])
    <3> DEFINE s == 1 .. k
    <3>1. s \in SUBSET (1 .. 5) /\ s # {}
      BY <2>1
    <3> HIDE DEF s
    <3>2. OptimizeAfter(G, passes)[s]
            = RunPass(OptimizeAfter(G, passes)[s \ {Max(s)}], passes, PASS_ORDER[Max(s)])
      BY <1>0, <3>1
    <3>3. QED
      BY <3>2 DEF s
  <2>5. QED
    BY <2>2, <2>3, <2>4
<1>2. E(0) = G
  <2>1. 1 .. 0 = {}
    OBVIOUS
  <2>2. {} \in SUBSET (1 .. 5)
    OBVIOUS
  <2>3. OptimizeAfter(G, passes)[{}] = G
    BY <2>2, OptimizeAfterIs
  <2>4. QED
    BY <2>1, <2>3
<1>3. Optimize(G, passes) = E(5)
  <2>1. DOMAIN PASS_ORDER = 1 .. 5
    BY DEF PASS_ORDER
  <2>2. QED
    BY <2>1, OptimizeUnfolds
<1>4. /\ PASS_ORDER[1] = "extract_constants" /\ PASS_ORDER[2] = "eliminate_identity"
      /\ PASS_ORDER[3] = "deduplicate_initializers" /\ PASS_ORDER[4] = "eliminate_dead_nodes"
      /\ PASS_ORDER[5] = "eliminate_unused_initializers"
  BY DEF PASS_ORDER
<1> HIDE DEF E
<1>5. /\ E(1) = RunPass(E(0), passes, PASS_ORDER[1]) /\ E(2) = RunPass(E(1), passes, PASS_ORDER[2])
      /\ E(3) = RunPass(E(2), passes, PASS_ORDER[3]) /\ E(4) = RunPass(E(3), passes, PASS_ORDER[4])
      /\ E(5) = RunPass(E(4), passes, PASS_ORDER[5])
  <2>1. \A k \in {1, 2, 3, 4, 5} : k \in 1 .. 5
    OBVIOUS
  <2>2. /\ E(1) = RunPass(E(1 - 1), passes, PASS_ORDER[1]) /\ E(2) = RunPass(E(2 - 1), passes, PASS_ORDER[2])
        /\ E(3) = RunPass(E(3 - 1), passes, PASS_ORDER[3]) /\ E(4) = RunPass(E(4 - 1), passes, PASS_ORDER[4])
        /\ E(5) = RunPass(E(5 - 1), passes, PASS_ORDER[5])
    BY <1>1, <2>1
  <2>3. 1 - 1 = 0 /\ 2 - 1 = 1 /\ 3 - 1 = 2 /\ 4 - 1 = 3 /\ 5 - 1 = 4
    OBVIOUS
  <2>4. QED
    BY <2>2, <2>3
<1>6. QED
  BY <1>2, <1>3, <1>4, <1>5

\* A pass of the list keeps a graph well formed and what it computes.
PassNames == {"extract_constants", "eliminate_identity", "deduplicate_initializers",
              "eliminate_dead_nodes", "eliminate_unused_initializers"}

LEMMA PassIs ==
    ASSUME NEW G
    PROVE  /\ Pass("extract_constants", G) = ExtractConstants(G)
           /\ Pass("eliminate_identity", G) = EliminateIdentity(G)
           /\ Pass("deduplicate_initializers", G) = DeduplicateInitializers(G)
           /\ Pass("eliminate_dead_nodes", G) = EliminateDeadNodes(G)
           /\ Pass("eliminate_unused_initializers", G) = EliminateUnusedInitializers(G)
BY DEF Pass

LEMMA PassKeepsMeaning ==
    ASSUME NEW G, WellFormed(G), NEW passes, NEW name \in PassNames
    PROVE  /\ WellFormed(RunPass(G, passes, name))
           /\ Meaning(RunPass(G, passes, name)) = Meaning(G)
<1>1. CASE name \notin passes
  BY <1>1 DEF RunPass
<1>2. CASE name \in passes
  <2>1. RunPass(G, passes, name) = Pass(name, G)
    BY <1>2 DEF RunPass
  <2>2. CASE name = "extract_constants"
    BY <2>1, <2>2, PassIs, ConstantsExtracted
  <2>3. CASE name = "eliminate_identity"
    BY <2>1, <2>3, PassIs, IdentitiesEliminated
  <2>4. CASE name = "deduplicate_initializers"
    BY <2>1, <2>4, PassIs, InitializersDeduplicated
  <2>5. CASE name = "eliminate_dead_nodes"
    BY <2>1, <2>5, PassIs, DeadNodesEliminated
  <2>6. CASE name = "eliminate_unused_initializers"
    BY <2>1, <2>6, PassIs, UnusedInitializersEliminated
  <2>7. QED
    BY <2>2, <2>3, <2>4, <2>5, <2>6 DEF PassNames
<1>3. QED
  BY <1>1, <1>2

\* Any selection of passes keeps what a well-formed graph computes.
LEMMA OptimizeKeepsMeaning ==
    ASSUME NEW G, WellFormed(G), NEW passes
    PROVE  WellFormed(Optimize(G, passes)) /\ Meaning(Optimize(G, passes)) = Meaning(G)
<1> DEFINE g1 == RunPass(G, passes, "extract_constants")
           g2 == RunPass(g1, passes, "eliminate_identity")
           g3 == RunPass(g2, passes, "deduplicate_initializers")
           g4 == RunPass(g3, passes, "eliminate_dead_nodes")
           g5 == RunPass(g4, passes, "eliminate_unused_initializers")
<1>1. Optimize(G, passes) = g5
  BY OptimizeIs
<1>2. /\ "extract_constants" \in PassNames /\ "eliminate_identity" \in PassNames
      /\ "deduplicate_initializers" \in PassNames /\ "eliminate_dead_nodes" \in PassNames
      /\ "eliminate_unused_initializers" \in PassNames
  BY DEF PassNames
<1>3. WellFormed(g1) /\ Meaning(g1) = Meaning(G)
  BY <1>2, PassKeepsMeaning
<1> HIDE DEF g1
<1>4. WellFormed(g2) /\ Meaning(g2) = Meaning(g1)
  BY <1>2, <1>3, PassKeepsMeaning
<1> HIDE DEF g2
<1>5. WellFormed(g3) /\ Meaning(g3) = Meaning(g2)
  BY <1>2, <1>4, PassKeepsMeaning
<1> HIDE DEF g3
<1>6. WellFormed(g4) /\ Meaning(g4) = Meaning(g3)
  BY <1>2, <1>5, PassKeepsMeaning
<1> HIDE DEF g4
<1>7. WellFormed(g5) /\ Meaning(g5) = Meaning(g4)
  BY <1>2, <1>6, PassKeepsMeaning
<1> HIDE DEF g5
<1>8. QED
  BY <1>1, <1>3, <1>4, <1>5, <1>6, <1>7

\* What every pass has removed stays removed, so that a second round finds nothing.
LEMMA OptimizeTwice ==
    ASSUME NEW G, WellFormed(G)
    PROVE  Optimize(Optimize(G, Range(PASS_ORDER)), Range(PASS_ORDER))
             = Optimize(G, Range(PASS_ORDER))
<1> DEFINE all == Range(PASS_ORDER)
           g1 == ExtractConstants(G)
           g2 == EliminateIdentity(g1)
           g3 == DeduplicateInitializers(g2)
           g4 == EliminateDeadNodes(g3)
           g5 == EliminateUnusedInitializers(g4)
<1>1. ASSUME NEW g
      PROVE  Optimize(g, all) = EliminateUnusedInitializers(EliminateDeadNodes(
               DeduplicateInitializers(EliminateIdentity(ExtractConstants(g)))))
  <2>1. \A name \in PassNames : name \in all
    <3>1. DOMAIN PASS_ORDER = 1 .. 5
      BY DEF PASS_ORDER
    <3>2. /\ PASS_ORDER[1] \in all /\ PASS_ORDER[2] \in all /\ PASS_ORDER[3] \in all
          /\ PASS_ORDER[4] \in all /\ PASS_ORDER[5] \in all
      BY <3>1 DEF Range
    <3>3. QED
      BY <3>2 DEF PASS_ORDER, PassNames
  <2> HIDE DEF all
  <2>2. ASSUME NEW h, NEW name \in PassNames PROVE RunPass(h, all, name) = Pass(name, h)
    BY <2>1 DEF RunPass
  <2>3. /\ "extract_constants" \in PassNames /\ "eliminate_identity" \in PassNames
        /\ "deduplicate_initializers" \in PassNames /\ "eliminate_dead_nodes" \in PassNames
        /\ "eliminate_unused_initializers" \in PassNames
    BY DEF PassNames
  <2>4. ASSUME NEW h
        PROVE  /\ RunPass(h, all, "extract_constants") = ExtractConstants(h)
               /\ RunPass(h, all, "eliminate_identity") = EliminateIdentity(h)
               /\ RunPass(h, all, "deduplicate_initializers") = DeduplicateInitializers(h)
               /\ RunPass(h, all, "eliminate_dead_nodes") = EliminateDeadNodes(h)
               /\ RunPass(h, all, "eliminate_unused_initializers") = EliminateUnusedInitializers(h)
    BY <2>2, <2>3, PassIs
  <2>5. QED
    BY <2>4, OptimizeIs
<1>2. Optimize(G, all) = g5
  BY <1>1
<1>3. WellFormed(g1) /\ Constants(g1) = {}
  BY ConstantsExtracted, NoConstantsLeft
<1> HIDE DEF g1
<1>4. WellFormed(g2) /\ Reduced(g2, g1) /\ Identities(g2) = {}
  BY <1>3, IdentitiesEliminated
<1> HIDE DEF g2
<1>5. WellFormed(g3) /\ Reduced(g3, g2) /\ Merged(g3)
  BY <1>4, InitializersDeduplicated, NothingLeftToMerge
<1> HIDE DEF g3
<1>6. WellFormed(g4) /\ Reduced(g4, g3) /\ Merged(g4) /\ Alive(g4) = DOMAIN g4.nodes
  BY <1>5, DeadNodesEliminated, NoDeadNodesLeft
<1> HIDE DEF g4
<1>7. /\ WellFormed(g5) /\ Reduced(g5, g4) /\ Merged(g5) /\ Alive(g5) = DOMAIN g5.nodes
      /\ AllUsed(g5)
  BY <1>6, UnusedInitializersEliminated, NoUnusedInitializersLeft
<1> HIDE DEF g5
<1>8. Constants(g5) = {} /\ Identities(g5) = {}
  <2>1. Constants(g2) = {}
    BY <1>3, <1>4, ReducedHas
  <2>2. Constants(g3) = {} /\ Identities(g3) = {}
    BY <1>4, <1>5, <2>1, ReducedHas
  <2>3. Constants(g4) = {} /\ Identities(g4) = {}
    BY <1>6, <2>2, ReducedHas
  <2>4. QED
    BY <1>7, <2>3, ReducedHas
<1>9. /\ ExtractConstants(g5) = g5
      /\ EliminateIdentity(g5) = g5
      /\ DeduplicateInitializers(g5) = g5
      /\ EliminateDeadNodes(g5) = g5
      /\ EliminateUnusedInitializers(g5) = g5
  BY <1>7, <1>8, NoConstantsLeft, IdentitiesEliminated, NothingLeftToMerge, NoDeadNodesLeft,
     NoUnusedInitializersLeft
<1> HIDE DEF all
<1>10. Optimize(g5, all) = g5
  BY <1>1, <1>9
<1>11. QED
  BY <1>2, <1>10 DEF all

\* The exported nodes are those of a case, which never change.
GraphIsGiven == \E c \in Cases : graph = c.graph

LEMMA GivenStep == GraphIsGiven /\ [Next]_vars => GraphIsGiven'
<1> SUFFICES ASSUME GraphIsGiven, [Next]_vars PROVE GraphIsGiven'
  OBVIOUS
<1>1. graph' = graph
  BY DEF Next, vars, Load, PassOver, Again, Inspect, Export, OptimizeStage, ValidateOnnx, Calibrate,
         Build, ValidateEngine, Benchmark, Package, Advance, Fail, case
<1>2. QED
  BY <1>1 DEF GraphIsGiven

(* MeaningPreserved holds in every behavior: whatever nodes, bodies, constants,    *)
(* initializers and outputs the exported graph has, as long as the ONNX checker    *)
(* accepts it, any selection of passes leaves every output of it what it was, and  *)
(* a second round of all the passes changes nothing (onnx/optimize.py).            *)
THEOREM MeaningPreservedCorrect == Spec => []MeaningPreserved
<1>1. Init => GraphIsGiven
  BY DEF Init, GraphIsGiven
<1>2. Spec => []GraphIsGiven
  BY <1>1, GivenStep, PTL DEF Spec
<1>3. GraphIsGiven => MeaningPreserved
  <2> SUFFICES ASSUME GraphIsGiven PROVE MeaningPreserved
    OBVIOUS
  <2>1. WellFormed(graph)
    BY DeploymentAssumption DEF GraphIsGiven
  <2>2. \A passes \in SUBSET Range(PASS_ORDER) : Meaning(Optimize(graph, passes)) = Meaning(graph)
    BY <2>1, OptimizeKeepsMeaning
  <2>3. Optimize(Optimize(graph, Range(PASS_ORDER)), Range(PASS_ORDER))
          = Optimize(graph, Range(PASS_ORDER))
    BY <2>1, OptimizeTwice
  <2>4. QED
    BY <2>2, <2>3 DEF MeaningPreserved
<1>4. QED
  BY <1>2, <1>3, PTL
=================================================================================
