----------------------------- MODULE Optimizers -----------------------------
(* Optimizers and learning rate schedulers.                                 *)
(* SGD and Adam (nn/optimizers.hpp, optimizers.cpp): which parameters they  *)
(* update, with which state, and the kernels for both devices               *)
(* (optimizers_impl).  A kernel is what it writes for one element, as a     *)
(* term over the names of what it reads, so that two kernels agree when     *)
(* they compute the same expression.                                        *)
EXTENDS VectorKernels

\* A parameter: whether it is trained and how many elements it has.
Trained(p) == p.requires_grad /\ p.size > 0

\* attach adds the trained parameters to those of an earlier attach, and on_attach makes the state:
\* one velocity per parameter if there is momentum; two moments and a clock for Adam.
attach(o, graph) ==
  LET params == o.params \o SelectSeq(graph, Trained)
  IN  [o EXCEPT !.params = params, !.attached = TRUE,
                !.velocities = IF o.type = "sgd" /\ o.momentum > 0 THEN Len(params) ELSE @,
                !.moments = IF o.type = "adam" THEN Len(params) ELSE @, !.t = 0]

NewOptimizer(type, momentum, decay, decoupled) ==
  [type |-> type, momentum |-> momentum, decay |-> decay, decoupled |-> decoupled, params |-> <<>>,
   attached |-> FALSE, velocities |-> 0, moments |-> 0, t |-> 0]

----------------------------------------------------------------------------
(* The kernels, as terms.                                                   *)

Add(x, y) == <<"+", x, y>>
Sub(x, y) == <<"-", x, y>>
Mul(x, y) == <<"*", x, y>>
Div(x, y) == <<"/", x, y>>

\* CPU: the gradient with its decay, then the step.
update_sgd(decay) ==
  LET g == IF decay > 0 THEN Add("g", Mul("decay", "p")) ELSE "g"
  IN  [p |-> Sub("p", Mul("lr", g))]

update_sgd_momentum(decay) ==
  LET g == IF decay > 0 THEN Add("g", Mul("decay", "p")) ELSE "g"
      v == Sub(Mul("momentum", "v"), Mul("lr", g))
  IN  [v |-> v, p |-> Add("p", v)]

update_adam(decay, decoupled) ==
  LET g == IF decay > 0 /\ ~ decoupled THEN Add("g", Mul("decay", "p")) ELSE "g"
      m == Add(Mul("beta1", "m"), Mul(Sub(1, "beta1"), g))
      v == Add(Mul("beta2", "v"), Mul(Mul(Sub(1, "beta2"), g), g))
      update == Div(Mul("lr", Div(m, "bias1")), Add(<<"sqrt", Div(v, "bias2")>>, "epsilon"))
      p == IF decay > 0 /\ decoupled THEN Sub("p", Mul(Mul("decay", "lr"), "p")) ELSE "p"
  IN  [m |-> m, v |-> v, p |-> Sub(p, update)]

\* CUDA: one thread per element.
update_sgd_kernel(decay) ==
  LET g == IF decay > 0 THEN Add("g", Mul("decay", "p")) ELSE "g"
  IN  [p |-> Sub("p", Mul("lr", g))]

update_sgd_momentum_kernel(decay) ==
  LET g == IF decay > 0 THEN Add("g", Mul("decay", "p")) ELSE "g"
      v == Sub(Mul("momentum", "v"), Mul("lr", g))
  IN  [v |-> v, p |-> Add("p", v)]

\* The value is kept in a register: the decay is taken from it before the step.
update_adam_kernel(decay, decoupled) ==
  LET g == IF decay > 0 /\ ~ decoupled THEN Add("g", Mul("decay", "p")) ELSE "g"
      m == Add(Mul("beta1", "m"), Mul(Sub(1, "beta1"), g))
      v == Add(Mul("beta2", "v"), Mul(Mul(Sub(1, "beta2"), g), g))
      p == IF decay > 0 /\ decoupled THEN Sub("p", Mul(Mul("decay", "lr"), "p")) ELSE "p"
  IN  [m |-> m, v |-> v,
       p |-> Sub(p, Div(Mul("lr", Div(m, "bias1")), Add(<<"sqrt", Div(v, "bias2")>>, "epsilon")))]

\* The vector kernel: the elements thread idx loads and stores, and which of them it computes.
update_adam_kernel_vec(idx, n, size) ==
  [moved |-> idx * n .. idx * n + n - 1, computed |-> {i \in idx * n .. idx * n + n - 1 : i < size},
   pointers |-> {"params", "grads", "m", "v"}]

BlockThreads == 4    \* 256 in the code

\* The host chooses the vectors by the alignment of one pointer.
cuda_update_adam(size, n, aligned) ==
  IF size = 0 THEN [wide |-> FALSE, steps |-> {}]
  ELSE IF "params" \in aligned /\ size % n = 0
       THEN [wide |-> TRUE, steps |-> {t \in 0 .. BlocksFor(size \div n, BlockThreads) * BlockThreads - 1 : t * n < size}]
       ELSE [wide |-> FALSE, steps |-> {p[1] * BlockThreads + p[2] : p \in Guarded(size, BlockThreads)}]

cuda_update_sgd(size) ==
  IF size = 0 THEN {} ELSE {p[1] * BlockThreads + p[2] : p \in Guarded(size, BlockThreads)}

\* The kernel of a parameter: by the type and the momentum, then by the device.
SgdKernel(o, device) ==
  IF o.momentum > 0
  THEN IF device = "CPU" THEN update_sgd_momentum(o.decay) ELSE update_sgd_momentum_kernel(o.decay)
  ELSE IF device = "CPU" THEN update_sgd(o.decay) ELSE update_sgd_kernel(o.decay)

AdamKernel(o, device) ==
  IF device = "CPU" THEN update_adam(o.decay, o.decoupled) ELSE update_adam_kernel(o.decay, o.decoupled)

\* update_impl: for each parameter the places of the state it takes, and the clock.  The velocity
\* is named also when there is no momentum.
sgd_update(o) == [o |-> o, slots |-> [i \in DOMAIN o.params |-> {<<"velocities", i>>}]]

adam_update(o) ==
  [o |-> [o EXCEPT !.t = @ + 1], slots |-> [i \in DOMAIN o.params |-> {<<"moments", i>>}]]

\* The configuration of an optimizer, what a copy or a worker makes of it: of SGD's three numbers
\* two are read.
sgd_config(o) == [type |-> "sgd", momentum |-> o.momentum, decay |-> o.decay]
adam_config(o) == [type |-> IF o.decoupled THEN "adamw" ELSE "adam", decay |-> o.decay, decoupled |-> o.decoupled]
sgd_clone(o) == NewOptimizer("sgd", o.momentum, 0, FALSE)
adam_clone(o) == NewOptimizer("adam", 0, o.decay, o.decoupled)

create_from_optimizer_config(c) ==
  IF c.type = "sgd" THEN NewOptimizer("sgd", c.momentum, 0, FALSE) ELSE NewOptimizer("adam", 0, c.decay, c.decoupled)

----------------------------------------------------------------------------
(* What must hold of them.                                                  *)

Optimizers == {NewOptimizer("sgd", m, d, FALSE) : m \in {0, 1}, d \in {0, 1}}
           \cup {NewOptimizer("adam", 0, d, q) : d \in {0, 1}, q \in BOOLEAN}

ParameterLists == UNION {[1 .. n -> [requires_grad : BOOLEAN, size : {0, 3}]] : n \in 0 .. 2}

\* Both devices compute the same step from the same numbers.
KernelsAgree ==
  \A o \in Optimizers :
    IF o.type = "sgd" THEN SgdKernel(o, "CPU") = SgdKernel(o, "CUDA")
    ELSE AdamKernel(o, "CPU") = AdamKernel(o, "CUDA")

\* Whatever the size and the width of the vectors, each element is computed by one thread.
GridsUpdateOnce ==
  \A size \in 0 .. 9, n \in {1, 2, 4}, aligned \in {{}, {"params"}} :
    LET d == cuda_update_adam(size, n, aligned)
    IN  /\ IF d.wide
           THEN /\ UNION {update_adam_kernel_vec(t, n, size).computed : t \in d.steps} = 0 .. size - 1
                /\ \A t, u \in d.steps : t # u =>
                     update_adam_kernel_vec(t, n, size).moved \cap update_adam_kernel_vec(u, n, size).moved = {}
                /\ \A t \in d.steps : update_adam_kernel_vec(t, n, size).moved \subseteq 0 .. size - 1
           ELSE d.steps = 0 .. size - 1
        /\ cuda_update_sgd(size) = 0 .. size - 1

\* The test of params stands for all four arrays: gradients or moments that are aligned otherwise
\* would be loaded by vectors all the same.
OneAlignmentForFour ==
  \E aligned \in SUBSET {"params", "grads", "m", "v"} :
    /\ cuda_update_adam(4, 4, aligned).wide
    /\ ~ update_adam_kernel_vec(0, 4, 4).pointers \subseteq aligned

\* Each parameter has a state of its own, and there is one for each; a parameter that is frozen or
\* empty is never updated.
StateForEach ==
  \A o \in Optimizers, g \in ParameterLists :
    LET a == attach(o, g)
        u == IF o.type = "sgd" THEN sgd_update(a) ELSE adam_update(a)
        there == {<<"velocities", i>> : i \in 1 .. a.velocities} \cup {<<"moments", i>> : i \in 1 .. a.moments}
    IN  /\ \A i, j \in DOMAIN a.params : i # j => u.slots[i] \cap u.slots[j] = {}
        /\ o.type = "adam" \/ o.momentum > 0 => \A i \in DOMAIN a.params : u.slots[i] \subseteq there
        /\ \A i \in DOMAIN a.params : Trained(a.params[i])

\* Without momentum SGD names the velocity of a parameter in an empty vector.
VelocityOutOfRange ==
  LET a == attach(NewOptimizer("sgd", 0, 0, FALSE), <<[requires_grad |-> TRUE, size |-> 3]>>)
  IN  a.velocities = 0 /\ sgd_update(a).slots[1] = {<<"velocities", 1>>}

\* Attached twice, an optimizer has each parameter twice and updates it twice.
AttachedTwice ==
  \A o \in Optimizers, g \in ParameterLists :
    Len(attach(attach(o, g), g).params) = 2 * Len(attach(o, g).params)

\* A copy of Adam, and what a worker makes of its configuration, are the same optimizer; SGD loses
\* its weight decay on both ways, and already when a program reads it from its configuration.
CopiesForgetDecay ==
  \A o \in Optimizers :
    /\ o.type = "adam" => adam_clone(o) = o /\ create_from_optimizer_config(adam_config(o)) = o
    /\ o.type = "sgd" => sgd_clone(o) = [o EXCEPT !.decay = 0] /\ create_from_optimizer_config(sgd_config(o)) = sgd_clone(o)

----------------------------------------------------------------------------
(* The learning rate schedulers (include/nn/schedulers.hpp).  A scheduler   *)
(* is a record of its parameters and members; "lr" is the learning rate of  *)
(* the optimizer it was given.  Rates are fractions <<numerator,            *)
(* denominator>>; decays are by halves and the cosine is taken at sixths of *)
(* a half turn, where it has an exact value.                                *)

NoRate == <<0, 1>>
Plus(x, y) == IF x[2] = y[2] THEN <<x[1] + y[1], x[2]>> ELSE <<x[1] * y[2] + y[1] * x[2], x[2] * y[2]>>
RateProduct(x, y) == <<x[1] * y[1], x[2] * y[2]>>
Minus(x, y) == Plus(x, <<-y[1], y[2]>>)
AtMost(x, y) == x[1] * y[2] <= y[1] * x[2]
Same(x, y) == x[1] * y[2] = y[1] * x[2]

HalfRate == <<1, 2>>    \* gamma and factor

\* (1 + cos(pi p / q)) / 2 for q in {1, 2, 3}.
Cosine(p, q) ==
  LET sixth == ((6 * p) \div q) % 12
      value == [s \in {0, 2, 3, 4, 6, 8, 9, 10} |->
                 CASE s = 0 -> <<1, 1>> [] s \in {2, 10} -> <<3, 4>> [] s \in {3, 9} -> <<1, 2>>
                   [] s \in {4, 8} -> <<1, 4>> [] s = 6 -> <<0, 1>>]
  IN  value[sixth]

\* From high down to low by the fraction f.
Between(low, high, f) == Plus(low, RateProduct(Minus(high, low), f))

\* The parameters of every kind of scheduler; each kind uses its own.
Parameters ==
  [step_size |-> 2, milestones |-> <<2, 3, 5>>, T_max |-> 3, T_mult |-> 1, eta_min |-> <<1, 8>>,
   start_lr |-> <<1, 4>>, warmup_steps |-> 3, total_steps |-> 6, power |-> 2, end_lr |-> <<1, 8>>,
   patience |-> 2, threshold |-> 0, min_lr |-> <<1, 8>>, step_up |-> 3, div |-> <<1, 4>>,
   final_div |-> HalfRate]

\* The base class: base_lr is what the optimizer holds when the scheduler is made.
Scheduler(type, lr, par) ==
  [type |-> type, par |-> par, base |-> lr, lr |-> lr, n |-> 0, milestone |-> 1, T_cur |-> 0,
   T_i |-> par.T_max, best |-> 100, bad |-> 0]

\* The warm-up schedulers lower the optimizer's rate when they are made.
Warmed(s) ==
  IF s.par.warmup_steps > 0
  THEN [s EXCEPT !.lr = Between(s.par.start_lr, s.base, <<1, s.par.warmup_steps>>)] ELSE s

initial_lr(s, max_lr) == RateProduct(max_lr, s.par.div)
min_lr(s, max_lr) == RateProduct(initial_lr(s, max_lr), s.par.final_div)

\* The peak of a OneCycleLR is a parameter, not the optimizer's rate.
MaxLr == <<1, 1>>

New(type, lr, par) ==
  LET s == Scheduler(type, lr, par)
  IN  CASE type \in {"linear_warmup", "warmup_cosine_annealing"} -> Warmed(s)
        [] type = "one_cycle_lr" -> [s EXCEPT !.lr = initial_lr(s, MaxLr)]
        [] OTHER -> s

----------------------------------------------------------------------------
(* step: the count is raised, then each kind sets its rate.                 *)

Counted(s) == [s EXCEPT !.n = @ + 1]

StepLR(s) == IF s.n % s.par.step_size = 0 THEN [s EXCEPT !.lr = RateProduct(@, HalfRate)] ELSE s

\* At most one milestone is passed in a step.
MultiStepLR(s) ==
  IF s.milestone <= Len(s.par.milestones) /\ s.n >= s.par.milestones[s.milestone]
  THEN [s EXCEPT !.lr = RateProduct(@, HalfRate), !.milestone = @ + 1] ELSE s

ExponentialLR(s) == [s EXCEPT !.lr = RateProduct(@, HalfRate)]

CosineAnnealingLR(s) ==
  [s EXCEPT !.lr = Between(s.par.eta_min, s.base, Cosine(s.n % s.par.T_max, s.par.T_max))]

CosineAnnealingWarmRestarts(s) ==
  LET over == s.T_cur + 1 >= s.T_i
      cur  == IF over THEN 0 ELSE s.T_cur + 1
      i    == IF over THEN s.T_i * s.par.T_mult ELSE s.T_i
  IN  [s EXCEPT !.T_cur = cur, !.T_i = i, !.lr = Between(s.par.eta_min, s.base, Cosine(cur, i))]

Rising(s) == Between(s.par.start_lr, s.base, <<s.n + 1, s.par.warmup_steps>>)

LinearWarmup(s) ==
  CASE s.n < s.par.warmup_steps -> [s EXCEPT !.lr = Rising(s)]
    [] s.par.warmup_steps = 0 -> [s EXCEPT !.lr = s.base]
    [] OTHER -> s

WarmupCosineAnnealing(s) ==
  LET decay   == s.par.total_steps - s.par.warmup_steps
      current == IF s.n - s.par.warmup_steps > decay THEN decay ELSE s.n - s.par.warmup_steps
  IN  IF s.n < s.par.warmup_steps THEN [s EXCEPT !.lr = Rising(s)]
      ELSE [s EXCEPT !.lr = Between(s.par.eta_min, s.base, Cosine(current, decay))]

PolynomialLR(s) ==
  LET left == <<s.par.total_steps - (IF s.n > s.par.total_steps THEN s.par.total_steps ELSE s.n),
                s.par.total_steps>>
  IN  [s EXCEPT !.lr = Between(s.par.end_lr, s.base, IF s.par.power = 2 THEN RateProduct(left, left) ELSE left)]

\* Nothing stops the fall at total_steps.
OneCycleLR(s) ==
  LET up == s.par.step_up
  IN  [s EXCEPT !.lr =
         IF s.n <= up THEN Between(initial_lr(s, MaxLr), MaxLr, <<s.n, up>>)
         ELSE Between(min_lr(s, MaxLr), MaxLr, Cosine(s.n - up, s.par.total_steps - up))]

\* step(metric), with a metric to be made small; step() only counts.
ReduceLROnPlateau(s, metric) ==
  LET c       == Counted(s)
      lowered == RateProduct(s.lr, HalfRate)
  IN  IF metric < s.best - s.par.threshold THEN [c EXCEPT !.best = metric, !.bad = 0]
      ELSE IF s.bad + 1 >= s.par.patience
           THEN [c EXCEPT !.bad = 0, !.lr = IF AtMost(s.par.min_lr, lowered) THEN lowered ELSE s.par.min_lr]
           ELSE [c EXCEPT !.bad = @ + 1]

step(s) ==
  LET c == Counted(s) IN
  CASE s.type = "step_lr" -> StepLR(c) [] s.type = "multi_step_lr" -> MultiStepLR(c)
    [] s.type = "exponential_lr" -> ExponentialLR(c)
    [] s.type = "cosine_annealing_lr" -> CosineAnnealingLR(c)
    [] s.type = "cosine_annealing_warm_restarts" -> CosineAnnealingWarmRestarts(c)
    [] s.type = "linear_warmup" -> LinearWarmup(c)
    [] s.type = "warmup_cosine_annealing" -> WarmupCosineAnnealing(c)
    [] s.type = "polynomial_lr" -> PolynomialLR(c) [] s.type = "one_cycle_lr" -> OneCycleLR(c)
    [] s.type \in {"no_op", "reduce_lr_on_plateau"} -> c

\* The rate goes back to base_lr, also of a scheduler that began below it.
reset(s) ==
  [s EXCEPT !.n = 0, !.lr = s.base, !.milestone = 1, !.T_cur = 0, !.T_i = s.par.T_max,
            !.best = 100, !.bad = 0]

----------------------------------------------------------------------------
(* The factory, and the way of a scheduler to a worker.                     *)

\* base_lr is written for every kind but one_cycle_lr.
get_config(s) == [type |-> s.type, par |-> s.par, base_lr |-> s.base]

FactoryTypes ==
  {"step_lr", "multi_step_lr", "exponential_lr", "cosine_annealing_lr",
   "cosine_annealing_warm_restarts", "linear_warmup", "warmup_cosine_annealing",
   "reduce_lr_on_plateau", "polynomial_lr", "one_cycle_lr"}

\* base_lr is not read: the optimizer's rate is taken in its place.
create_from_config(config, lr) == New(config.type, lr, config.par)

\* deploy_stages sends both configurations, set_config makes an optimizer with the rate that the
\* coordinator's has by now, and a scheduler over it.
Deployed(s) == create_from_config(get_config(s), s.lr)

----------------------------------------------------------------------------
(* What must hold of them.                                                  *)

Types == FactoryTypes \cup {"no_op"}
BaseLr == <<1, 1>>
Made(type) == New(type, BaseLr, Parameters)

AfterSteps(s, steps) == LET r[k \in 0 .. steps] == IF k = 0 THEN s ELSE step(r[k - 1]) IN r[steps]

HighestRate == BaseLr
LowestRate == [t \in Types |->
             CASE t \in {"cosine_annealing_lr", "cosine_annealing_warm_restarts", "polynomial_lr",
                         "warmup_cosine_annealing", "one_cycle_lr"} -> <<1, 8>>
               [] t = "linear_warmup" -> <<1, 4>> [] OTHER -> NoRate]

\* Within the steps it was made for, a scheduler keeps the rate between its two ends.
StaysBetween ==
  \A t \in Types, k \in 0 .. Parameters.total_steps :
    AtMost(LowestRate[t], AfterSteps(Made(t), k).lr) /\ AtMost(AfterSteps(Made(t), k).lr, HighestRate)

\* Warming up raises the rate in every step and reaches base_lr after warmup_steps - 1 of them; the
\* schedulers that only decay never raise it.
RisesThenFalls ==
  LET peak == Parameters.warmup_steps - 1
      lr(t, k) == AfterSteps(Made(t), k).lr
  IN  /\ \A t \in {"linear_warmup", "warmup_cosine_annealing"} :
           /\ \A k \in 0 .. peak - 1 : ~ AtMost(lr(t, k + 1), lr(t, k))
           /\ Same(lr(t, peak), BaseLr)
      /\ \A t \in {"step_lr", "multi_step_lr", "exponential_lr", "polynomial_lr", "no_op"},
            k \in 0 .. 7 : AtMost(lr(t, k + 1), lr(t, k))
      /\ \A k \in peak .. 7 : AtMost(lr("warmup_cosine_annealing", k + 1), lr("warmup_cosine_annealing", k))

\* The polynomial, the warmed cosine and the cycle end at their lowest rate, and the first two
\* stay there; the cycle rises again.  The plain cosine starts anew where it would reach eta_min.
EndsAtLowest ==
  LET total == Parameters.total_steps
      low   == <<1, 8>>
  IN  /\ \A t \in {"polynomial_lr", "warmup_cosine_annealing"}, k \in {0, 1, 2} :
           Same(AfterSteps(Made(t), total + k).lr, low)
      /\ Same(AfterSteps(Made("one_cycle_lr"), total).lr, low)
      /\ ~ AtMost(AfterSteps(Made("one_cycle_lr"), total + 1).lr, low)
      /\ \A k \in 0 .. 9 : ~ Same(AfterSteps(Made("cosine_annealing_lr"), k).lr, low)
      /\ Same(AfterSteps(Made("cosine_annealing_lr"), Parameters.T_max).lr, BaseLr)

\* A milestone that was passed has lowered the rate once.
MilestonesCount ==
  \A k \in 0 .. 7 : AfterSteps(Made("multi_step_lr"), k).milestone - 1 =
    Cardinality({i \in DOMAIN Parameters.milestones : Parameters.milestones[i] <= k})

\* AfterSteps a reset the steps give the rates they gave at first; only the rate before the first step
\* is another, for the kinds that are made below base_lr.
ResetRestarts ==
  \A t \in Types, before \in {0, 1, 4}, k \in 0 .. 4 :
    LET again == AfterSteps(reset(AfterSteps(Made(t), before)), k).lr
    IN  k > 0 \/ t \notin {"linear_warmup", "warmup_cosine_annealing", "one_cycle_lr"} =>
          Same(again, AfterSteps(Made(t), k).lr)

\* A plateau lowers the rate once per "patience" metrics that are no better.
PlateauWaits ==
  LET m[k \in 0 .. 6] == IF k = 0 THEN Made("reduce_lr_on_plateau") ELSE ReduceLROnPlateau(m[k - 1], 5)
  IN  /\ \A k \in 0 .. 2 : Same(m[k].lr, BaseLr)
      /\ Same(m[3].lr, HalfRate) /\ Same(m[4].lr, HalfRate) /\ Same(m[5].lr, <<1, 4>>)

\* A worker's optimizer follows the coordinator's schedule, for the kinds that are made at base_lr;
\* a no_op scheduler has no kind in the factory.
DeployedFollows ==
  /\ \A t \in FactoryTypes \ {"linear_warmup", "warmup_cosine_annealing"}, k \in 0 .. 7 :
       Same(AfterSteps(Deployed(Made(t)), k).lr, AfterSteps(Made(t), k).lr)
  /\ "no_op" \notin FactoryTypes

\* A scheduler that warms up is made twice, once with the coordinator's optimizer, which leaves it
\* at the first warm-up rate, and once over that rate: the workers never come near base_lr.
WarmupIsAppliedTwice ==
  \A t \in {"linear_warmup", "warmup_cosine_annealing"}, k \in 0 .. 7 :
    AtMost(AfterSteps(Deployed(Made(t)), k).lr, Made(t).lr)

ASSUME StaysBetween
ASSUME RisesThenFalls
ASSUME EndsAtLowest
ASSUME MilestonesCount
ASSUME ResetRestarts
ASSUME PlateauWaits
ASSUME DeployedFollows
ASSUME WarmupIsAppliedTwice
ASSUME KernelsAgree
ASSUME GridsUpdateOnce
ASSUME OneAlignmentForFour
ASSUME StateForEach
ASSUME VelocityOutOfRange
ASSUME AttachedTwice
ASSUME CopiesForgetDecay
=============================================================================
