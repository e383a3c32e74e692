----------------------------- MODULE PrefixCode -----------------------------
(***************************************************************************)
(* encode.c: how the prefix codes of a block are found.                    *)
(*                                                                         *)
(* The symbols of a block are divided into groups of GROUP_SIZE; each      *)
(* group is coded by one of up to six trees.  The trees and the selection  *)
(* are improved in cluster_factor rounds with the codes of Huffman (in     *)
(* place, with two queues), and then the trees that are in use get codes   *)
(* of limited length by package-merge, of the height that costs least.     *)
(*                                                                         *)
(* Symbols are numbered from 0; as is the size of the alphabet.  A weight, *)
(* in the code one integer of 64 bits, is the record of its fields.        *)
(***************************************************************************)
EXTENDS Util

CONSTANTS
  GROUP_SIZE,           \* 50
  MAX_CODE_LENGTH,      \* 20
  MAX_HUFF_CODE_LENGTH, \* 30
  cluster_factor,       \* 8
  Thresholds,           \* 150, 300, ...: more symbols get one more tree
  PACK                  \* 2 ^ 10: the costs of a group by all trees are packed

MAX_TREES == 6

ASSUME PrefixCodeAssumption ==
  /\ GROUP_SIZE \in Nat \ {0} /\ MAX_CODE_LENGTH \in Nat \ {0}
  /\ MAX_HUFF_CODE_LENGTH > MAX_CODE_LENGTH
  /\ Len(Thresholds) < MAX_TREES
  /\ GROUP_SIZE * MAX_CODE_LENGTH < PACK

(***************************************************************************)
(* Weights.                                                                *)
(***************************************************************************)
Weight(freq, v) == [freq |-> freq, depth |-> 0, leaves |-> 1, symbol |-> v]
Infinite == [freq |-> 1000000, depth |-> 0, leaves |-> 0, symbol |-> 0]

(* The order of the integers: the smaller symbol has the larger label.     *)
Lighter(a, b) ==
  \/ a.freq < b.freq
  \/ a.freq = b.freq /\ a.depth < b.depth
  \/ a.freq = b.freq /\ a.depth = b.depth /\ a.leaves < b.leaves
  \/ a.freq = b.freq /\ a.depth = b.depth /\ a.leaves = b.leaves /\ a.symbol > b.symbol

(* sort_alphabet(): the heaviest first.                                    *)
sort_alphabet(weights) == SortSeq(weights, LAMBDA a, b : Lighter(b, a))

(* The node t above a and b; it keeps the label of what was in its place.  *)
Joined(a, b, t) ==
  [freq |-> a.freq + b.freq, depth |-> Greatest(a.depth, b.depth) + 1,
   leaves |-> (a.leaves + b.leaves) % 256, symbol |-> t.symbol]

weight_add(a, b) ==
  [freq |-> a.freq + b.freq, depth |-> Greatest(a.depth, b.depth) + 1, leaves |-> 0,
   symbol |-> 0]

(***************************************************************************)
(* make_code_lengths(): Huffman's codes.                                   *)
(***************************************************************************)
(* build_tree(): tree[i] is the node above the inner node i.  The weights  *)
(* from s on are used, and so are the inner nodes from r on.  The node t   *)
(* gets the two lightest: two inner nodes, two leaves, or one of each.     *)
TwoInner(a, t) ==
  a.s < 1 \/ (a.r > t + 2 /\ Lighter(a.weight[a.r - 2], a.weight[a.s - 1]))

(* Mutant of TwoLeaves: leaves are preferred to inner nodes.               *)
TwoLeaves_First(a, t) == a.r < t + 2 \/ a.s > 1

TwoLeaves(a, t) ==
  a.r < t + 2 \/ (a.s > 1 /\ ~ Lighter(a.weight[a.r - 1], a.weight[a.s - 2]))

Join(a, t) ==
  LET n == IF TwoInner(a, t) THEN 2 ELSE IF TwoLeaves(a, t) THEN 0 ELSE 1
      w1 == IF n > 0 THEN a.weight[a.r - 1] ELSE a.weight[a.s - 1]
      w2 == CASE n = 2 -> a.weight[a.r - 2] [] n = 1 -> a.weight[a.s - 1] [] n = 0 -> a.weight[a.s - 2]
  IN Value([r |-> a.r - n, s |-> a.s - (2 - n),
            tree |-> [i \in DOMAIN a.tree |-> IF a.r - n <= i /\ i < a.r THEN t ELSE a.tree[i]],
            weight |-> [a.weight EXCEPT ![t] = Joined(w1, w2, @)]])

build_tree(sorted) ==
  LET as == Len(sorted)
  IN FoldLeft(Join, [r |-> as, s |-> as, tree |-> [i \in 1 .. as - 1 |-> 0],
                     weight |-> [i \in 0 .. as - 1 |-> sorted[i + 1]]], Down(as - 1)).tree

(* compute_depths(): how many codes there are of each length.  The nodes   *)
(* are in the order of their depths, by which their parents are replaced.  *)
compute_depths(tree, as) ==
  LET Level(a, depth) ==
        LET OnLevel(i) == a.tree[a.tree[i]] + 1 = depth
            used == CHOOSE n \in 0 .. as - a.node :
                      /\ \A i \in a.node .. a.node + n - 1 : OnLevel(i)
                      /\ a.node + n < as => ~ OnLevel(a.node + n)
        IN  [node |-> a.node + used, avail |-> 2 * used,
             tree |-> [i \in 1 .. as - 1 |->
                         IF a.node <= i /\ i < a.node + used THEN depth ELSE a.tree[i]],
             count |-> Append(a.count, a.avail - used)]
  IN FoldLeft(Level, [node |-> 2, avail |-> 2, tree |-> [tree EXCEPT ![1] = 0], count |-> <<>>],
              Up(MAX_HUFF_CODE_LENGTH)).count

(* The lengths of the codes when count[d] of the sorted symbols get d.     *)
Lengths(sorted, count) ==
  LET depths == FoldLeft(LAMBDA l, d : l \o [i \in 1 .. count[d] |-> d], <<>>, Up(Len(count)))
  IN [v \in 0 .. Len(sorted) - 1 |->
        depths[CHOOSE i \in DOMAIN sorted : sorted[i].symbol = v]]

make_code_lengths(freq) ==
  LET as == Size(freq)
      sorted == sort_alphabet([i \in 1 .. as |-> Weight(Greatest(freq[i - 1], 1), i - 1)])
  IN Lengths(sorted, compute_depths(build_tree(sorted), as))

(***************************************************************************)
(* assign_codes(): codes of limited length.                                *)
(***************************************************************************)
(* package_merge(): tree[h][d + 1] is how many symbols have codes longer   *)
(* than d in the best code of height h.  The stack holds the depths that   *)
(* are to be extended by a node, the next one last.                        *)
RECURSIVE Extend(_, _, _)
Extend(a, stack, leaf_weight) ==
  IF stack = <<>> THEN a
  ELSE LET depth == Last(stack)
           rest == Front(stack)
           package == IF depth = 1 THEN Infinite ELSE a.pkg[depth - 1]
           row == a.tree[depth]
           leaves == row[1] + 1
           next == IF leaves < Len(leaf_weight) THEN leaf_weight[Len(leaf_weight) - leaves]
                   ELSE Infinite
       IN IF Lighter(a.curr[depth], package)
          THEN Extend([a EXCEPT !.tree[depth] = [row EXCEPT ![1] = leaves],
                                !.pkg[depth] = weight_add(a.prev[depth], a.curr[depth]),
                                !.prev[depth] = a.curr[depth],
                                !.curr[depth] = next], rest, leaf_weight)
          ELSE IF depth = 1 THEN Extend(a, rest, leaf_weight)
          ELSE Extend([a EXCEPT !.tree[depth] = <<row[1]>> \o Front(a.tree[depth - 1]),
                                !.pkg[depth] = weight_add(a.prev[depth], package),
                                !.prev[depth] = package],
                      rest \o <<depth - 1, depth - 1>>, leaf_weight)

package_merge(leaf_weight) ==
  LET as == Len(leaf_weight)
      depths == 1 .. MAX_CODE_LENGTH
      start == [tree |-> [d \in depths |-> <<2>> \o [i \in depths |-> 0]],
                pkg |-> [d \in depths |-> weight_add(leaf_weight[as], leaf_weight[as - 1])],
                prev |-> [d \in depths |-> leaf_weight[as - 1]],
                curr |-> [d \in depths |-> leaf_weight[as - 2]]]
  IN FoldLeft(LAMBDA a, width : Extend(a, <<MAX_CODE_LENGTH, MAX_CODE_LENGTH>>, leaf_weight),
              start, Up(as - 2)).tree

(* Mutant of TreeCost: only rising lengths cost anything.                  *)
TreeCost_Rising(length) ==
  5 + Size(length)
    + 2 * SumOf([v \in DOMAIN length \ {0} |-> Greatest(length[v] - length[v - 1], 0)])

(* Bits for a tree: its first length, and the differences.                 *)
TreeCost(length) ==
  5 + Size(length) + 2 * SumOf([v \in DOMAIN length \ {0} |-> Distance(length[v - 1], length[v])])

CodeCost(length, freq) == SumOf([v \in DOMAIN freq |-> freq[v] * length[v]])

(* The codes, in the order of their lengths and of the symbols.            *)
Codes(length) ==
  LET Among(l, below) == Cardinality({u \in DOMAIN length : length[u] = l /\ u < below})
      base[l \in 1 .. MAX_CODE_LENGTH] ==
        IF l = 1 THEN 0 ELSE 2 * (base[l - 1] + Among(l - 1, Size(length)))
  IN [v \in DOMAIN length |-> base[length[v]] + Among(length[v], v)]

(* The code of every height that is tried, and the cheapest of them.       *)
Cheapest(freq, length) ==
  LET cost == [h \in DOMAIN length |-> CodeCost(length[h], freq) + TreeCost(length[h])]
      best == CHOOSE h \in DOMAIN cost : \A g \in DOMAIN cost :
                cost[h] < cost[g] \/ (cost[h] = cost[g] /\ h <= g)
  IN [length |-> length[best], code |-> Codes(length[best]), cost |-> cost[best], freq |-> freq]

Heights(as, tree) ==
  {h \in 2 .. MAX_CODE_LENGTH :
     2 ^ h >= as /\ \A g \in 2 .. h : 2 ^ g >= as => tree[g][g] # 0}

assign_codes(freq) ==
  LET as == Size(freq)
      sorted == Value(sort_alphabet([i \in 1 .. as |-> Weight(freq[i - 1], i - 1)]))
      tree == Value(package_merge(sorted))
  IN Cheapest(freq, Value([h \in Heights(as, tree) |->
                      Lengths(sorted, [d \in 1 .. h |-> tree[h][d] - tree[h][d + 1]])]))

(***************************************************************************)
(* generate_prefix_code().                                                 *)
(***************************************************************************)
(* generate_initial_trees(): the symbols are divided into nt ranges, of    *)
(* about the same frequency and none without a symbol that occurs.  The    *)
(* result is the sequence of the ranges.                                   *)
RECURSIVE Divide(_, _, _)
Divide(freq, a, nt) ==
  IF nt = 0 THEN <<>>
  ELSE LET cum(b) == SumOf([v \in a .. b - 1 |-> freq[v]])
           left(b) == Cardinality({v \in DOMAIN freq : v >= b /\ freq[v] > 0})
           nm == cum(Size(freq))
           Enough(b) == left(b) <= nt - 1 \/ cum(b) * nt >= nm
           b0 == CHOOSE b \in a + 1 .. Size(freq) :
                   Enough(b) /\ \A c \in a + 1 .. b - 1 : ~ Enough(c)
           last == freq[b0 - 1]
           b1 == IF cum(b0) > last /\ (2 * cum(b0) - last) * nt > 2 * nm THEN b0 - 1 ELSE b0
       IN <<a .. b1 - 1>> \o Divide(freq, b1, nt - 1)

generate_initial_trees(freq, nt) ==
  LET used == Cardinality({v \in DOMAIN freq : freq[v] > 0})
      class == Divide(freq, 0, IF nt < used THEN nt ELSE used)
  IN [t \in 0 .. MAX_TREES - 1 |->
        [v \in DOMAIN freq |-> IF t < Len(class) /\ v \in class[t + 1] THEN 0 ELSE 1]]

(* find_best_tree(): the costs of a group are the digits of one number, so *)
(* a digit that is too large is carried into the next one.                 *)
find_best_tree(group, nt, length) ==
  LET total(t) == SumOf([i \in DOMAIN group |->
                           IF group[i] \in DOMAIN length[t] THEN length[t][group[i]] ELSE 0])
      packed[t \in 0 .. nt - 1] == total(t) + (IF t = 0 THEN 0 ELSE packed[t - 1] \div PACK)
      cost(t) == packed[t] % PACK
  IN CHOOSE t \in 0 .. nt - 1 : \A u \in 0 .. nt - 1 :
       cost(t) < cost(u) \/ (cost(t) = cost(u) /\ t <= u)

(* A round: selectors for the lengths, and lengths for the selectors.      *)
Round(a, groups, as, nt) ==
  LET selector == Value([g \in DOMAIN groups |-> find_best_tree(groups[g], nt, a.length)])
      count(t, v) == SumOf([g \in DOMAIN groups |->
                              IF selector[g] # t THEN 0
                              ELSE Cardinality({i \in DOMAIN groups[g] : groups[g][i] = v})])
      frequency == Value([t \in 0 .. nt - 1 |-> [v \in 0 .. as - 1 |-> count(t, v)]])
  IN Value([selector |-> selector, frequency |-> frequency,
            length |-> [t \in 0 .. MAX_TREES - 1 |->
                          IF t < nt THEN make_code_lengths(frequency[t]) ELSE a.length[t]]])

(* Trees in the order in which they are used first.                        *)
FirstUse(selector) ==
  FoldLeft(LAMBDA order, t : IF t \in ToSet(order) THEN order ELSE Append(order, t),
           <<>>, selector)

(* A block needs two trees; the second one, not used, has short codes.     *)
DummyTree(as) ==
  LET cl0 == CHOOSE l \in 0 .. as : 2 ^ l <= as /\ as < 2 ^ (l + 1)
  IN [v \in 0 .. as - 1 |-> IF v < 2 ^ (cl0 + 1) - as THEN cl0 ELSE cl0 + 1]

(* The symbols in groups; the last one is completed with symbols as.       *)
Groups(mtfv, as) ==
  [g \in 1 .. (Len(mtfv) + GROUP_SIZE - 1) \div GROUP_SIZE |->
     [i \in 1 .. GROUP_SIZE |-> LET k == (g - 1) * GROUP_SIZE + i
                               IN IF k <= Len(mtfv) THEN mtfv[k] ELSE as]]

(* The codes of the trees that are used, the selectors, and what all that  *)
(* costs but for the selectors.                                            *)
WithTrees(groups, as, selector, order, trees) ==
  LET dummy == IF Len(order) = 1 THEN <<DummyTree(as)>> ELSE <<>>
  IN [groups |-> groups,
      selector |-> [g \in DOMAIN groups |-> CHOOSE k \in DOMAIN order : order[k] = selector[g]],
      trees |-> trees, lengths |-> [k \in DOMAIN order |-> trees[k].length] \o dummy,
      cost |-> SumOf([k \in DOMAIN trees |-> trees[k].cost])
                 + SumOf([k \in DOMAIN dummy |-> TreeCost(dummy[k])])]

UsedTrees(groups, as, a) ==
  LET order == FirstUse(a.selector)
  IN WithTrees(groups, as, a.selector, order,
               Value([k \in DOMAIN order |-> assign_codes(a.frequency[order[k]])]))

Frequency(mtfv) ==
  [v \in 0 .. Last(mtfv) |-> Cardinality({i \in DOMAIN mtfv : mtfv[i] = v})]

generate_prefix_code(mtfv) ==
  LET as == Last(mtfv) + 1
      nt == 1 + Cardinality({i \in DOMAIN Thresholds : Len(mtfv) > Thresholds[i]})
      groups == Groups(mtfv, as)
      start == [selector |-> <<>>, frequency |-> <<>>,
                length |-> generate_initial_trees(Value(Frequency(mtfv)), nt)]
  IN UsedTrees(groups, as,
               FoldLeft(LAMBDA a, i : Round(a, groups, as, nt), start, Up(cluster_factor)))
=============================================================================
