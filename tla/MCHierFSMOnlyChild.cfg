CONSTANTS
  Machines <- TreeMachines
  Top = Top
  ModelingError = ModelingError
  Sizes = {3}
  OnlyChild = TRUE
  j1 = j1
  j2 = j2
  init = init
  k = k
  k0 = k0
  k1 = k1
  a = a
  a0 = a0
  a1 = a1
  b = b
  c = c
  d = d
  e = e
  f = f
  f0 = f0
  f1 = f1
  g = g
  h = h
  i = i
  j = j
  l = l
  m = m
SPECIFICATION Spec
PROPERTY TransitionsComplete
CHECK_DEADLOCK FALSE
