CONSTANTS
  I = I
  J = J
  C = C
  G = G
  X = X
  Y = Y
  K = K
  L = L
  marked = marked
  NoAnnotation = NoAnnotation
  Class <- Classes
  Annotation = {NoAnnotation, marked}
  Component = {1, 2}
  WithArgs = {}
  Type <- Types
  Traits <- MCTraits
  BindingsOf <- MCBindingsOf
  DeclaredOf <- MCDeclaredOf
  MaxCalls <- MCMaxCalls
SPECIFICATION Spec
INVARIANT
  LoopsAreReported
