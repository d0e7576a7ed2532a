SPECIFICATION ScannerSpec
CONSTANT Documents <- MarkupInside
INVARIANT BlocksIntercepted
\* Nothing follows finish.
CHECK_DEADLOCK FALSE
